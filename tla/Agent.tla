------------------------------- MODULE Agent --------------------------------
(***************************************************************************)
(* The key-unlock agent (internal/agent): the cifra commands that unlock,  *)
(* get, lock and stop (client.go), and the agent processes they reach over *)
(* one Unix socket (server.go), which handle each connection in a          *)
(* goroutine of its own.  A client that finds no agent spawns one, so two  *)
(* may be starting at once; an agent may be killed at any time.            *)
(*                                                                         *)
(* One identity is modelled: the keys of different identities only meet in *)
(* clearAll and in the sweep, which treat each alike.  Every `unlock` the  *)
(* agent handles makes one more buffer, and buffers are numbered in that   *)
(* order.  The clock is left out: a cached buffer may lapse at any moment.  *)
(* `status` reads the cache and changes nothing.                           *)
(***************************************************************************)
EXTENDS Naturals, FiniteSets

CONSTANTS Client,      \* processes running a cifra command
          Process,     \* agent processes
          Nobody,      \* the path names no socket, or the call no agent
          Watched,     \* the ending commands history is kept for
          Uses,        \* Uses[c]: the commands client c may run
          MaxUnlocks   \* bound: unlock requests handled

ASSUME ProcessAssumption == Nobody \notin Process
ASSUME WatchedAssumption == Watched \subseteq {"lock", "stop"}
ASSUME UsesAssumption ==
  Uses \in [Client -> SUBSET {"unlock", "get", "lock", "stop"}]
ASSUME LimitAssumption == MaxUnlocks \in Nat

VARIABLES phase,    \* phase[p]: how far agent process p has got
          path,     \* the process that bound the socket file, dead or alive
          cached,   \* cached[p]: the buffer in p's map, 0 for none
          wiped,    \* buffers whose bytes are zero
          lapsed,   \* buffers whose time in the cache is over
          unlocks,  \* the number of buffers made
          call,     \* call[c]: the command client c is running
          barred    \* history: barred[op]: the buffers up to this one existed
                    \* when an op that has returned was called

cache == <<cached, wiped, lapsed, unlocks>>
vars  == <<phase, path, cache, call, barred>>

Phase  == {"off", "spawned", "alone", "unlinked", "serving", "stopping",
           "closed", "cleared", "dead"}
Op     == {"unlock", "get", "lock", "stop"}

(* op: the command; req: the request of the current round trip; mark: what *)
(* was barred when the command started (for an op watched itself: the      *)
(* buffers made by then); buffer: what a get found; zero: the key an unlock is to  *)
(* hand over is a zeroed one.                                              *)
Call == [op : Op, req : Op, mark : [Watched -> 0..MaxUnlocks],
         step : {"idle", "dial", "sent", "accepted", "found", "probe", "wait"},
         at : Process \cup {Nobody}, buffer : 0..MaxUnlocks, zero : BOOLEAN]
Idle == [op |-> "get", req |-> "get", mark |-> [e \in Watched |-> 0],
         step |-> "idle", at |-> Nobody, buffer |-> 0, zero |-> FALSE]

TypeOK ==
  /\ phase \in [Process -> Phase]
  /\ path \in Process \cup {Nobody}
  /\ unlocks \in 0..MaxUnlocks
  /\ cached \in [Process -> 0..unlocks]
  /\ wiped \subseteq 1..unlocks
  /\ lapsed \subseteq 1..unlocks
  /\ call \in [Client -> Call]
  /\ \A c \in Client : call[c].buffer \in 0..unlocks
  /\ barred \in [Watched -> 0..unlocks]

Init ==
  /\ phase = [p \in Process |-> "off"]
  /\ path = Nobody
  /\ cached = [p \in Process |-> 0]
  /\ wiped = {}
  /\ lapsed = {}
  /\ unlocks = 0
  /\ call = [c \in Client |-> Idle]
  /\ barred = [e \in Watched |-> 0]

-----------------------------------------------------------------------------
(* Clients.                                                                *)

(* dial succeeds when the file at the path is bound by a process that is   *)
(* still listening.                                                        *)
Listening(p) == phase[p] \in {"serving", "stopping"}
Reachable == path # Nobody /\ Listening(path)

Update(c, fields) == call' = [call EXCEPT ![c] = fields]
Return(c) == Update(c, Idle)

StartMark(op) == IF op \in Watched THEN [barred EXCEPT ![op] = unlocks] ELSE barred

(* cifra agent unlock, agent lock, agent stop, and any command that loads  *)
(* the user's private key.  unlock loads that key the same way first, so   *)
(* its first request is a get.                                             *)
Start(c, op) ==
  /\ call[c].step = "idle"
  /\ Update(c, [op |-> op, req |-> IF op = "unlock" THEN "get" ELSE op,
                mark |-> StartMark(op), step |-> "dial",
                at |-> Nobody, buffer |-> 0, zero |-> FALSE])
  /\ UNCHANGED <<phase, path, cache, barred>>

Dial(c) ==
  /\ call[c].step = "dial"
  /\ Reachable
  /\ Update(c, [call[c] EXCEPT !.step = "sent", !.at = path])
  /\ UNCHANGED <<phase, path, cache, barred>>

(* The key an unlock hands over: from the agent it asked first, or, when   *)
(* that had none, from the keychain, for the passphrase, which may be      *)
(* wrong.                                                                  *)
GoOn(c, zero) ==
  Update(c, [op |-> "unlock", req |-> "unlock", mark |-> call[c].mark,
             step |-> "probe", at |-> Nobody, buffer |-> 0, zero |-> zero])

(* What the command makes of an answer that says no, or of none at all:    *)
(* a get falls back to the keychain, lock and stop report success.         *)
Barred(c) == [op \in Watched |->
                IF op = call[c].op /\ call[c].mark[op] > barred[op]
                THEN call[c].mark[op] ELSE barred[op]]
Denied(c) ==
  IF call[c].op = "unlock" /\ call[c].req = "get"
  THEN (GoOn(c, FALSE) \/ Return(c)) /\ UNCHANGED barred
  ELSE /\ Return(c)
       /\ barred' = Barred(c)

(* No agent at the path; or the agent went away with the connection: one   *)
(* in the backlog dies with the listener, an accepted one with its process.*)
Unanswered(c) ==
  LET p == call[c].at
  IN \/ call[c].step = "dial" /\ ~Reachable
     \/ call[c].step = "sent" /\ ~Listening(p)
     \/ call[c].step \in {"accepted", "found"} /\ phase[p] = "dead"
Fail(c) ==
  /\ Unanswered(c)
  /\ Denied(c)
  /\ UNCHANGED <<phase, path, cache>>

(* EnsureRunning: ask whether an agent answers, spawn one if none does,    *)
(* and poll until it answers or two seconds have passed.                   *)
Probe(c) ==
  /\ call[c].step = "probe"
  /\ IF Reachable
     THEN /\ Update(c, [call[c] EXCEPT !.step = "dial"])
          /\ UNCHANGED phase
     ELSE \/ \E p \in Process :
               /\ phase[p] = "off"
               /\ phase' = [phase EXCEPT ![p] = "spawned"]
               /\ Update(c, [call[c] EXCEPT !.step = "wait"])
          \/ /\ \A p \in Process : phase[p] # "off"   \* the spawn fails
             /\ Return(c)
             /\ UNCHANGED phase
  /\ UNCHANGED <<path, cache, barred>>

GivesUpNever(c) == FALSE
GivesUp(c) == ~Reachable
Wait(c) ==
  /\ call[c].step = "wait"
  /\ \/ Reachable /\ Update(c, [call[c] EXCEPT !.step = "dial"])
     \/ GivesUp(c) /\ Return(c)
  /\ UNCHANGED <<phase, path, cache, barred>>

-----------------------------------------------------------------------------
(* Agent processes.  Listen: is an agent answering already; remove the     *)
(* file at the path; bind, which fails when another process has bound it.  *)
Check(p) ==
  /\ phase[p] = "spawned"
  /\ phase' = [phase EXCEPT ![p] = IF Reachable THEN "dead" ELSE "alone"]
  /\ UNCHANGED <<path, cache, call, barred>>

Unlink(p) ==
  /\ phase[p] = "alone"
  /\ path' = Nobody
  /\ phase' = [phase EXCEPT ![p] = "unlinked"]
  /\ UNCHANGED <<cache, call, barred>>

Bind(p) ==
  /\ phase[p] = "unlinked"
  /\ phase' = [phase EXCEPT ![p] = IF path = Nobody THEN "serving" ELSE "dead"]
  /\ path' = IF path = Nobody THEN p ELSE path
  /\ UNCHANGED <<cache, call, barred>>

(* The goroutine of a connection runs until the process exits, also after  *)
(* the listener is closed.                                                 *)
Accept(c) ==
  /\ call[c].step = "sent"
  /\ Listening(call[c].at)
  /\ Update(c, [call[c] EXCEPT !.step = "accepted"])
  /\ UNCHANGED <<phase, path, cache, barred>>

Serves(c, req) ==
  /\ call[c].step = "accepted"
  /\ call[c].req = req
  /\ phase[call[c].at] # "dead"

(* handleUnlock.  A buffer replaced in the map is not cleared.             *)
HandleUnlock(c) ==
  /\ Serves(c, "unlock")
  /\ unlocks < MaxUnlocks
  /\ unlocks' = unlocks + 1
  /\ cached' = [cached EXCEPT ![call[c].at] = unlocks']
  /\ wiped' = IF call[c].zero THEN wiped \cup {unlocks'} ELSE wiped
  /\ Return(c)
  /\ UNCHANGED <<phase, path, lapsed, barred>>

(* clear(key), then delete from the map, under the mutex.                  *)
EraseUnguarded(p) ==
  /\ wiped' = wiped \cup {cached[p]}
  /\ cached' = [cached EXCEPT ![p] = 0]
  /\ UNCHANGED <<lapsed, unlocks>>
Erase(p) ==
  /\ wiped' = wiped \cup ({cached[p]} \ {0})
  /\ cached' = [cached EXCEPT ![p] = 0]
  /\ UNCHANGED <<lapsed, unlocks>>

(* handleGet up to the unlock of the mutex; what it found it encodes and   *)
(* sends later, from the bytes the buffer then has.                        *)
Expired(p) == cached[p] \in lapsed
HandleGet(c) ==
  LET p == call[c].at
  IN /\ Serves(c, "get")
     /\ IF cached[p] # 0 /\ ~Expired(p)
        THEN /\ Update(c, [call[c] EXCEPT !.step = "found", !.buffer = cached[p]])
             /\ UNCHANGED <<cache, barred>>
        ELSE /\ IF Expired(p) THEN Erase(p) ELSE UNCHANGED cache
             /\ Denied(c)
     /\ UNCHANGED <<phase, path>>

Reply(c) ==
  /\ call[c].step = "found"
  /\ phase[call[c].at] # "dead"
  /\ IF call[c].op = "unlock" THEN GoOn(c, call[c].buffer \in wiped) ELSE Return(c)
  /\ UNCHANGED <<phase, path, cache, barred>>

(* lock: clearAll, then the answer.                                        *)
HandleLockUnsafely(c) ==
  /\ Serves(c, "lock")
  /\ Return(c)
  /\ barred' = Barred(c)
  /\ UNCHANGED <<phase, path, cache>>
HandleLock(c) ==
  /\ Serves(c, "lock")
  /\ Erase(call[c].at)
  /\ Return(c)
  /\ barred' = Barred(c)
  /\ UNCHANGED <<phase, path>>

(* stop: the answer, then ln.Close.                                        *)
HandleStop(c) ==
  LET p == call[c].at
  IN /\ Serves(c, "stop")
     /\ Return(c)
     /\ barred' = Barred(c)
     /\ phase' = [phase EXCEPT ![p] = IF @ = "serving" THEN "stopping" ELSE @]
     /\ UNCHANGED <<path, cache>>

(* Closing a Unix listener removes the file at its path, whoever bound it. *)
Close(p) ==
  /\ phase[p] = "stopping"
  /\ phase' = [phase EXCEPT ![p] = "closed"]
  /\ path' = Nobody
  /\ UNCHANGED <<cache, call, barred>>

(* Serve's deferred clearAll, and the end of the process.                  *)
ClearAll(p) ==
  /\ phase[p] = "closed"
  /\ phase' = [phase EXCEPT ![p] = "cleared"]
  /\ Erase(p)
  /\ UNCHANGED <<path, call, barred>>

(* A dead process keeps nothing.                                           *)
Die(p) ==
  /\ phase' = [phase EXCEPT ![p] = "dead"]
  /\ Erase(p)
  /\ UNCHANGED <<path, call, barred>>
Exit(p) == phase[p] = "cleared" /\ Die(p)
Crash(p) == phase[p] \notin {"off", "dead"} /\ Die(p)

(* sweepExpired's ticker.                                                  *)
SweepNothing(p) == FALSE /\ UNCHANGED vars
Sweep(p) ==
  /\ phase[p] \in {"serving", "stopping", "closed"}
  /\ Expired(p)
  /\ Erase(p)
  /\ UNCHANGED <<phase, path, call, barred>>

(* The TTL of a cached key runs out.                                       *)
Lapse(p) ==
  /\ cached[p] # 0
  /\ lapsed' = lapsed \cup {cached[p]}
  /\ UNCHANGED <<phase, path, cached, wiped, unlocks, call, barred>>

-----------------------------------------------------------------------------
ClientStep(c) == Dial(c) \/ Fail(c) \/ Probe(c) \/ Wait(c)
Goroutine(c)  == \/ Accept(c) \/ HandleUnlock(c) \/ HandleGet(c) \/ Reply(c)
                 \/ HandleLock(c) \/ HandleStop(c)
ProcessStep(p) == \/ Check(p) \/ Unlink(p) \/ Bind(p)
                  \/ Close(p) \/ ClearAll(p) \/ Exit(p)

(* An unlock starts only while there are buffers left for it.              *)
UnlocksUnderWay == {c \in Client : call[c].op = "unlock"}
MayUnlock == unlocks + Cardinality(UnlocksUnderWay) < MaxUnlocks
Next ==
  \/ \E c \in Client : \/ \E op \in Uses[c] : (op = "unlock" => MayUnlock) /\ Start(c, op)
                       \/ ClientStep(c) \/ Goroutine(c)
  \/ \E p \in Process : ProcessStep(p) \/ Crash(p) \/ Sweep(p) \/ Lapse(p)

Spec == Init /\ [][Next]_vars

(* The scheduler runs every command, goroutine and process, and the sweep  *)
(* ticks every thirty seconds.                                             *)
Fairness == /\ \A c \in Client : WF_vars(ClientStep(c) \/ Goroutine(c))
            /\ \A p \in Process : WF_vars(ProcessStep(p)) /\ WF_vars(Sweep(p))
FairSpec == Spec /\ Fairness
-----------------------------------------------------------------------------
(* A lock that has returned is final: no command started afterwards gets a *)
(* key that was unlocked before the lock was called, whatever agents were  *)
(* starting, stopping, being replaced or killed meanwhile, and although    *)
(* lock reports success when it reaches no agent at all.  Finds(c, "stop") *)
(* is not an invariant: stop is answered before the listener is closed.    *)
Finds(c, op) == call[c].step = "found" => call[c].buffer > call[c].mark[op]
LockIsFinal == \A c \in Client : Finds(c, "lock")

(* Every command returns: whichever of its agents dies, closes its         *)
(* listener, refuses to start or is replaced, no one waits for ever.       *)
CallsReturn == \A c \in Client : call[c].step # "idle" ~> call[c].step = "idle"

(* A key does not outlive its time in any process, also one that no client *)
(* can reach any more.                                                     *)
ExpiredKeysErased == \A p \in Process : Expired(p) ~> ~Expired(p)
=============================================================================
