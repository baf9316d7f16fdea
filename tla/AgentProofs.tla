---------------------------- MODULE AgentProofs ----------------------------
(***************************************************************************)
(* What Agent guarantees for every number of clients, agent processes and  *)
(* unlocks.                                                                *)
(***************************************************************************)
EXTENDS Agent, TLAPS

-----------------------------------------------------------------------------
(* Types.                                                                  *)
CallsTyped == call \in [Client -> Call] /\ \A c \in Client : call[c].buffer \in 0..unlocks

(* A client that has dialled has dialled an agent process.                 *)
Talking(c) == call[c].step \in {"sent", "accepted", "found"}
TalksToProcess == \A c \in Client : Talking(c) => call[c].at \in Process

LEMMA IdleType ==
  /\ Idle \in Call /\ Idle.buffer = 0 /\ Idle.step = "idle" /\ Idle.op = "get"
  /\ \A op \in Watched : Idle.mark[op] = 0
BY WatchedAssumption, LimitAssumption DEF Idle, Call, Op

LEMMA BarredType ==
  ASSUME TypeOK, NEW c \in Client,
         \A op \in Watched : call[c].op = op => call[c].mark[op] <= unlocks
  PROVE  Barred(c) \in [Watched -> 0..unlocks]
<1>1. call[c].mark \in [Watched -> 0..MaxUnlocks] /\ barred \in [Watched -> 0..unlocks]
      /\ unlocks \in Nat
  BY LimitAssumption DEF TypeOK, Call
<1> QED
  BY <1>1, LimitAssumption DEF Barred

(* A command bars at most the buffers there are.                           *)
MarksMade == \A c \in Client : \A op \in Watched : call[c].mark[op] <= unlocks
Sound == TypeOK /\ TalksToProcess /\ MarksMade
CallsSound == CallsTyped /\ TalksToProcess /\ MarksMade

(* A client whose command changes to one that is sound stays sound, and so *)
(* do the others, whose commands do not change.                            *)
LEMMA UpdateSound ==
  ASSUME Sound, NEW c \in Client, NEW new \in Call, Update(c, new),
         \A op \in Watched : new.mark[op] <= unlocks',
         new.step \in {"sent", "accepted", "found"} => new.at \in Process,
         new.buffer \in 0..unlocks', unlocks' \in Nat, unlocks <= unlocks'
  PROVE  CallsSound'
<1>1. /\ call \in [Client -> Call] /\ call' = [call EXCEPT ![c] = new]
      /\ \A d \in Client : call[d].buffer \in 0..unlocks
      /\ unlocks \in Nat
      /\ \A d \in Client : \A op \in Watched : call[d].mark[op] <= unlocks
      /\ \A d \in Client : call[d].mark \in [Watched -> Nat]
  BY LimitAssumption DEF Update, Sound, TypeOK, MarksMade, Call
<1>2. CallsTyped'
  BY <1>1 DEF CallsTyped
<1>3. TalksToProcess'
  BY <1>1 DEF Sound, TalksToProcess, Talking
<1>4. MarksMade'
  <2>1. new.mark \in [Watched -> Nat]
    BY LimitAssumption DEF Call
  <2> QED
    BY <1>1, <2>1 DEF MarksMade
<1> QED
  BY <1>2, <1>3, <1>4 DEF CallsSound

LEMMA ReturnSound ==
  ASSUME Sound, NEW c \in Client, Return(c), unlocks' \in Nat, unlocks <= unlocks'
  PROVE  CallsSound'
BY IdleType, UpdateSound DEF Return

LEMMA GoOnSound ==
  ASSUME Sound, NEW c \in Client, NEW zero \in BOOLEAN, GoOn(c, zero), UNCHANGED unlocks
  PROVE  CallsSound'
<1> DEFINE new == [op |-> "unlock", req |-> "unlock", mark |-> call[c].mark,
                   step |-> "probe", at |-> Nobody, buffer |-> 0, zero |-> zero]
<1>1. new \in Call /\ new.buffer = 0 /\ new.mark = call[c].mark /\ new.step = "probe"
  BY LimitAssumption DEF Sound, TypeOK, Call, Op
<1>2. Update(c, new) /\ unlocks \in Nat
  BY LimitAssumption DEF GoOn, Sound, TypeOK
<1> HIDE DEF new
<1> QED
  BY <1>1, <1>2, UpdateSound DEF Sound, MarksMade

LEMMA DeniedSound ==
  ASSUME Sound, NEW c \in Client, Denied(c), UNCHANGED unlocks
  PROVE  CallsSound' /\ barred' \in [Watched -> 0..unlocks]
<1>1. Barred(c) \in [Watched -> 0..unlocks] /\ barred \in [Watched -> 0..unlocks]
  BY BarredType DEF Sound, MarksMade, TypeOK
<1>2. unlocks \in Nat
  BY LimitAssumption DEF Sound, TypeOK
<1>3. CASE GoOn(c, FALSE) /\ UNCHANGED barred
  BY <1>1, <1>3, GoOnSound
<1>4. CASE Return(c) /\ barred' \in {barred, Barred(c)}
  BY <1>1, <1>2, <1>4, ReturnSound
<1> QED
  BY <1>3, <1>4 DEF Denied

LEMMA EraseTyped ==
  ASSUME TypeOK, NEW p \in Process, Erase(p)
  PROVE  /\ cached' \in [Process -> 0..unlocks]
         /\ wiped' \subseteq 1..unlocks
         /\ UNCHANGED <<lapsed, unlocks>>
<1>1. unlocks \in Nat /\ cached \in [Process -> 0..unlocks] /\ wiped \subseteq 1..unlocks
      /\ cached[p] \in 0..unlocks
  BY LimitAssumption DEF TypeOK
<1>2. {cached[p]} \ {0} \subseteq 1..unlocks
  BY <1>1
<1>3. cached' \in [Process -> 0..unlocks]
  BY <1>1 DEF Erase
<1>4. wiped' \subseteq 1..unlocks
  BY <1>1, <1>2 DEF Erase
<1> QED
  BY <1>3, <1>4 DEF Erase

LEMMA SoundInit == Init => Sound
BY IdleType, LimitAssumption DEF Init, Sound, TypeOK, MarksMade, TalksToProcess, Talking, Phase

LEMMA SoundStart ==
  ASSUME Sound, NEW c \in Client, NEW op \in Op, Start(c, op)
  PROVE  Sound'
<1>1. StartMark(op) \in [Watched -> 0..unlocks] /\ unlocks \in 0..MaxUnlocks
  BY LimitAssumption DEF Sound, TypeOK, StartMark
<1>2. StartMark(op) \in [Watched -> 0..MaxUnlocks]
  BY <1>1, LimitAssumption
<1> DEFINE new == [op |-> op, req |-> IF op = "unlock" THEN "get" ELSE op,
                   mark |-> StartMark(op), step |-> "dial",
                   at |-> Nobody, buffer |-> 0, zero |-> FALSE]
<1>3. new \in Call
  BY <1>2, LimitAssumption DEF Call, Op
<1>4. /\ call' = [call EXCEPT ![c] = new]
      /\ new.mark = StartMark(op) /\ new.buffer = 0
      /\ UNCHANGED <<phase, path, cache, barred>>
  BY DEF Start, Update
<1> HIDE DEF new
<1>5. CallsSound'
  <2>1. new.step = "dial"
    BY DEF new
  <2>2. unlocks' = unlocks /\ unlocks \in Nat /\ Update(c, new)
    BY <1>1, <1>4 DEF cache, Update
  <2>3. \A o \in Watched : new.mark[o] <= unlocks
    BY <1>1, <1>4
  <2> QED
    BY <1>1, <1>3, <1>4, <2>1, <2>2, <2>3, UpdateSound
<1> QED
  BY <1>4, <1>5 DEF Sound, TypeOK, CallsSound, CallsTyped, cache

LEMMA SoundNext == Sound /\ [Next]_vars => Sound'
<1> SUFFICES ASSUME Sound, [Next]_vars PROVE Sound'
  OBVIOUS
<1> USE LimitAssumption, ProcessAssumption
<1>t. /\ call \in [Client -> Call] /\ unlocks \in Nat
      /\ \A c \in Client : call[c] \in Call /\ call[c].buffer \in 0..unlocks
      /\ phase \in [Process -> Phase] /\ path \in Process \cup {Nobody}
      /\ \A p \in Process : cached[p] \in 0..unlocks
  BY DEF Sound, TypeOK
<1>s. ASSUME CallsSound', phase' \in [Process -> Phase],
             path' \in Process \cup {Nobody}, barred' \in [Watched -> 0..unlocks'],
             UNCHANGED cache
      PROVE Sound'
  BY <1>s DEF Sound, TypeOK, CallsSound, CallsTyped, cache
<1>u. ASSUME NEW c \in Client, NEW new \in Call, Update(c, new), new.mark = call[c].mark,
             new.step \in {"sent", "accepted", "found"} => new.at \in Process,
             new.buffer \in 0..unlocks, UNCHANGED <<path, cache, barred>>,
             phase' \in [Process -> Phase]
      PROVE Sound'
  <2>1. CallsSound'
    BY <1>t, <1>u, UpdateSound DEF Sound, MarksMade, cache
  <2> QED
    BY <1>s, <1>u, <2>1 DEF Sound, TypeOK, cache
<1>p. ASSUME NEW p \in Process, NEW to \in Phase, phase' = [phase EXCEPT ![p] = to],
             UNCHANGED <<call, barred>>, path' \in Process \cup {Nobody},
             UNCHANGED cache \/ Erase(p)
      PROVE Sound'
  <2>1. phase' \in [Process -> Phase]
    BY <1>p, <1>t
  <2>2. CASE UNCHANGED cache
    BY <1>p, <2>1, <2>2 DEF Sound, TypeOK, MarksMade, TalksToProcess, Talking, cache
  <2>3. CASE Erase(p)
    <3>1. /\ cached' \in [Process -> 0..unlocks] /\ wiped' \subseteq 1..unlocks
          /\ UNCHANGED <<lapsed, unlocks>>
      BY <2>3, EraseTyped DEF Sound
    <3> QED
      BY <1>p, <2>1, <3>1 DEF Sound, TypeOK, MarksMade, TalksToProcess, Talking
  <2> QED
    BY <1>p, <2>2, <2>3
<1>1. ASSUME NEW c \in Client, NEW op \in Op, Start(c, op) PROVE Sound'
  BY <1>1, SoundStart
<1>2. ASSUME NEW c \in Client, Dial(c) PROVE Sound'
  <2>1. [call[c] EXCEPT !.step = "sent", !.at = path] \in Call
    BY <1>t DEF Call
  <2>2. path \in Process
    BY <1>2, <1>t DEF Dial, Reachable
  <2> QED
    BY <1>2, <1>t, <1>u, <2>1, <2>2 DEF Dial, Call
<1>3. ASSUME NEW c \in Client, Fail(c) PROVE Sound'
  BY <1>3, <1>s, DeniedSound DEF Fail, cache, Sound, TypeOK
<1>4. ASSUME NEW c \in Client, Probe(c) PROVE Sound'
  <2>1. \A step \in {"dial", "wait"} : [call[c] EXCEPT !.step = step] \in Call
    BY <1>t DEF Call
  <2>2. ASSUME NEW step \in {"dial", "wait"}, Update(c, [call[c] EXCEPT !.step = step]),
               phase' \in [Process -> Phase]
        PROVE Sound'
    BY <1>4, <1>t, <1>u, <2>1, <2>2 DEF Probe, Call
  <2>3. ASSUME Return(c), UNCHANGED phase PROVE Sound'
    BY <1>4, <1>s, <1>t, <2>3, ReturnSound DEF Probe, Sound, TypeOK, cache
  <2>4. phase' \in [Process -> Phase]
    BY <1>4, <1>t DEF Probe, Phase
  <2> QED
    BY <1>4, <2>2, <2>3, <2>4 DEF Probe
<1>5. ASSUME NEW c \in Client, Wait(c) PROVE Sound'
  <2>1. [call[c] EXCEPT !.step = "dial"] \in Call
    BY <1>t DEF Call
  <2>2. ASSUME Update(c, [call[c] EXCEPT !.step = "dial"]) PROVE Sound'
    BY <1>5, <1>t, <1>u, <2>1, <2>2 DEF Wait, Call
  <2>3. ASSUME Return(c) PROVE Sound'
    BY <1>5, <1>s, <1>t, <2>3, ReturnSound DEF Wait, Sound, TypeOK, cache
  <2> QED
    BY <1>5, <2>2, <2>3 DEF Wait
<1>6. ASSUME NEW c \in Client, Accept(c) PROVE Sound'
  <2>1. [call[c] EXCEPT !.step = "accepted"] \in Call
    BY <1>t DEF Call
  <2>2. call[c].at \in Process
    BY <1>6 DEF Accept, Sound, TalksToProcess, Talking
  <2> QED
    BY <1>6, <1>t, <1>u, <2>1, <2>2 DEF Accept, Call
<1>7. ASSUME NEW c \in Client, HandleUnlock(c) PROVE Sound'
  <2>1. unlocks' = unlocks + 1 /\ unlocks' \in 0..MaxUnlocks
    BY <1>7, <1>t DEF HandleUnlock
  <2>2. CallsSound'
    BY <1>7, <1>t, <2>1, ReturnSound DEF HandleUnlock
  <2>3. cached' \in [Process -> 0..unlocks']
    <3>1. cached \in [Process -> 0..unlocks] /\ 0..unlocks \subseteq 0..unlocks'
          /\ unlocks' \in 0..unlocks'
      BY <1>t, <2>1 DEF Sound, TypeOK
    <3>2. cached \in [Process -> 0..unlocks']
      BY <3>1
    <3> QED
      BY <1>7, <3>1, <3>2 DEF HandleUnlock
  <2>4. wiped' \subseteq 1..unlocks' /\ lapsed' \subseteq 1..unlocks'
    <3>1. wiped' \in {wiped \cup {unlocks'}, wiped} /\ lapsed' = lapsed
      BY <1>7, Zenon DEF HandleUnlock
    <3>2. wiped \subseteq 1..unlocks /\ lapsed \subseteq 1..unlocks
      BY DEF Sound, TypeOK
    <3> QED
      BY <1>t, <2>1, <3>1, <3>2
  <2>5. barred' \in [Watched -> 0..unlocks']
    BY <1>7, <1>t, <2>1 DEF HandleUnlock, Sound, TypeOK
  <2> QED
    BY <1>7, <1>t, <2>1, <2>2, <2>3, <2>4, <2>5
    DEF HandleUnlock, Sound, TypeOK, CallsSound, CallsTyped
<1>8. ASSUME NEW c \in Client, HandleGet(c) PROVE Sound'
  <2> DEFINE p == call[c].at
  <2>1. p \in Process
    BY <1>8 DEF HandleGet, Serves, Sound, TalksToProcess, Talking
  <2>2. UNCHANGED <<phase, path>>
    BY <1>8 DEF HandleGet
  <2>3. CASE cached[p] # 0 /\ ~Expired(p)
    <3> DEFINE new == [call[c] EXCEPT !.step = "found", !.buffer = cached[p]]
    <3>1. cached[p] \in 0..unlocks /\ cached[p] \in 0..MaxUnlocks
      BY <1>t, <2>1 DEF Sound, TypeOK
    <3>2. new \in Call /\ new.mark = call[c].mark /\ new.at = call[c].at
          /\ new.buffer = cached[p]
      BY <1>t, <3>1 DEF Call
    <3>3. Update(c, new) /\ UNCHANGED <<cache, barred>>
      BY <1>8, <2>3 DEF HandleGet
    <3> HIDE DEF new
    <3> QED
      BY <1>t, <1>u, <2>1, <2>2, <3>1, <3>2, <3>3
  <2>4. CASE ~(cached[p] # 0 /\ ~Expired(p))
    <3>1. (UNCHANGED cache \/ Erase(p)) /\ Denied(c)
      BY <1>8, <2>4 DEF HandleGet
    <3>2. /\ cached' \in [Process -> 0..unlocks] /\ wiped' \subseteq 1..unlocks
          /\ UNCHANGED <<lapsed, unlocks>>
      BY <2>1, <3>1, EraseTyped DEF Sound, TypeOK, cache
    <3>3. CallsSound' /\ barred' \in [Watched -> 0..unlocks]
      BY <3>1, <3>2, DeniedSound
    <3> QED
      BY <2>2, <3>2, <3>3 DEF Sound, TypeOK, CallsSound, CallsTyped
  <2> QED
    BY <2>3, <2>4
<1>9. ASSUME NEW c \in Client, Reply(c) PROVE Sound'
  <2>1. CASE Return(c)
    BY <1>9, <1>s, <1>t, <2>1, ReturnSound DEF Reply, Sound, TypeOK, cache
  <2>2. CASE GoOn(c, call[c].buffer \in wiped)
    <3>1. (call[c].buffer \in wiped) \in BOOLEAN
      OBVIOUS
    <3>2. CallsSound'
      BY <1>9, <2>2, <3>1, GoOnSound DEF Reply, cache
    <3> QED
      BY <1>9, <1>s, <3>2 DEF Reply, Sound, TypeOK, cache
  <2> QED
    BY <1>9, <2>1, <2>2 DEF Reply
<1>10. ASSUME NEW c \in Client, HandleLock(c) PROVE Sound'
  <2>1. call[c].at \in Process
    BY <1>10 DEF HandleLock, Serves, Sound, TalksToProcess, Talking
  <2>2. /\ cached' \in [Process -> 0..unlocks] /\ wiped' \subseteq 1..unlocks
        /\ UNCHANGED <<lapsed, unlocks>>
    BY <1>10, <2>1, EraseTyped DEF HandleLock, Sound
  <2>3. CallsSound'
    BY <1>10, <1>t, <2>2, ReturnSound DEF HandleLock
  <2>4. barred' \in [Watched -> 0..unlocks]
    BY <1>10, BarredType DEF HandleLock, Sound, MarksMade
  <2> QED
    BY <1>10, <2>2, <2>3, <2>4 DEF HandleLock, Sound, TypeOK, CallsSound, CallsTyped
<1>11. ASSUME NEW c \in Client, HandleStop(c) PROVE Sound'
  <2>1. CallsSound'
    BY <1>11, <1>t, ReturnSound DEF HandleStop, cache
  <2>2. barred' \in [Watched -> 0..unlocks]
    BY <1>11, BarredType DEF HandleStop, Sound, MarksMade
  <2>3. phase' \in [Process -> Phase]
    BY <1>11, <1>t DEF HandleStop, Phase
  <2> QED
    BY <1>11, <1>s, <2>1, <2>2, <2>3 DEF HandleStop, Sound, TypeOK, cache
<1>12. ASSUME NEW p \in Process, ProcessStep(p) \/ Crash(p) PROVE Sound'
  <2>1. CASE Check(p)
    BY <1>p, <1>t, <2>1 DEF Check, Phase
  <2>2. CASE Unlink(p)
    BY <1>p, <2>2 DEF Unlink, Phase
  <2>3. CASE Bind(p)
    BY <1>p, <1>t, <2>3 DEF Bind, Phase
  <2>4. CASE Close(p)
    BY <1>p, <2>4 DEF Close, Phase
  <2>5. CASE ClearAll(p)
    BY <1>p, <1>t, <2>5 DEF ClearAll, Phase
  <2>6. CASE Exit(p) \/ Crash(p)
    BY <1>p, <1>t, <2>6 DEF Exit, Crash, Die, Phase
  <2> QED
    BY <1>12, <2>1, <2>2, <2>3, <2>4, <2>5, <2>6 DEF ProcessStep
<1>13. ASSUME NEW p \in Process, Sweep(p) PROVE Sound'
  <2>1. /\ cached' \in [Process -> 0..unlocks] /\ wiped' \subseteq 1..unlocks
        /\ UNCHANGED <<lapsed, unlocks>>
    BY <1>13, EraseTyped DEF Sweep, Sound
  <2> QED
    BY <1>13, <2>1 DEF Sweep, Sound, TypeOK, MarksMade, TalksToProcess, Talking
<1>14. ASSUME NEW p \in Process, Lapse(p) PROVE Sound'
  <2>1. cached[p] \in 1..unlocks /\ lapsed \subseteq 1..unlocks
    BY <1>14, <1>t DEF Lapse, Sound, TypeOK
  <2>2. lapsed' \subseteq 1..unlocks
    BY <1>14, <2>1 DEF Lapse
  <2> QED
    BY <1>14, <2>2 DEF Lapse, Sound, TypeOK, MarksMade, TalksToProcess, Talking
<1>15. CASE UNCHANGED vars
  BY <1>15 DEF vars, cache, Sound, TypeOK, MarksMade, TalksToProcess, Talking
<1> QED
  BY <1>1, <1>2, <1>3, <1>4, <1>5, <1>6, <1>7, <1>8, <1>9, <1>10, <1>11, <1>12,
     <1>13, <1>14, <1>15, UsesAssumption
  DEF Next, ClientStep, Goroutine, Op

(* The agents' and the commands' state stays in its types, for every       *)
(* number of clients, processes and unlocks.                               *)
THEOREM TypeOKThm == Spec => []TypeOK
<1>1. Sound => TypeOK
  BY DEF Sound
<1> QED
  BY SoundInit, SoundNext, <1>1, PTL DEF Spec

-----------------------------------------------------------------------------
(* Why a lock is final.                                                    *)

(* A process holds a key only between binding its socket and its end, and  *)
(* only a process that has bound one is at the path.                       *)
Bound(p) == phase[p] \in {"serving", "stopping", "closed", "cleared", "dead"}
Holding  == {"serving", "stopping", "closed", "cleared"}
KeysAfterBind ==
  /\ \A p \in Process : phase[p] \notin Holding => cached[p] = 0
  /\ path # Nobody => Bound(path)

(* Commands and their requests: only an unlock makes two, and only a get   *)
(* finds a key.                                                            *)
RequestsFit(c) ==
  /\ call[c].op # "unlock" => call[c].req = call[c].op
  /\ call[c].op = "unlock" => call[c].req \in {"get", "unlock"}
  /\ call[c].step = "found" => call[c].req = "get"
  /\ call[c].step \in {"probe", "wait"} => call[c].op = "unlock"

(* What a command may not get is history.                                  *)
MarkPast(c) ==
  /\ call[c].mark["lock"] <= unlocks
  /\ call[c].op # "lock" => call[c].mark["lock"] <= barred["lock"]

(* The places a key could come from after a lock: the process at the path; *)
(* one the lock did not reach because the path moved on after it dialled;  *)
(* one that a command has dialled already.                                 *)
Clean(p, mark) == cached[p] = 0 \/ cached[p] > mark
Served(p)      == path = p /\ Listening(p)
PathClean      == \A p \in Process : Served(p) => Clean(p, barred["lock"])
LockingClean(c) ==
  call[c].op = "lock" /\ call[c].step \in {"sent", "accepted"}
  => \A p \in Process \ {call[c].at} : Served(p) => Clean(p, call[c].mark["lock"])
DialledClean(c) ==
  call[c].op # "lock" /\ call[c].step \in {"sent", "accepted"}
  => Clean(call[c].at, call[c].mark["lock"])

CallOK(c) == /\ RequestsFit(c) /\ MarkPast(c) /\ LockingClean(c) /\ DialledClean(c)
             /\ Finds(c, "lock")
             /\ Talking(c) => Bound(call[c].at)
IInv == Sound /\ KeysAfterBind /\ PathClean /\ \A c \in Client : CallOK(c)

(* How agents and keys change under a command that does not move: new keys *)
(* are newer than all marks, and a process comes to be served empty.       *)
Moves ==
  /\ unlocks' \in {unlocks, unlocks + 1}
  /\ barred'["lock"] >= barred["lock"]
  /\ \A p \in Process : Bound(p) => Bound(p)'
  /\ \A p \in Process : cached'[p] \in {cached[p], 0, unlocks + 1}
  /\ \A p \in Process : Served(p)' => Served(p) \/ cached'[p] = 0

LEMMA Facts ==
  ASSUME Sound, "lock" \in Watched
  PROVE  /\ unlocks \in Nat /\ barred["lock"] \in 0..unlocks
         /\ call \in [Client -> Call]
         /\ phase \in [Process -> Phase] /\ cached \in [Process -> Nat]
         /\ path \in Process \cup {Nobody}
         /\ \A p \in Process : cached[p] \in 0..unlocks
         /\ \A c \in Client : /\ call[c] \in Call /\ call[c].mark["lock"] \in 0..unlocks
                              /\ call[c].buffer \in Nat
                              /\ Talking(c) => call[c].at \in Process
<1>1. unlocks \in Nat
  BY LimitAssumption DEF Sound, TypeOK
<1>2. \A c \in Client : call[c].mark["lock"] \in 0..MaxUnlocks
  BY LimitAssumption DEF Sound, TypeOK, Call
<1> QED
  BY <1>1, <1>2, LimitAssumption DEF Sound, TypeOK, MarksMade, TalksToProcess

LEMMA CleanStays ==
  ASSUME IInv, Moves, "lock" \in Watched, NEW p \in Process, NEW mark \in 0..unlocks,
         Clean(p, mark)
  PROVE  Clean(p, mark)'
BY Facts DEF IInv, Moves, Clean

(* A command that does not move stays in order.                            *)
LEMMA Others ==
  ASSUME IInv, Sound', Moves, "lock" \in Watched,
         NEW d \in Client, call'[d] = call[d]
  PROVE  CallOK(d)'
<1>t. /\ unlocks \in Nat /\ unlocks' \in Nat /\ unlocks <= unlocks'
      /\ barred["lock"] \in Nat /\ barred'["lock"] \in Nat /\ barred["lock"] <= barred'["lock"]
      /\ call[d].mark["lock"] \in 0..unlocks
      /\ Talking(d) => call[d].at \in Process
  <2>1. barred'["lock"] \in 0..unlocks' /\ unlocks' \in Nat
    BY LimitAssumption DEF Sound, TypeOK
  <2> QED
    BY <2>1, Facts DEF IInv, Moves
<1>1. CallOK(d)
  BY DEF IInv
<1>2. RequestsFit(d)' /\ MarkPast(d)' /\ Finds(d, "lock")'
  BY <1>t, <1>1 DEF CallOK, RequestsFit, MarkPast, Finds
<1>3. (Talking(d) => Bound(call[d].at))'
  BY <1>t, <1>1 DEF CallOK, Talking, Moves, Bound
<1>4. DialledClean(d)'
  <2> SUFFICES ASSUME call[d].op # "lock", call[d].step \in {"sent", "accepted"}
               PROVE  Clean(call[d].at, call[d].mark["lock"])'
    BY DEF DialledClean
  <2>1. call[d].at \in Process /\ Clean(call[d].at, call[d].mark["lock"])
    BY <1>t, <1>1 DEF CallOK, DialledClean, Talking
  <2> QED
    BY <1>t, <2>1, CleanStays DEF Clean
<1>5. LockingClean(d)'
  <2> SUFFICES ASSUME call[d].op = "lock", call[d].step \in {"sent", "accepted"},
                      NEW p \in Process \ {call[d].at}, Served(p)'
               PROVE  cached'[p] = 0 \/ cached'[p] > call[d].mark["lock"]
    BY DEF LockingClean, Clean
  <2>1. CASE Served(p)
    <3>1. Clean(p, call[d].mark["lock"])
      BY <1>1, <2>1 DEF CallOK, LockingClean
    <3> QED
      BY <1>t, <3>1, CleanStays DEF Clean
  <2>2. CASE cached'[p] = 0
    BY <2>2
  <2> QED
    BY <2>1, <2>2 DEF Moves
<1> QED
  BY <1>2, <1>3, <1>4, <1>5 DEF CallOK

(* What a returning lock bars, no served process has.                      *)
Harmless(c) ==
  call[c].op = "lock"
  => \A p \in Process : Served(p)' => cached'[p] = 0 \/ cached'[p] > call[c].mark["lock"]

LEMMA OneMoves ==
  ASSUME IInv, Sound', Moves, KeysAfterBind', "lock" \in Watched, NEW c \in Client,
         \A d \in Client \ {c} : call'[d] = call[d], CallOK(c)',
         barred' = barred \/ (barred' = Barred(c) /\ Harmless(c))
  PROVE  IInv'
<1>t. /\ unlocks \in Nat /\ barred["lock"] \in 0..unlocks
      /\ call[c].mark["lock"] \in 0..unlocks
  BY Facts DEF IInv
<1>1. \A p \in Process : Served(p)' => cached'[p] = 0 \/ cached'[p] > barred["lock"]
  BY <1>t, CleanStays DEF IInv, PathClean, Moves, Clean
<1>2. PathClean'
  <2>1. CASE barred' = barred
    BY <1>1, <2>1 DEF PathClean, Clean
  <2>2. CASE barred' = Barred(c) /\ Harmless(c)
    <3>1. barred'["lock"] = IF call[c].op = "lock" /\ call[c].mark["lock"] > barred["lock"]
                            THEN call[c].mark["lock"] ELSE barred["lock"]
      BY <2>2 DEF Barred
    <3> QED
      BY <1>1, <2>2, <3>1 DEF PathClean, Clean, Harmless
  <2> QED
    BY <2>1, <2>2
<1>3. \A d \in Client : CallOK(d)'
  BY Others
<1> QED
  BY <1>2, <1>3 DEF IInv

LEMMA BarredGrows ==
  ASSUME Sound, "lock" \in Watched, NEW c \in Client, barred' = barred \/ barred' = Barred(c)
  PROVE  barred'["lock"] >= barred["lock"]
<1>1. barred["lock"] \in Nat /\ call[c].mark["lock"] \in Nat
  BY Facts
<1> QED
  BY <1>1 DEF Barred

(* The command that does move.                                             *)
LEMMA IdleOK ==
  ASSUME Sound, Sound', "lock" \in Watched, NEW c \in Client, Return(c)
  PROVE  CallOK(c)' /\ \A d \in Client \ {c} : call'[d] = call[d]
<1>1. unlocks' \in Nat /\ barred'["lock"] \in 0..unlocks'
  BY LimitAssumption DEF Sound, TypeOK
<1>2. call' = [call EXCEPT ![c] = Idle] /\ call \in [Client -> Call]
  BY Facts DEF Return, Update
<1>3. call'[c] = Idle
  BY <1>2
<1>4. Idle.op = "get" /\ Idle.req = "get" /\ Idle.step = "idle" /\ Idle.mark["lock"] = 0
  BY DEF Idle
<1>5. CallOK(c)'
  BY <1>1, <1>3, <1>4
  DEF CallOK, RequestsFit, MarkPast, LockingClean, DialledClean, Finds, Talking
<1> QED
  BY <1>2, <1>5

LEMMA GoOnOK ==
  ASSUME IInv, Sound', "lock" \in Watched, NEW c \in Client, NEW zero \in BOOLEAN,
         GoOn(c, zero), call[c].op = "unlock", UNCHANGED <<unlocks, barred>>
  PROVE  CallOK(c)' /\ \A d \in Client \ {c} : call'[d] = call[d]
<1> DEFINE new == [op |-> "unlock", req |-> "unlock", mark |-> call[c].mark,
                   step |-> "probe", at |-> Nobody, buffer |-> 0, zero |-> zero]
<1>1. call' = [call EXCEPT ![c] = new] /\ call \in [Client -> Call]
  BY Facts DEF GoOn, Update, IInv
<1>2. new.op = "unlock" /\ new.req = "unlock" /\ new.step = "probe" /\ new.mark = call[c].mark
  OBVIOUS
<1> HIDE DEF new
<1>3. call'[c] = new
  BY <1>1
<1>4. MarkPast(c)
  BY DEF IInv, CallOK
<1>5. CallOK(c)'
  BY <1>2, <1>3, <1>4
  DEF CallOK, RequestsFit, MarkPast, LockingClean, DialledClean, Finds, Talking
<1> QED
  BY <1>1, <1>5

LEMMA DeniedOK ==
  ASSUME IInv, Sound', "lock" \in Watched, NEW c \in Client, Denied(c), Harmless(c),
         UNCHANGED <<phase, path, unlocks>>, UNCHANGED cached \/ cached' = [cached EXCEPT ![call[c].at] = 0]
  PROVE  IInv'
<1>1. barred' = barred \/ barred' = Barred(c)
  BY DEF Denied
<1>2. \A p \in Process : cached'[p] \in {cached[p], 0}
  BY Facts DEF IInv
<1>3. Moves
  BY <1>1, <1>2, BarredGrows, Facts DEF IInv, Moves, Bound, Served, Listening
<1>4. KeysAfterBind'
  BY <1>2 DEF IInv, KeysAfterBind, Bound
<1>5. CallOK(c)' /\ \A d \in Client \ {c} : call'[d] = call[d]
  <2>1. CASE GoOn(c, FALSE) /\ call[c].op = "unlock" /\ UNCHANGED barred
    BY <2>1, GoOnOK
  <2>2. CASE Return(c)
    BY <2>2, IdleOK DEF IInv
  <2> QED
    BY <2>1, <2>2 DEF Denied
<1> QED
  BY <1>1, <1>3, <1>4, <1>5, OneMoves

LEMMA IInvInit == "lock" \in Watched /\ Init => IInv
<1> SUFFICES ASSUME "lock" \in Watched, Init PROVE IInv
  OBVIOUS
<1>1. Sound
  BY SoundInit
<1>2. KeysAfterBind /\ PathClean
  BY ProcessAssumption DEF Init, KeysAfterBind, PathClean, Served, Holding
<1>3. ASSUME NEW c \in Client PROVE CallOK(c)
  <2>1. call[c].op = "get" /\ call[c].req = "get" /\ call[c].step = "idle"
        /\ call[c].mark["lock"] = 0 /\ unlocks = 0 /\ barred["lock"] = 0
    BY <1>3 DEF Init, Idle
  <2> QED
    BY <2>1 DEF CallOK, RequestsFit, MarkPast, LockingClean, DialledClean, Finds, Talking
<1> QED
  BY <1>1, <1>2, <1>3 DEF IInv

LEMMA IInvNext == "lock" \in Watched /\ IInv /\ [Next]_vars => IInv'
<1> SUFFICES ASSUME "lock" \in Watched, IInv, [Next]_vars PROVE IInv'
  OBVIOUS
<1> USE ProcessAssumption
<1>0. Sound'
  BY SoundNext DEF IInv
<1>t. /\ unlocks \in Nat /\ barred["lock"] \in 0..unlocks
      /\ call \in [Client -> Call]
      /\ phase \in [Process -> Phase] /\ cached \in [Process -> Nat]
      /\ path \in Process \cup {Nobody}
      /\ \A p \in Process : cached[p] \in 0..unlocks
      /\ \A c \in Client : /\ call[c] \in Call /\ call[c].mark["lock"] \in 0..unlocks
                           /\ call[c].buffer \in Nat
                           /\ Talking(c) => call[c].at \in Process
  BY Facts DEF IInv
<1>c. \A c \in Client : CallOK(c)
  BY DEF IInv
(* Nothing but a command changes, or a process that is not served yet.     *)
<1>m. ASSUME UNCHANGED <<path, cache, barred>>, \A p \in Process : Bound(p) => Bound(p)',
             \A p \in Process : \/ phase'[p] = phase[p]
                                \/ phase'[p] \notin Holding /\ cached[p] = 0
      PROVE Moves /\ KeysAfterBind'
  <2>1. Moves
    BY <1>t, <1>m DEF Moves, Served, Listening, Holding, cache
  <2>2. KeysAfterBind'
    BY <1>t, <1>m DEF IInv, KeysAfterBind, cache, Holding, Bound
  <2> QED
    BY <2>1, <2>2
<1>n. UNCHANGED phase => /\ \A p \in Process : Bound(p) => Bound(p)'
                         /\ \A p \in Process : phase'[p] = phase[p]
  BY DEF Bound
(* A process moves on, and no command does.                                *)
<1>p. ASSUME Moves, KeysAfterBind', UNCHANGED <<call, barred>> PROVE IInv'
  <2>1. \A c \in Client : CallOK(c)'
    BY <1>0, <1>p, Others
  <2>2. PathClean'
    BY <1>t, <1>p, CleanStays DEF IInv, PathClean, Moves, Clean
  <2> QED
    BY <1>0, <1>p, <2>1, <2>2 DEF IInv
<1>1. ASSUME NEW c \in Client, NEW op \in Op, Start(c, op) PROVE IInv'
  <2> DEFINE new == [op |-> op, req |-> IF op = "unlock" THEN "get" ELSE op,
                     mark |-> StartMark(op), step |-> "dial",
                     at |-> Nobody, buffer |-> 0, zero |-> FALSE]
  <2>1. call' = [call EXCEPT ![c] = new] /\ UNCHANGED <<phase, path, cache, barred>>
    BY <1>1 DEF Start, Update
  <2>2. /\ new.op = op /\ new.req = IF op = "unlock" THEN "get" ELSE op
        /\ new.step = "dial" /\ new.mark = StartMark(op)
    OBVIOUS
  <2> HIDE DEF new
  <2>3. StartMark(op)["lock"] = IF op = "lock" THEN unlocks ELSE barred["lock"]
    <3>1. barred \in [Watched -> 0..unlocks]
      BY DEF IInv, Sound, TypeOK
    <3> QED
      BY <3>1 DEF StartMark
  <2>4. call'[c] = new /\ \A d \in Client \ {c} : call'[d] = call[d]
    BY <1>t, <2>1
  <2>5. CallOK(c)'
    BY <1>t, <2>1, <2>2, <2>3, <2>4
    DEF CallOK, RequestsFit, MarkPast, LockingClean, DialledClean, Finds, Talking, cache
  <2> QED
    BY <1>0, <1>m, <1>n, <2>1, <2>4, <2>5, OneMoves
<1>2. ASSUME NEW c \in Client, Dial(c) PROVE IInv'
  <2>1. path \in Process /\ Listening(path) /\ UNCHANGED <<phase, path, cache, barred>>
    BY <1>2, <1>t DEF Dial, Reachable
  <2>2. /\ call'[c].op = call[c].op /\ call'[c].req = call[c].req
        /\ call'[c].mark = call[c].mark /\ call'[c].step = "sent" /\ call'[c].at = path
        /\ \A d \in Client \ {c} : call'[d] = call[d]
    BY <1>2, <1>t DEF Dial, Update, Call
  <2>3. RequestsFit(c)' /\ MarkPast(c)' /\ Finds(c, "lock")'
    BY <1>c, <2>1, <2>2 DEF CallOK, RequestsFit, MarkPast, Finds, cache
  <2>4. LockingClean(c)'
    BY <2>1, <2>2 DEF LockingClean, Served
  <2>5. DialledClean(c)'
    <3>1. Clean(path, barred["lock"])
      BY <2>1 DEF IInv, PathClean, Served
    <3>2. call[c].op # "lock" => call[c].mark["lock"] <= barred["lock"]
      BY <1>c DEF CallOK, MarkPast
    <3> QED
      BY <1>t, <2>1, <2>2, <3>1, <3>2 DEF DialledClean, Clean, cache
  <2>6. (Talking(c) => Bound(call[c].at))'
    BY <2>1, <2>2 DEF Bound, Listening
  <2> QED
    BY <1>0, <1>m, <1>n, <2>1, <2>2, <2>3, <2>4, <2>5, <2>6, OneMoves DEF CallOK
<1>3. ASSUME NEW c \in Client, Fail(c) PROVE IInv'
  <2>1. UNCHANGED <<phase, path, cached, unlocks>>
    BY <1>3 DEF Fail, cache
  <2>2. Harmless(c)
    <3> SUFFICES ASSUME call[c].op = "lock", NEW p \in Process, Served(p)'
                 PROVE  cached'[p] = 0 \/ cached'[p] > call[c].mark["lock"]
      BY DEF Harmless
    <3>1. Served(p) /\ path = p /\ Listening(p) /\ Reachable
      BY <2>1 DEF Served, Listening, Reachable
    <3>2. call[c].step \in {"sent", "accepted"} /\ ~Listening(call[c].at)
      BY <1>3, <1>c, <3>1 DEF Fail, Unanswered, CallOK, RequestsFit, Listening
    <3>3. Clean(p, call[c].mark["lock"])
      BY <1>c, <3>1, <3>2 DEF CallOK, LockingClean
    <3> QED
      BY <2>1, <3>3 DEF Clean
  <2> QED
    BY <1>0, <1>3, <2>1, <2>2, DeniedOK DEF Fail
<1>4. ASSUME NEW c \in Client, Probe(c) PROVE IInv'
  <2>1. call[c].op = "unlock" /\ UNCHANGED <<path, cache, barred>>
    BY <1>4, <1>c DEF Probe, CallOK, RequestsFit
  <2>2. Moves /\ KeysAfterBind'
    <3>1. CASE UNCHANGED phase
      BY <1>m, <1>n, <2>1, <3>1
    <3>2. ASSUME NEW p \in Process, phase[p] = "off", phase' = [phase EXCEPT ![p] = "spawned"]
          PROVE  Moves /\ KeysAfterBind'
      <4>1. cached[p] = 0
        BY <3>2 DEF IInv, KeysAfterBind, Holding
      <4> QED
        BY <1>m, <1>t, <2>1, <3>2, <4>1 DEF Bound, Holding
    <3> QED
      BY <1>4, <3>1, <3>2 DEF Probe
  <2>3. CASE Return(c)
    BY <1>0, <2>1, <2>2, <2>3, IdleOK, OneMoves DEF IInv
  <2>4. ASSUME NEW step \in {"dial", "wait"}, Update(c, [call[c] EXCEPT !.step = step])
        PROVE  IInv'
    <3>1. /\ call'[c].op = call[c].op /\ call'[c].req = call[c].req
          /\ call'[c].mark = call[c].mark /\ call'[c].step = step
          /\ \A d \in Client \ {c} : call'[d] = call[d]
      BY <1>t, <2>4 DEF Update, Call
    <3>2. CallOK(c)'
      BY <1>c, <2>1, <3>1
      DEF CallOK, RequestsFit, MarkPast, LockingClean, DialledClean, Finds, Talking, cache
    <3> QED
      BY <1>0, <2>1, <2>2, <3>1, <3>2, OneMoves
  <2> QED
    BY <1>4, <2>3, <2>4 DEF Probe
<1>5. ASSUME NEW c \in Client, Wait(c) PROVE IInv'
  <2>1. call[c].op = "unlock" /\ UNCHANGED <<phase, path, cache, barred>>
    BY <1>5, <1>c DEF Wait, CallOK, RequestsFit
  <2>2. Moves /\ KeysAfterBind'
    BY <1>m, <1>n, <2>1
  <2>3. CASE Return(c)
    BY <1>0, <2>1, <2>2, <2>3, IdleOK, OneMoves DEF IInv
  <2>4. CASE Update(c, [call[c] EXCEPT !.step = "dial"])
    <3>1. /\ call'[c].op = call[c].op /\ call'[c].req = call[c].req
          /\ call'[c].mark = call[c].mark /\ call'[c].step = "dial"
          /\ \A d \in Client \ {c} : call'[d] = call[d]
      BY <1>t, <2>4 DEF Update, Call
    <3>2. CallOK(c)'
      BY <1>c, <2>1, <3>1
      DEF CallOK, RequestsFit, MarkPast, LockingClean, DialledClean, Finds, Talking, cache
    <3> QED
      BY <1>0, <2>1, <2>2, <3>1, <3>2, OneMoves
  <2> QED
    BY <1>5, <2>3, <2>4 DEF Wait
<1>6. ASSUME NEW c \in Client, Accept(c) PROVE IInv'
  <2>1. call[c].step = "sent" /\ UNCHANGED <<phase, path, cache, barred>>
    BY <1>6 DEF Accept
  <2>2. /\ call'[c].op = call[c].op /\ call'[c].req = call[c].req
        /\ call'[c].mark = call[c].mark /\ call'[c].step = "accepted"
        /\ call'[c].at = call[c].at
        /\ \A d \in Client \ {c} : call'[d] = call[d]
    BY <1>6, <1>t DEF Accept, Update, Call
  <2>3. CallOK(c)'
    BY <1>c, <2>1, <2>2
    DEF CallOK, RequestsFit, MarkPast, LockingClean, DialledClean, Finds, Talking, cache,
        Clean, Served, Listening, Bound
  <2> QED
    BY <1>0, <1>m, <1>n, <2>1, <2>2, <2>3, OneMoves
<1>7. ASSUME NEW c \in Client, HandleUnlock(c) PROVE IInv'
  <2> DEFINE p == call[c].at
  <2>1. p \in Process /\ phase[p] \in Holding
    BY <1>7, <1>c, <1>t DEF HandleUnlock, Serves, CallOK, Talking, Bound, Holding
  <2>2. /\ unlocks' = unlocks + 1 /\ cached' = [cached EXCEPT ![p] = unlocks + 1]
        /\ UNCHANGED <<phase, path, barred>>
    BY <1>7 DEF HandleUnlock
  <2>3. Moves
    BY <1>t, <2>2 DEF Moves, Bound, Served, Listening
  <2>4. KeysAfterBind'
    BY <1>t, <2>1, <2>2 DEF IInv, KeysAfterBind, Bound
  <2> QED
    BY <1>0, <1>7, <2>2, <2>3, <2>4, IdleOK, OneMoves DEF HandleUnlock, IInv
<1>8. ASSUME NEW c \in Client, HandleGet(c) PROVE IInv'
  <2> DEFINE p == call[c].at
  <2>1. /\ call[c].step = "accepted" /\ call[c].req = "get" /\ call[c].op # "lock"
        /\ p \in Process /\ UNCHANGED <<phase, path>>
    BY <1>8, <1>c, <1>t DEF HandleGet, Serves, CallOK, RequestsFit, Talking
  <2>2. CASE cached[p] # 0 /\ ~Expired(p)
    <3>1. Update(c, [call[c] EXCEPT !.step = "found", !.buffer = cached[p]])
          /\ UNCHANGED <<cache, barred>>
      BY <1>8, <2>2 DEF HandleGet
    <3>2. /\ call'[c].op = call[c].op /\ call'[c].req = call[c].req
          /\ call'[c].mark = call[c].mark /\ call'[c].step = "found"
          /\ call'[c].at = p /\ call'[c].buffer = cached[p]
          /\ \A d \in Client \ {c} : call'[d] = call[d]
      BY <3>1, <1>t DEF Update, Call
    <3>3. cached[p] > call[c].mark["lock"]
      BY <1>c, <2>1, <2>2 DEF CallOK, DialledClean, Clean
    <3>4. Finds(c, "lock")'
      BY <3>2, <3>3 DEF Finds
    <3>5. CallOK(c)'
      BY <1>c, <2>1, <3>1, <3>2, <3>4
      DEF CallOK, RequestsFit, MarkPast, LockingClean, DialledClean, Talking, cache, Bound
    <3> QED
      BY <1>0, <1>m, <1>n, <2>1, <3>1, <3>2, <3>5, OneMoves
  <2>3. CASE ~(cached[p] # 0 /\ ~Expired(p))
    <3>1. Denied(c) /\ (UNCHANGED cache \/ Erase(p))
      BY <1>8, <2>3 DEF HandleGet
    <3>2. unlocks' = unlocks /\ (UNCHANGED cached \/ cached' = [cached EXCEPT ![p] = 0])
      BY <3>1 DEF Erase, cache
    <3> QED
      BY <1>0, <2>1, <3>1, <3>2, DeniedOK DEF Harmless
  <2> QED
    BY <2>2, <2>3
<1>9. ASSUME NEW c \in Client, Reply(c) PROVE IInv'
  <2>1. UNCHANGED <<phase, path, cache, barred>>
    BY <1>9 DEF Reply
  <2>2. CASE Return(c)
    BY <1>0, <1>m, <1>n, <2>1, <2>2, IdleOK, OneMoves DEF IInv
  <2>3. CASE call[c].op = "unlock" /\ GoOn(c, call[c].buffer \in wiped)
    <3>1. (call[c].buffer \in wiped) \in BOOLEAN
      OBVIOUS
    <3>2. CallOK(c)' /\ \A d \in Client \ {c} : call'[d] = call[d]
      BY <1>0, <2>1, <2>3, <3>1, GoOnOK DEF cache
    <3> QED
      BY <1>0, <1>m, <1>n, <2>1, <3>2, OneMoves
  <2> QED
    BY <1>9, <2>2, <2>3 DEF Reply
<1>10. ASSUME NEW c \in Client, HandleLock(c) PROVE IInv'
  <2> DEFINE p == call[c].at
  <2>1. /\ call[c].step = "accepted" /\ call[c].op = "lock" /\ p \in Process
    BY <1>10, <1>c, <1>t DEF HandleLock, Serves, CallOK, RequestsFit, Talking
  <2>2. /\ cached' = [cached EXCEPT ![p] = 0] /\ unlocks' = unlocks
        /\ UNCHANGED <<phase, path>> /\ barred' = Barred(c)
    BY <1>10 DEF HandleLock, Erase
  <2>3. \A q \in Process : cached'[q] \in {cached[q], 0}
    BY <1>t, <2>2
  <2>4. Moves
    BY <1>t, <2>2, <2>3, BarredGrows DEF IInv, Moves, Bound, Served, Listening
  <2>5. KeysAfterBind'
    BY <2>2, <2>3 DEF IInv, KeysAfterBind, Bound
  <2>6. Harmless(c)
    <3> SUFFICES ASSUME NEW q \in Process, Served(q)', q # p
                 PROVE  cached'[q] = 0 \/ cached'[q] > call[c].mark["lock"]
      BY <1>t, <2>1, <2>2 DEF Harmless
    <3>1. Served(q)
      BY <2>2 DEF Served, Listening
    <3> QED
      BY <1>c, <1>t, <2>1, <2>2, <3>1 DEF CallOK, LockingClean, Clean
  <2> QED
    BY <1>0, <1>10, <2>2, <2>4, <2>5, <2>6, IdleOK, OneMoves DEF HandleLock, IInv
<1>11. ASSUME NEW c \in Client, HandleStop(c) PROVE IInv'
  <2> DEFINE p == call[c].at
  <2>1. call[c].op # "lock" /\ p \in Process
    BY <1>11, <1>c, <1>t DEF HandleStop, Serves, CallOK, RequestsFit, Talking
  <2>2. /\ phase' = [phase EXCEPT ![p] = IF @ = "serving" THEN "stopping" ELSE @]
        /\ UNCHANGED <<path, cache>> /\ barred' = Barred(c)
    BY <1>11 DEF HandleStop
  <2>3. \A q \in Process : \/ phase'[q] = phase[q]
                           \/ phase'[q] = "stopping" /\ phase[q] = "serving"
    BY <1>t, <2>2
  <2>4. Moves
    BY <1>t, <2>2, <2>3, BarredGrows DEF IInv, Moves, Bound, Served, Listening, cache
  <2>5. KeysAfterBind'
    BY <1>t, <2>2, <2>3 DEF IInv, KeysAfterBind, Bound, Holding, cache
  <2> QED
    BY <1>0, <1>11, <2>1, <2>2, <2>4, <2>5, IdleOK, OneMoves DEF HandleStop, IInv, Harmless
<1>d. ASSUME NEW p \in Process, Die(p) PROVE IInv'
  <2>1. phase'[p] = "dead" /\ cached'[p] = 0 /\ UNCHANGED <<path, call, barred, unlocks>>
        /\ (\A q \in Process \ {p} : phase'[q] = phase[q])
        /\ \A q \in Process : cached'[q] \in {cached[q], 0}
    BY <1>t, <1>d DEF Die, Erase
  <2>2. Moves /\ KeysAfterBind'
    BY <1>t, <2>1 DEF IInv, Moves, KeysAfterBind, Bound, Holding, Served, Listening
  <2> QED
    BY <1>p, <2>1, <2>2
<1>12. ASSUME NEW p \in Process, ProcessStep(p) PROVE IInv'
  <2>1. CASE Check(p)
    <3>1. cached[p] = 0 /\ phase'[p] \in {"dead", "alone"} /\ phase[p] = "spawned"
          /\ (\A q \in Process \ {p} : phase'[q] = phase[q])
          /\ UNCHANGED <<path, cache, call, barred>>
      BY <1>t, <2>1 DEF Check, IInv, KeysAfterBind, Holding
    <3> QED
      BY <1>m, <1>p, <3>1 DEF Bound, Holding
  <2>2. CASE Unlink(p)
    <3>1. phase[p] = "alone" /\ phase'[p] = "unlinked" /\ path' = Nobody
          /\ (\A q \in Process \ {p} : phase'[q] = phase[q])
          /\ UNCHANGED <<cache, call, barred>>
      BY <1>t, <2>2 DEF Unlink
    <3>2. Moves /\ KeysAfterBind'
      BY <1>t, <3>1 DEF IInv, Moves, KeysAfterBind, Bound, Holding, Served, cache
    <3> QED
      BY <1>p, <3>1, <3>2
  <2>3. CASE Bind(p)
    <3>1. phase[p] = "unlinked" /\ cached[p] = 0
          /\ (\A q \in Process \ {p} : phase'[q] = phase[q])
          /\ UNCHANGED <<cache, call, barred>>
          /\ \/ phase'[p] = "serving" /\ path' = p
             \/ phase'[p] = "dead" /\ path' = path
      BY <1>t, <2>3 DEF Bind, IInv, KeysAfterBind, Holding
    <3>2. Moves /\ KeysAfterBind'
      BY <1>t, <3>1 DEF IInv, Moves, KeysAfterBind, Bound, Holding, Served, Listening, cache
    <3> QED
      BY <1>p, <3>1, <3>2
  <2>4. CASE Close(p)
    <3>1. phase[p] = "stopping" /\ phase'[p] = "closed" /\ path' = Nobody
          /\ (\A q \in Process \ {p} : phase'[q] = phase[q])
          /\ UNCHANGED <<cache, call, barred>>
      BY <1>t, <2>4 DEF Close
    <3>2. Moves /\ KeysAfterBind'
      BY <1>t, <3>1 DEF IInv, Moves, KeysAfterBind, Bound, Holding, Served, cache
    <3> QED
      BY <1>p, <3>1, <3>2
  <2>5. CASE ClearAll(p)
    <3>1. phase[p] = "closed" /\ phase'[p] = "cleared" /\ UNCHANGED <<path, call, barred, unlocks>>
          /\ (\A q \in Process \ {p} : phase'[q] = phase[q])
          /\ \A q \in Process : cached'[q] \in {cached[q], 0}
      BY <1>t, <2>5 DEF ClearAll, Erase
    <3>2. Moves /\ KeysAfterBind'
      BY <1>t, <3>1 DEF IInv, Moves, KeysAfterBind, Bound, Holding, Served, Listening
    <3> QED
      BY <1>p, <3>1, <3>2
  <2>6. CASE Exit(p)
    BY <1>d, <2>6 DEF Exit
  <2> QED
    BY <1>12, <2>1, <2>2, <2>3, <2>4, <2>5, <2>6 DEF ProcessStep
<1>13. ASSUME NEW p \in Process, Sweep(p) \/ Lapse(p) PROVE IInv'
  <2>1. UNCHANGED <<phase, path, call, barred, unlocks>>
        /\ \A q \in Process : cached'[q] \in {cached[q], 0}
    BY <1>t, <1>13 DEF Sweep, Lapse, Erase
  <2>2. Moves /\ KeysAfterBind'
    BY <1>t, <2>1 DEF IInv, Moves, KeysAfterBind, Bound, Holding, Served, Listening
  <2> QED
    BY <1>p, <2>1, <2>2
<1>14. CASE UNCHANGED vars
  BY <1>m, <1>n, <1>p, <1>14 DEF vars
<1> QED
  BY <1>1, <1>2, <1>3, <1>4, <1>5, <1>6, <1>7, <1>8, <1>9, <1>10, <1>11, <1>12,
     <1>13, <1>14, <1>d, UsesAssumption
  DEF Next, ClientStep, Goroutine, Op, Crash

(* No command finds a key that was unlocked before a lock that had         *)
(* returned when the command started, for every number of clients and      *)
(* agent processes, whichever of them start, stop, fail or are killed.     *)
THEOREM LockIsFinalThm ==
  ASSUME "lock" \in Watched
  PROVE  Spec => []LockIsFinal
<1>1. IInv => LockIsFinal
  BY DEF IInv, CallOK, LockIsFinal
<1>2. Init => IInv
  BY IInvInit
<1>3. IInv /\ [Next]_vars => IInv'
  BY IInvNext
<1> QED
  BY <1>1, <1>2, <1>3, PTL DEF Spec
=============================================================================
