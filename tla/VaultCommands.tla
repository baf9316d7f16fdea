---------------------------- MODULE VaultCommands ---------------------------
(***************************************************************************)
(* cifra commands on one working tree, as processes that run at the same   *)
(* time: the MCP server's handlers and a terminal's commands call the same *)
(* functions, and each of these loads the store and the recipients, and    *)
(* saves the whole store, in steps of its own (cmd/cifra: add.go,          *)
(* rotate.go, rm.go, run.go, push.go, protect.go).                         *)
(*                                                                         *)
(* What VaultStore abstracts to stamps is here data keys: an envelope      *)
(* holds the value encrypted with its data key, and the data key wrapped   *)
(* to each recipient (internal/crypto/envelope.go).  The git half of push  *)
(* is the business of VaultSync.                                           *)
(***************************************************************************)
EXTENDS Naturals, Sequences, FiniteSets

CONSTANTS Proc,        \* processes
          Env,         \* names of env secrets
          first,       \* the one the vault holds at first
          Secret,      \* the file that `protect encrypt` takes
          Key,         \* recipients
          me,          \* the one whose key this machine holds
          Value,       \* values, the file's content included
          Content,
          NoEntry,
          MaxSeals     \* bound: envelopes sealed

Name == Env \cup {Secret}
Envelope == [value : Value, dek : 1..MaxSeals, wraps : SUBSET Key]
Store == [Name -> Envelope \cup {NoEntry}]

ASSUME CommandsAssumption ==
  /\ first \in Env /\ Secret \notin Env /\ me \in Key /\ Content \in Value
  /\ MaxSeals \in Nat \ {0}
  /\ NoEntry \notin Envelope

VARIABLES store,       \* .cifra/secrets.enc
          roster,      \* .cifra/recipients
          plain,       \* the file is on disk in plaintext
          job,         \* job[p]: the command p runs
          deks,        \* data keys generated so far
          known,       \* history: the data keys a recipient has been given
          meant,       \* history: each name's value, as commands finished
          barred,      \* history: whom a name was not sealed for, nor wrapped since
          overlapped   \* history: a stale command changed the tree

tree    == <<store, roster, plain>>
history == <<known, meant, barred, overlapped>>
commandVars == <<tree, job, deks, history>>

(* only and except filter what run injects, {} for no filter; value is     *)
(* what add takes.                                                         *)
CommandOn(ops, names) ==
  [op : ops, name : names, value : Value, only : SUBSET Env, except : SUBSET Env]
Command == CommandOn({"rotate", "rm", "push", "run"}, Name)
             \cup CommandOn({"add"}, Env) \cup CommandOn({"encrypt"}, {Secret})

(* step: what the command has done; store and roster: what it has read;    *)
(* stale: history, another one has changed the tree since it read it, or   *)
(* the recipients between two reads of a push; env: what it injects.       *)
Job == [cmd : Command,
        step : {"idle", "start", "first", "second", "saved", "child", "done"},
        store : Store, roster : SUBSET Key, stale : BOOLEAN, ok : BOOLEAN,
        env : SUBSET (Name \X Value)]
NoStore == [n \in Name |-> NoEntry]
NoCommand == [op |-> "encrypt", name |-> Secret, value |-> Content, only |-> {}, except |-> {}]
Blank(c, step, ok) ==
  [cmd |-> c, step |-> step, store |-> NoStore, roster |-> {}, stale |-> FALSE,
   ok |-> ok, env |-> {}]
Idle == Blank(NoCommand, "idle", FALSE)

CommandsTypeOK ==
  /\ store \in Store
  /\ roster \subseteq Key
  /\ plain \in BOOLEAN
  /\ job \in [Proc -> Job]
  /\ deks \in 0..MaxSeals
  /\ known \in [Key -> SUBSET (1..deks)]
  /\ \A n \in Name : store[n] # NoEntry => store[n].dek <= deks
  /\ meant \in [Name -> Value \cup {NoEntry}]
  /\ barred \in [Name -> SUBSET Key]
  /\ overlapped \in BOOLEAN

Seal(value, keys, dek) == [value |-> value, dek |-> dek, wraps |-> keys]
Rewrap(e, keys) == [e EXCEPT !.wraps = keys]
RecoverDEK(e, key) == key \in e.wraps

(* A vault of this user's, with or without others, and a secret in it.     *)
CommandsInit ==
  /\ roster \in {r \in SUBSET Key : me \in r}
  /\ store = [NoStore EXCEPT ![first] = Seal(Content, roster, 1)]
  /\ plain = TRUE
  /\ job = [p \in Proc |-> Idle]
  /\ deks = 1
  /\ known = [k \in Key |-> IF k \in roster THEN {1} ELSE {}]
  /\ meant = [NoStore EXCEPT ![first] = Content]
  /\ barred = [n \in Name |-> Key \ roster]
  /\ overlapped = FALSE

-----------------------------------------------------------------------------
Present(s) == {n \in Name : s[n] # NoEntry}
OutOfStep(s, keys) == {n \in Present(s) : s[n].wraps # keys}

(* selectEnvEntries: only comes before except, files are never selected.   *)
SelectEnvEntries(s, c) ==
  {n \in Present(s) \cap Env :
     IF c.only # {} THEN n \in c.only ELSE n \notin c.except}

-----------------------------------------------------------------------------
Update(p, j) == job' = [job EXCEPT ![p] = j]
Done(j, ok) == Blank(j.cmd, "done", ok)
Fail(j) == Done(j, FALSE)

Begin(p, c) ==
  /\ job[p].step \in {"idle", "done"}
  /\ Update(p, Blank(c, "start", FALSE))
  /\ UNCHANGED <<tree, deks, history>>

ReadStore(j, step) == [[j EXCEPT !.step = step] EXCEPT !.store = store]
ReadRoster(j, step) == [[j EXCEPT !.step = step] EXCEPT !.roster = roster]

(* The first file each command reads, and its first reasons to give up.    *)
Found(j) == j.cmd.name \in Env \cap Present(store)
RotateFirst(j)  == IF Found(j) THEN ReadStore(j, "first") ELSE Fail(j)
RmFirst(j)      == IF Found(j) THEN ReadStore(j, "second") ELSE Fail(j)
RunFirst(j)     == ReadStore(j, "first")
PushFirst(j)    == ReadRoster(j, "first")
AddFirst(j)     == IF roster # {} THEN ReadRoster(j, "first") ELSE Fail(j)
EncryptFirst(j) == IF plain /\ roster # {} THEN ReadRoster(j, "first") ELSE Fail(j)

ReadFirst(p) ==
  LET j == job[p]
  IN /\ j.step = "start"
     /\ Update(p, CASE j.cmd.op = "rotate"  -> RotateFirst(j)
                    [] j.cmd.op = "rm"      -> RmFirst(j)
                    [] j.cmd.op = "run"     -> RunFirst(j)
                    [] j.cmd.op = "push"    -> PushFirst(j)
                    [] j.cmd.op = "add"     -> AddFirst(j)
                    [] j.cmd.op = "encrypt" -> EncryptFirst(j))
     /\ UNCHANGED <<tree, deks, history>>

(* loadCurrentUserKey, for the recipients as they are.                     *)
OwnKey == me \in roster

(* The second file, the private key where it is needed, and what can only  *)
(* be decided with both.                                                   *)
RotateSecond(j) ==
  IF OwnKey /\ RecoverDEK(j.store[j.cmd.name], me) THEN ReadRoster(j, "second") ELSE Fail(j)

(* The child starts.                                                       *)
Injected(s, names) == {<<n, s[n].value>> : n \in names}
RunSecond(j) ==
  LET names == SelectEnvEntries(j.store, j.cmd)
  IN IF OwnKey /\ \A n \in names : RecoverDEK(j.store[n], me)
     THEN [[j EXCEPT !.step = "child"] EXCEPT !.env = Injected(j.store, names)]
     ELSE Fail(j)

(* With nothing to wrap again there is nothing to save.  The private key   *)
(* is looked for among the recipients as they are by now.                  *)
PushSecond(j) ==
  LET names == OutOfStep(store, j.roster)
  IN IF names = {} THEN Done(j, TRUE)
     ELSE IF OwnKey /\ j.roster # {} /\ \A n \in names : RecoverDEK(store[n], me)
     THEN [ReadStore(j, "second") EXCEPT !.stale = j.stale \/ j.roster # roster]
     ELSE Fail(j)
SealSecond(j) == ReadStore(j, "second")

ReadSecond(p) ==
  LET j == job[p]
  IN /\ j.step = "first"
     /\ Update(p, CASE j.cmd.op = "rotate" -> RotateSecond(j)
                    [] j.cmd.op = "run"    -> RunSecond(j)
                    [] j.cmd.op = "push"   -> PushSecond(j)
                    [] OTHER               -> SealSecond(j))
     /\ UNCHANGED <<tree, deks, history>>

(* rotate seals with a fresh data key; the mutant wraps the old one.       *)
RotatedByRewrap(e, keys) == Rewrap(e, keys)
Rotated(e, keys) == Seal(e.value, keys, deks + 1)

AloneInStore(s, n, e) == [NoStore EXCEPT ![n] = e]
Upsert(s, n, e) == [s EXCEPT ![n] = e]

Added(j)     == Upsert(j.store, j.cmd.name, Seal(j.cmd.value, j.roster, deks + 1))
Encrypted(j) == Upsert(j.store, Secret, Seal(Content, j.roster, deks + 1))
Renewed(j)   == Upsert(j.store, j.cmd.name, Rotated(j.store[j.cmd.name], j.roster))
Removed(j)   == [j.store EXCEPT ![j.cmd.name] = NoEntry]
Rewrapped(j) ==
  [n \in Name |-> IF n \in OutOfStep(j.store, j.roster) THEN Rewrap(j.store[n], j.roster)
                  ELSE j.store[n]]
NewStore(j) ==
  CASE j.cmd.op = "add"     -> Added(j)
    [] j.cmd.op = "encrypt" -> Encrypted(j)
    [] j.cmd.op = "rotate"  -> Renewed(j)
    [] j.cmd.op = "rm"      -> Removed(j)
    [] j.cmd.op = "push"    -> Rewrapped(j)

Meant(c) ==
  CASE c.op = "add" -> [meant EXCEPT ![c.name] = c.value]
    [] c.op = "encrypt" -> [meant EXCEPT ![Secret] = Content]
    [] c.op = "rm" -> [meant EXCEPT ![c.name] = NoEntry]
    [] OTHER -> meant

Seals(c) == c.op \in {"add", "encrypt", "rotate"}
Barred(j) ==
  [n \in Name |-> IF Seals(j.cmd) /\ n = j.cmd.name THEN Key \ j.roster
                  ELSE IF j.cmd.op = "push" /\ n \in OutOfStep(j.store, j.roster)
                  THEN barred[n] \ j.roster ELSE barred[n]]

(* p goes on as j, having changed what the others may have read already: a *)
(* push or an add whose first read is behind it has read the recipients.   *)
HasReadTree(j) ==
  \/ j.step \in {"second", "saved"}
  \/ j.step = "first" /\ j.cmd.op \notin {"push", "add"}
Ahead(p, j) ==
  job' = [q \in Proc |-> IF q = p THEN j
                         ELSE [job[q] EXCEPT !.stale = HasReadTree(job[q])]]

(* SaveStore replaces the whole file.                                      *)
Save(p) ==
  LET j == job[p]
      seals == Seals(j.cmd)
  IN /\ j.step = "second"
     /\ seals => deks < MaxSeals
     /\ store' = NewStore(j)
     /\ deks' = IF seals THEN deks + 1 ELSE deks
     /\ Ahead(p, IF j.cmd.op = "encrypt" THEN [j EXCEPT !.step = "saved"]
                 ELSE Done(j, TRUE))
     /\ known' = [k \in Key |->
                    known[k] \cup {store'[n].dek : n \in {m \in Present(store') :
                                                           k \in store'[m].wraps}}]
     /\ meant' = Meant(j.cmd)
     /\ barred' = Barred(j)
     /\ overlapped' = (overlapped \/ j.stale)
     /\ UNCHANGED <<roster, plain>>
(* The command fails, or is killed: what it has read leaves no trace.      *)
SaveFails(p) ==
  /\ job[p].step = "second"
  /\ Update(p, Done(job[p], FALSE))
  /\ UNCHANGED <<tree, deks, history>>

(* protect encrypt: when the envelope, as it was sealed, opens with the    *)
(* user's key, the plaintext is removed.                                   *)
OpensUnchecked(j) == TRUE
Opens(j) == OwnKey /\ me \in j.roster
RemovePlaintext(p) ==
  /\ job[p].step = "saved"
  /\ plain /\ Opens(job[p])
  /\ plain' = FALSE
  /\ Ahead(p, Done(job[p], TRUE))
  /\ overlapped' = (overlapped \/ job[p].stale)
  /\ UNCHANGED <<store, roster, deks, known, meant, barred>>
RemoveFails(p) ==
  /\ job[p].step = "saved"
  /\ Update(p, Done(job[p], FALSE))
  /\ UNCHANGED <<tree, deks, history>>

(* The command run has started ends, or could not be started.              *)
ChildEnds(p) ==
  /\ job[p].step = "child"
  /\ \E ok \in BOOLEAN : Update(p, Done(job[p], ok))
  /\ UNCHANGED <<tree, deks, history>>

(* key new, key import and key delete, as far as the recipients go.        *)
SetRoster(k) ==
  /\ roster' = IF k \in roster THEN roster \ {k} ELSE roster \cup {k}
  /\ UNCHANGED <<store, plain, job, deks, history>>

CommandStep(p) ==
  \/ ReadFirst(p) \/ ReadSecond(p)
  \/ Save(p) \/ SaveFails(p)
  \/ RemovePlaintext(p) \/ RemoveFails(p)
  \/ ChildEnds(p)

-----------------------------------------------------------------------------
(* Unless two commands overlapped, every secret has the value last given   *)
(* to it: rotations, pushes, failures and edits of other names leave it.   *)
ValuesKept ==
  ~overlapped => \A n \in Name :
    meant[n] = IF store[n] = NoEntry THEN NoEntry ELSE store[n].value

(* Unless two commands overlapped, the file `protect encrypt` took is on   *)
(* disk or in the store for this user to open, wherever the command fails, *)
(* is killed, or meets a change of the recipients.                         *)
PlaintextKept ==
  ~overlapped => \/ plain
                 \/ /\ store[Secret] # NoEntry
                    /\ store[Secret].value = Content
                    /\ RecoverDEK(store[Secret], me)

(* A recipient whom an entry was not sealed for, and not wrapped for since,*)
(* has never been given its data key by any version of the store: a        *)
(* rotation after a removal revokes.                                       *)
RevokedByRotation ==
  ~overlapped => \A n \in Present(store) : \A k \in barred[n] :
                   store[n].dek \notin known[k]

(* What protect encrypt's help promises: run injects the file as well.     *)
FilesReachRun ==
  \A p \in Proc :
    /\ job[p].step = "child"
    /\ job[p].cmd.only = {} /\ job[p].cmd.except = {}
    /\ Secret \in Present(job[p].store)
    => \E v \in Value : <<Secret, v>> \in job[p].env
=============================================================================
