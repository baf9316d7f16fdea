------------------------ MODULE VaultCommandsProofs -------------------------
(***************************************************************************)
(* Theorems about commands that run at the same time on one working tree,  *)
(* for any vault and any lines and commands: as long as no command that is *)
(* out of date changes the tree, values are kept, a rotation revokes, and  *)
(* the file that `protect encrypt` takes is not lost.                      *)
(***************************************************************************)
EXTENDS McpServer, SequenceTheorems, FiniteSetTheorems, TLAPS

LEMMA IntervalBound == \A a, b \in Nat : a <= b => 1..a \subseteq 0..b
OBVIOUS

USE CommandsAssumption, McpAssumption DEF Store

(* A command holds the store it has read until it saves.                   *)
HoldsStore(j) == j.step = "second" \/ (j.step = "first" /\ j.cmd.op = "rotate")

(* What a command has checked by the step it is at: a rotation holds the   *)
(* entry it found, a removal is of an env secret, run saves nothing.       *)
Fits(j) ==
  /\ HoldsStore(j) /\ j.cmd.op = "rotate"
       => j.cmd.name \in Env /\ j.store[j.cmd.name] # NoEntry
  /\ j.cmd.op = "rm" => j.step # "first" /\ (j.step = "second" => j.cmd.name \in Env)
  /\ j.step = "second" => j.cmd.op # "run"
  /\ j.step = "saved" => j.cmd.op = "encrypt"

(* No data key is from the future, those in a command's memory included.   *)
DeksUpTo(d, s) == \A n \in Name : s[n] # NoEntry => s[n].dek <= d

(* What a command that is up to date knows of the tree: of the store s and *)
(* of whether the plaintext is on disk.                                    *)
Knows(j, s, onDisk) ==
  /\ HoldsStore(j) => j.store = s
  /\ j.cmd.op = "encrypt" /\ j.step \in {"first", "second"} => onDisk
  /\ j.cmd.op = "push" /\ j.step = "second" => me \in j.roster
  /\ j.step = "saved" => /\ s[Secret] # NoEntry
                          /\ s[Secret].value = Content
                          /\ s[Secret].wraps = j.roster
Fresh(j) == Knows(j, store, plain)

JobsFit   == \A p \in Proc : Fits(job[p]) /\ DeksUpTo(deks, job[p].store)
JobsFresh == \A p \in Proc : job[p].stale \/ Fresh(job[p])

TypeInv == CommandsTypeOK /\ JobsFit

-----------------------------------------------------------------------------
(* Envelopes and the stores made of them.                                  *)

LEMMA SealType ==
  ASSUME NEW v \in Value, NEW keys \in SUBSET Key, NEW d \in 1..MaxSeals
  PROVE  /\ Seal(v, keys, d) \in Envelope
         /\ Seal(v, keys, d) # NoEntry
         /\ Seal(v, keys, d).value = v /\ Seal(v, keys, d).wraps = keys
         /\ Seal(v, keys, d).dek = d
BY DEF Seal, Envelope

LEMMA RewrapType ==
  ASSUME NEW e \in Envelope, NEW keys \in SUBSET Key
  PROVE  /\ Rewrap(e, keys) \in Envelope
         /\ Rewrap(e, keys) # NoEntry
         /\ Rewrap(e, keys).value = e.value /\ Rewrap(e, keys).wraps = keys
         /\ Rewrap(e, keys).dek = e.dek
BY DEF Rewrap, Envelope

LEMMA StoreType ==
  ASSUME NEW s \in Store, NEW n \in Name
  PROVE  s[n] = NoEntry \/ (s[n] \in Envelope /\ s[n].dek \in 1..MaxSeals
                             /\ s[n].value \in Value /\ s[n].wraps \in SUBSET Key)
BY DEF Envelope

(* What a save writes, kind of command by kind.                            *)
LEMMA JobType ==
  ASSUME TypeInv, NEW p \in Proc
  PROVE  /\ job[p] \in Job
         /\ job[p].cmd \in Command /\ job[p].store \in Store
         /\ job[p].roster \in SUBSET Key
         /\ job[p].cmd.op \in {"add", "rotate", "rm", "push", "encrypt", "run"}
         /\ job[p].cmd.name \in Name /\ job[p].cmd.value \in Value
         /\ job[p].cmd.op = "add" => job[p].cmd.name \in Env
         /\ job[p].cmd.op = "encrypt" => job[p].cmd.name = Secret
BY DEF TypeInv, CommandsTypeOK, Job, Command, CommandOn, Name

LEMMA SavedStore ==
  ASSUME TypeInv, NEW p \in Proc, job[p].step = "second",
         Seals(job[p].cmd) => deks < MaxSeals
  PROVE  /\ NewStore(job[p]) \in Store
         /\ \A n \in Name :
              LET j == job[p]
                  e == NewStore(j)[n]
              IN \/ /\ Seals(j.cmd) /\ n = j.cmd.name
                    /\ e # NoEntry /\ e.dek = deks + 1 /\ e.wraps = j.roster
                    /\ e.value = CASE j.cmd.op = "add" -> j.cmd.value
                                   [] j.cmd.op = "encrypt" -> Content
                                   [] j.cmd.op = "rotate" -> j.store[n].value
                 \/ j.cmd.op = "rm" /\ n = j.cmd.name /\ e = NoEntry
                 \/ /\ j.cmd.op = "push" /\ n \in OutOfStep(j.store, j.roster)
                    /\ e # NoEntry /\ e.dek = j.store[n].dek /\ e.wraps = j.roster
                    /\ e.value = j.store[n].value
                 \/ /\ j.cmd.op = "push" \/ n # j.cmd.name
                    /\ ~(j.cmd.op = "push" /\ n \in OutOfStep(j.store, j.roster))
                    /\ e = j.store[n]
<1> DEFINE j == job[p]
<1>1. /\ j.cmd.op \in {"add", "rotate", "rm", "push", "encrypt", "run"} /\ j.store \in Store
      /\ j.roster \in SUBSET Key /\ j.cmd.name \in Name /\ j.cmd.value \in Value
      /\ j.cmd.op = "encrypt" => j.cmd.name = Secret
  BY JobType
<1>2. deks \in Nat /\ MaxSeals \in Nat /\ (Seals(j.cmd) => deks + 1 \in 1..MaxSeals)
  BY DEF TypeInv, CommandsTypeOK
<1>3. CASE j.cmd.op = "add"
  <2>1. Seal(j.cmd.value, j.roster, deks + 1) \in Envelope \ {NoEntry}
    BY <1>1, <1>2, <1>3, SealType DEF Seals
  <2>2. NewStore(j) = [j.store EXCEPT ![j.cmd.name] = Seal(j.cmd.value, j.roster, deks + 1)]
    BY <1>3 DEF NewStore, Added, Upsert
  <2> QED BY <1>1, <1>2, <1>3, <2>1, <2>2, SealType DEF Seals
<1>4. CASE j.cmd.op = "encrypt"
  <2>1. Seal(Content, j.roster, deks + 1) \in Envelope \ {NoEntry}
    BY <1>1, <1>2, <1>4, SealType DEF Seals
  <2>2. NewStore(j) = [j.store EXCEPT ![Secret] = Seal(Content, j.roster, deks + 1)]
    BY <1>4, SMTT(60) DEF NewStore, Encrypted, Upsert
  <2> QED BY <1>1, <1>2, <1>4, <2>1, <2>2, SealType DEF Seals
<1>5. CASE j.cmd.op = "rotate"
  <2>1. j.store[j.cmd.name] \in Envelope /\ j.store[j.cmd.name].value \in Value
    BY <1>1, <1>5, StoreType DEF TypeInv, JobsFit, Fits, HoldsStore
  <2>2. Seal(j.store[j.cmd.name].value, j.roster, deks + 1) \in Envelope \ {NoEntry}
    BY <1>1, <1>2, <1>5, <2>1, SealType DEF Seals
  <2>3. NewStore(j) = [j.store EXCEPT ![j.cmd.name] =
                         Seal(j.store[j.cmd.name].value, j.roster, deks + 1)]
    BY <1>5 DEF NewStore, Renewed, Rotated, Upsert
  <2>4. NewStore(j) \in Store
    BY <1>1, <2>2, <2>3
  <2>5. \A n \in Name : n # j.cmd.name => NewStore(j)[n] = j.store[n]
    BY <1>1, <2>3
  <2>6. /\ NewStore(j)[j.cmd.name] = Seal(j.store[j.cmd.name].value, j.roster, deks + 1)
        /\ NewStore(j)[j.cmd.name] # NoEntry
    BY <1>1, <2>2, <2>3
  <2>7. /\ NewStore(j)[j.cmd.name].dek = deks + 1
        /\ NewStore(j)[j.cmd.name].wraps = j.roster
        /\ NewStore(j)[j.cmd.name].value = j.store[j.cmd.name].value
    BY <1>1, <1>2, <1>5, <2>1, <2>6, SealType DEF Seals
  <2> QED BY <1>5, <2>4, <2>5, <2>6, <2>7 DEF Seals
<1>6. CASE j.cmd.op = "rm"
  <2>1. NewStore(j) = [j.store EXCEPT ![j.cmd.name] = NoEntry]
    BY <1>6 DEF NewStore, Removed
  <2> QED BY <1>1, <1>6, <2>1
<1>7. CASE j.cmd.op = "push"
  <2>1. NewStore(j) = [n \in Name |-> IF n \in OutOfStep(j.store, j.roster)
                                      THEN Rewrap(j.store[n], j.roster) ELSE j.store[n]]
    BY <1>7 DEF NewStore, Rewrapped
  <2>2. \A n \in OutOfStep(j.store, j.roster) :
          j.store[n] \in Envelope /\ Rewrap(j.store[n], j.roster) \in Envelope \ {NoEntry}
    BY <1>1, StoreType, RewrapType DEF OutOfStep, Present
  <2> QED BY <1>1, <1>7, <2>1, <2>2, RewrapType
<1> QED BY <1>1, <1>3, <1>4, <1>5, <1>6, <1>7 DEF TypeInv, JobsFit, Fits

-----------------------------------------------------------------------------
(* Steps of one process that leave the tree alone.                         *)

Quiet(p, j) ==
  /\ Update(p, j) /\ UNCHANGED <<tree, deks, history>>
  /\ j \in Job /\ Fits(j) /\ DeksUpTo(deks, j.store)
  /\ j.stale \/ Fresh(j)

LEMMA BlankType ==
  ASSUME NEW c \in Command, NEW ok \in BOOLEAN, NEW step \in {"idle", "start", "done"}
  PROVE  /\ Blank(c, step, ok) \in Job
         /\ Fits(Blank(c, step, ok)) /\ Fresh(Blank(c, step, ok))
         /\ DeksUpTo(deks, Blank(c, step, ok).store)
<1>1. NoStore \in Store
  BY DEF NoStore
<1>2. Blank(c, step, ok) \in Job
  BY <1>1 DEF Blank, Job
<1>3. Blank(c, step, ok).step = step /\ Blank(c, step, ok).store = NoStore
  BY DEF Blank
<1> QED BY <1>2, <1>3 DEF Fits, Fresh, Knows, HoldsStore, DeksUpTo, NoStore

LEMMA IdleType == NoCommand \in Command /\ Idle = Blank(NoCommand, "idle", FALSE)
<1>1. NoCommand \in CommandOn({"encrypt"}, {Secret})
  BY DEF NoCommand, CommandOn
<1> QED BY <1>1 DEF Command, Idle

LEMMA ReadType ==
  ASSUME TypeInv, NEW p \in Proc, NEW step \in {"first", "second"}
  PROVE  LET j == job[p]
             s == ReadStore(j, step)
             r == ReadRoster(j, step)
         IN /\ s \in Job /\ s.store = store /\ s.step = step /\ s.cmd = j.cmd
            /\ s.stale = j.stale /\ s.roster = j.roster
            /\ r \in Job /\ r.store = j.store /\ r.step = step /\ r.cmd = j.cmd
            /\ r.stale = j.stale /\ r.roster = roster
            /\ DeksUpTo(deks, s.store) /\ DeksUpTo(deks, r.store)
<1>1. job[p] \in Job /\ store \in Store /\ roster \in SUBSET Key
  BY DEF TypeInv, CommandsTypeOK
<1>2. DeksUpTo(deks, store) /\ DeksUpTo(deks, job[p].store)
  BY DEF TypeInv, CommandsTypeOK, JobsFit, DeksUpTo
<1> HIDE DEF Store
<1>3. ReadStore(job[p], step) \in Job /\ ReadRoster(job[p], step) \in Job
  BY <1>1 DEF ReadStore, ReadRoster, Job
<1> QED BY <1>1, <1>2, <1>3 DEF ReadStore, ReadRoster, Job

LEMMA DoneIsQuiet ==
  ASSUME TypeInv, NEW p \in Proc, NEW ok \in BOOLEAN, Update(p, Done(job[p], ok)),
         UNCHANGED <<tree, deks, history>>
  PROVE  \E j : Quiet(p, j)
<1>1. job[p].cmd \in Command
  BY JobType
<1>2. Quiet(p, Done(job[p], ok))
  BY <1>1, BlankType DEF Done, Quiet
<1> QED BY <1>2

LEMMA FirstReadIsQuiet ==
  ASSUME TypeInv, NEW p \in Proc, ReadFirst(p)
  PROVE  \E j : Quiet(p, j)
<1> DEFINE j == job[p]
<1>1. j.step = "start" /\ UNCHANGED <<tree, deks, history>>
  BY DEF ReadFirst
<1>2. j.cmd.op \in {"add", "rotate", "rm", "push", "encrypt", "run"}
  BY JobType
<1>3. CASE Update(p, Fail(j))
  BY <1>1, <1>3, DoneIsQuiet DEF Fail
<1>4. ASSUME j.cmd.op = "rotate", Update(p, ReadStore(j, "first")), Found(j)
      PROVE  \E k : Quiet(p, k)
  <2>1. Quiet(p, ReadStore(j, "first"))
    BY <1>1, <1>4, ReadType DEF Quiet, Fits, Fresh, Knows, HoldsStore, Found, Present
  <2> QED BY <2>1
<1>5. ASSUME j.cmd.op = "rm", Update(p, ReadStore(j, "second")), Found(j)
      PROVE  \E k : Quiet(p, k)
  <2>1. Quiet(p, ReadStore(j, "second"))
    BY <1>1, <1>5, ReadType DEF Quiet, Fits, Fresh, Knows, HoldsStore, Found, Present
  <2> QED BY <2>1
<1>6. ASSUME j.cmd.op = "run", Update(p, ReadStore(j, "first"))
      PROVE  \E k : Quiet(p, k)
  <2>1. Quiet(p, ReadStore(j, "first"))
    BY <1>1, <1>6, ReadType DEF Quiet, Fits, Fresh, Knows, HoldsStore
  <2> QED BY <2>1
<1>7. ASSUME j.cmd.op \in {"push", "add"}, Update(p, ReadRoster(j, "first"))
      PROVE  \E k : Quiet(p, k)
  <2>1. Quiet(p, ReadRoster(j, "first"))
    BY <1>1, <1>7, ReadType DEF Quiet, Fits, Fresh, Knows, HoldsStore
  <2> QED BY <2>1
<1>8. ASSUME j.cmd.op = "encrypt", Update(p, ReadRoster(j, "first")), plain
      PROVE  \E k : Quiet(p, k)
  <2>1. Quiet(p, ReadRoster(j, "first"))
    BY <1>1, <1>8, ReadType DEF Quiet, Fits, Fresh, Knows, HoldsStore
  <2> QED BY <2>1
<1> QED
  BY <1>2, <1>3, <1>4, <1>5, <1>6, <1>7, <1>8
     DEF ReadFirst, RotateFirst, RmFirst, RunFirst, PushFirst, AddFirst, EncryptFirst

LEMMA SecondReadIsQuiet ==
  ASSUME TypeInv, JobsFresh, NEW p \in Proc, ReadSecond(p)
  PROVE  \E j : Quiet(p, j)
<1> DEFINE j == job[p]
<1>1. j.step = "first" /\ UNCHANGED <<tree, deks, history>> /\ (j.stale \/ Fresh(j))
      /\ Fits(j)
  BY DEF ReadSecond, JobsFresh, TypeInv, JobsFit
<1>2. j.cmd.op \in {"add", "rotate", "rm", "push", "encrypt", "run"}
  BY JobType
<1>3. ASSUME NEW ok \in BOOLEAN, Update(p, Done(j, ok))
      PROVE  \E k : Quiet(p, k)
  BY <1>1, <1>3, DoneIsQuiet
<1>4. ASSUME j.cmd.op = "rotate", Update(p, ReadRoster(j, "second"))
      PROVE  \E k : Quiet(p, k)
  <2>1. Quiet(p, ReadRoster(j, "second"))
    BY <1>1, <1>4, ReadType DEF Quiet, Fits, Fresh, Knows, HoldsStore
  <2> QED BY <2>1
<1>5. ASSUME j.cmd.op = "run", Update(p, RunSecond(j)), RunSecond(j) # Fail(j)
      PROVE  \E k : Quiet(p, k)
  <2> DEFINE names == SelectEnvEntries(j.store, j.cmd)
             k == [[j EXCEPT !.step = "child"] EXCEPT !.env = Injected(j.store, names)]
  <2>1. RunSecond(j) = k
    BY <1>5 DEF RunSecond
  <2>2. j \in Job /\ j.store \in Store /\ DeksUpTo(deks, j.store)
    BY JobType DEF TypeInv, JobsFit
  <2>3. names \subseteq Name /\ \A n \in names : j.store[n] # NoEntry
    BY DEF SelectEnvEntries, Present
  <2>4. Injected(j.store, names) \in SUBSET (Name \X Value)
    BY <2>2, <2>3, StoreType DEF Injected
  <2>5. /\ k \in Job /\ k.step = "child" /\ k.cmd = j.cmd /\ k.store = j.store
        /\ k.stale = j.stale
    BY <2>2, <2>4 DEF Job
  <2>6. Quiet(p, k)
    BY <1>1, <1>5, <2>1, <2>2, <2>5 DEF Quiet, Fits, Fresh, Knows, HoldsStore
  <2> QED BY <2>6
<1>6. ASSUME j.cmd.op \in {"add", "encrypt"}, Update(p, ReadStore(j, "second"))
      PROVE  \E k : Quiet(p, k)
  <2>1. Quiet(p, ReadStore(j, "second"))
    BY <1>1, <1>6, ReadType DEF Quiet, Fits, Fresh, Knows, HoldsStore
  <2> QED BY <2>1
<1>7. ASSUME j.cmd.op = "push", OwnKey,
             Update(p, [ReadStore(j, "second") EXCEPT !.stale = j.stale \/ j.roster # roster])
      PROVE  \E k : Quiet(p, k)
  <2> DEFINE s == ReadStore(j, "second")
             k == [s EXCEPT !.stale = j.stale \/ j.roster # roster]
  <2>1. /\ s \in Job /\ s.store = store /\ s.step = "second" /\ s.cmd = j.cmd
        /\ s.stale = j.stale /\ s.roster = j.roster /\ DeksUpTo(deks, store)
    BY ReadType
  <2>2. /\ k \in Job /\ k.store = store /\ k.step = "second" /\ k.cmd = j.cmd
        /\ k.roster = j.roster
    BY <2>1 DEF Job
  <2>3. k.stale \/ j.roster = roster
    BY <2>1 DEF Job
  <2>4. Fits(k) /\ (k.stale \/ Fresh(k))
    BY <1>7, <2>2, <2>3 DEF Fits, Fresh, Knows, HoldsStore, OwnKey
  <2>5. Quiet(p, k)
    BY <1>1, <1>7, <2>1, <2>2, <2>4 DEF Quiet
  <2> QED BY <2>5
<1>8. CASE j.cmd.op = "rotate"
  BY <1>3, <1>4, <1>8 DEF ReadSecond, RotateSecond, Fail
<1>9. CASE j.cmd.op = "run"
  BY <1>3, <1>5, <1>9 DEF ReadSecond, Fail
<1>10. CASE j.cmd.op = "push"
  BY <1>3, <1>7, <1>10 DEF ReadSecond, PushSecond, Fail
<1>11. CASE j.cmd.op \in {"add", "encrypt"}
  BY <1>6, <1>11 DEF ReadSecond, SealSecond
<1>12. j.cmd.op # "rm"
  BY <1>1 DEF Fits
<1> QED BY <1>2, <1>8, <1>9, <1>10, <1>11, <1>12

-----------------------------------------------------------------------------
(* What the steps come to.                                                 *)

OtherSteps ==
  \/ UNCHANGED commandVars
  \/ \E p \in Proc : \E j : Quiet(p, j)
  \/ \E k \in Key : SetRoster(k)
  \/ \E p \in Proc : RemovePlaintext(p)

WireOK == sent \in Seq(Line) /\ taken \in 0..Len(sent)

LEMMA CommandSteps ==
  ASSUME TypeInv, JobsFresh, NEW p \in Proc, CommandStep(p)
  PROVE  OtherSteps \/ \E q \in Proc : Save(q)
<1>1. CASE ReadFirst(p) \/ ReadSecond(p)
  BY <1>1, FirstReadIsQuiet, SecondReadIsQuiet DEF OtherSteps
<1>2. CASE SaveFails(p) \/ RemoveFails(p) \/ ChildEnds(p)
  BY <1>2, DoneIsQuiet DEF SaveFails, RemoveFails, ChildEnds, OtherSteps
<1> QED BY <1>1, <1>2 DEF CommandStep, OtherSteps

LEMMA BeginIsQuiet ==
  ASSUME NEW p \in Proc, NEW c \in Command, Begin(p, c)
  PROVE  \E j : Quiet(p, j)
<1>1. Quiet(p, Blank(c, "start", FALSE))
  BY BlankType DEF Begin, Quiet
<1> QED BY <1>1

LEMMA Steps ==
  ASSUME TypeInv, JobsFresh, WireOK, [Next]_vars
  PROVE  OtherSteps \/ \E p \in Proc : Save(p)
<1>1. CASE UNCHANGED commandVars
  BY <1>1 DEF OtherSteps
<1>2. CASE CommandStep(mcp) \/ CommandStep(term)
  BY <1>2, CommandSteps
<1>3. CASE Dispatch
  <2>1. taken' \in 1..Len(sent) /\ sent[taken'].kind \in {"request", "notification"}
    BY <1>3 DEF WireOK, Dispatch, Scan
  <2>2. sent[taken'] \in Line
    BY <2>1 DEF WireOK
  <2>3. sent[taken'].cmd \in Command /\ Begin(mcp, sent[taken'].cmd)
    BY <1>3, <2>1, <2>2 DEF Dispatch
  <2> QED BY <2>3, BeginIsQuiet DEF OtherSteps
<1>4. CASE Respond
  <2>1. Quiet(mcp, Idle)
    BY <1>4, BlankType, IdleType DEF Respond, Quiet
  <2> QED BY <2>1 DEF OtherSteps
<1>5. ASSUME NEW c \in Typed, Type(c)
      PROVE  OtherSteps
  BY <1>5, BeginIsQuiet DEF Type, OtherSteps
<1>6. ASSUME NEW k \in Key, ChangeRecipients(k)
      PROVE  OtherSteps
  BY <1>6 DEF ChangeRecipients, OtherSteps
<1>7. CASE Skip \/ GiveUp \/ Refuse \/ HandleAtOnce \/ \E l \in Line : Send(l)
  <2>1. UNCHANGED commandVars
    BY <1>7 DEF Skip, GiveUp, Refuse, HandleAtOnce, Send
  <2> QED BY <1>1, <2>1
<1> QED BY <1>1, <1>2, <1>3, <1>4, <1>5, <1>6, <1>7 DEF Next, Serve, Terminal, vars

-----------------------------------------------------------------------------
(* The types, and what an up-to-date command knows, are kept.              *)

LEMMA AheadJobs ==
  ASSUME TypeInv, NEW p \in Proc, NEW j \in Job, Ahead(p, j)
  PROVE  /\ job' \in [Proc -> Job] /\ job'[p] = j
         /\ \A q \in Proc \ {p} :
              /\ job'[q].cmd = job[q].cmd /\ job'[q].step = job[q].step
              /\ job'[q].store = job[q].store
              /\ HasReadTree(job[q]) => job'[q].stale
<1> DEFINE Late(q) == HasReadTree(job[q])
           moved(q) == [job[q] EXCEPT !.stale = Late(q)]
<1>1. job \in [Proc -> Job]
  BY DEF TypeInv, CommandsTypeOK
<1>2. job' = [q \in Proc |-> IF q = p THEN j ELSE moved(q)]
  BY DEF Ahead
<1> HIDE DEF Store
<1>3. ASSUME NEW q \in Proc
      PROVE  /\ moved(q) \in Job
             /\ moved(q).cmd = job[q].cmd /\ moved(q).step = job[q].step
             /\ moved(q).store = job[q].store /\ (Late(q) => moved(q).stale)
  <2>1. job[q] \in Job
    BY <1>1
  <2>2. \A b \in BOOLEAN :
          LET m == [job[q] EXCEPT !.stale = b]
          IN /\ m \in Job /\ m.cmd = job[q].cmd /\ m.step = job[q].step
             /\ m.store = job[q].store /\ m.stale = b
    BY <2>1 DEF Job
  <2>3. Late(q) \in BOOLEAN
    BY DEF HasReadTree
  <2> QED BY <2>2, <2>3
<1> HIDE DEF moved
<1> QED BY <1>2, <1>3

LEMMA OthersKeep ==
  ASSUME TypeInv, NEW p \in Proc, NEW j \in Job, Ahead(p, j),
         Fits(j), DeksUpTo(deks', j.store),
         j.stale \/ Knows(j, store', plain'), deks \in Nat, deks' \in Nat,
         deks <= deks'
  PROVE  job' \in [Proc -> Job] /\ JobsFit' /\ JobsFresh'
<1>1. ASSUME NEW q \in Proc \ {p}
      PROVE  /\ Fits(job'[q]) /\ DeksUpTo(deks', job'[q].store)
             /\ job'[q].stale \/ Knows(job'[q], store', plain')
  <2>1. Fits(job'[q])
    BY <1>1, AheadJobs DEF Fits, HoldsStore, TypeInv, JobsFit
  <2>2. DeksUpTo(deks', job'[q].store)
    <3>1. job'[q].store = job[q].store /\ DeksUpTo(deks, job[q].store) /\ job[q].store \in Store
      BY <1>1, AheadJobs, JobType DEF TypeInv, JobsFit
    <3>2. \A n \in Name : job[q].store[n] # NoEntry => job[q].store[n].dek \in Nat
      BY <3>1, StoreType
    <3> QED BY <3>1, <3>2 DEF DeksUpTo
  <2>3. job'[q].stale \/ Knows(job'[q], store', plain')
    <3>1. CASE HasReadTree(job[q])
      BY <1>1, <3>1, AheadJobs
    <3>2. CASE ~HasReadTree(job[q])
      BY <1>1, <3>2, AheadJobs DEF Knows, HoldsStore, HasReadTree
    <3> QED BY <3>1, <3>2
  <2> QED BY <2>1, <2>2, <2>3
<1>2. job'[p] = j /\ job' \in [Proc -> Job]
  BY AheadJobs
<1> QED BY <1>1, <1>2 DEF JobsFit, JobsFresh, Fresh

LEMMA QuietKeeps ==
  ASSUME TypeInv, JobsFresh, NEW p \in Proc, NEW j, Quiet(p, j)
  PROVE  TypeInv' /\ JobsFresh'
<1>1. job' = [job EXCEPT ![p] = j] /\ UNCHANGED <<tree, deks, history>> /\ j \in Job
  BY DEF Quiet, Update
<1>2. job \in [Proc -> Job]
  BY DEF TypeInv, CommandsTypeOK
<1>3. job' \in [Proc -> Job] /\ job'[p] = j /\ \A q \in Proc \ {p} : job'[q] = job[q]
  BY <1>1, <1>2
<1>4. CommandsTypeOK'
  BY <1>1, <1>3 DEF TypeInv, CommandsTypeOK, tree, history
<1>5. JobsFit'
  <2>1. \A q \in Proc : Fits(job'[q]) /\ DeksUpTo(deks, job'[q].store)
    BY <1>3 DEF TypeInv, JobsFit, Quiet
  <2> QED BY <1>1, <2>1 DEF JobsFit, DeksUpTo
<1>6. JobsFresh'
  <2>1. \A q \in Proc : job'[q].stale \/ Fresh(job'[q])
    BY <1>3 DEF JobsFresh, Quiet
  <2> QED BY <1>1, <2>1 DEF JobsFresh, Fresh, Knows, tree
<1> QED BY <1>4, <1>5, <1>6 DEF TypeInv

LEMMA SetRosterKeeps ==
  ASSUME TypeInv, JobsFresh, NEW k \in Key, SetRoster(k)
  PROVE  TypeInv' /\ JobsFresh'
<1>1. roster' \in SUBSET Key /\ UNCHANGED <<store, plain, job, deks, history>>
  BY DEF SetRoster, TypeInv, CommandsTypeOK
<1> QED
  BY <1>1 DEF TypeInv, CommandsTypeOK, JobsFit, Fits, DeksUpTo, JobsFresh, Fresh, Knows, history

LEMMA RemovePlaintextKeeps ==
  ASSUME TypeInv, JobsFresh, NEW p \in Proc, RemovePlaintext(p)
  PROVE  TypeInv' /\ JobsFresh'
<1>1. /\ UNCHANGED <<store, roster, deks, known, meant, barred>> /\ plain' = FALSE
      /\ overlapped' \in BOOLEAN /\ Ahead(p, Done(job[p], TRUE))
  BY DEF RemovePlaintext, TypeInv, CommandsTypeOK, Job
<1> DEFINE d == Done(job[p], TRUE)
<1>2. d \in Job /\ Fits(d) /\ DeksUpTo(deks, d.store) /\ d.step = "done"
  <2>1. job[p].cmd \in Command
    BY JobType
  <2> QED BY <2>1, BlankType DEF Done, Blank
<1>3. Knows(d, store', plain')
  BY <1>2 DEF Knows, HoldsStore
<1>0. deks \in Nat
  BY DEF TypeInv, CommandsTypeOK
<1>5. DeksUpTo(deks', d.store) /\ deks' \in Nat /\ deks <= deks' /\ Ahead(p, d)
  <2>1. deks' = deks
    BY <1>1
  <2>2. DeksUpTo(deks', d.store)
    BY <1>2, <2>1
  <2>3. Ahead(p, d)
    BY <1>1
  <2>4. deks' \in Nat /\ deks <= deks'
    BY <1>0, <2>1
  <2> QED BY <2>2, <2>3, <2>4
<1> HIDE DEF d
<1>4. job' \in [Proc -> Job] /\ JobsFit' /\ JobsFresh'
  BY <1>0, <1>2, <1>3, <1>5, OthersKeep
<1> QED BY <1>1, <1>4 DEF TypeInv, CommandsTypeOK

LEMMA SaveKeeps ==
  ASSUME TypeInv, JobsFresh, NEW p \in Proc, Save(p)
  PROVE  TypeInv' /\ JobsFresh'
<1> DEFINE j == job[p]
           seals == Seals(j.cmd)
           k == IF j.cmd.op = "encrypt" THEN [j EXCEPT !.step = "saved"] ELSE Done(j, TRUE)
<1>1. /\ j.step = "second" /\ (seals => deks < MaxSeals) /\ store' = NewStore(j)
      /\ deks' = IF seals THEN deks + 1 ELSE deks
      /\ Ahead(p, k) /\ UNCHANGED <<roster, plain>>
  BY DEF Save
<1>2. /\ j \in Job /\ j.cmd \in Command /\ j.store \in Store /\ j.roster \in SUBSET Key
      /\ j.cmd.op \in {"add", "rotate", "rm", "push", "encrypt", "run"}
      /\ j.cmd.name \in Name /\ j.cmd.value \in Value
      /\ DeksUpTo(deks, j.store)
  BY JobType DEF TypeInv, JobsFit
<1>3. deks \in 0..MaxSeals /\ MaxSeals \in Nat /\ roster \subseteq Key /\ plain \in BOOLEAN
  BY DEF TypeInv, CommandsTypeOK
<1>4. deks' \in 0..MaxSeals /\ deks <= deks' /\ (seals => deks' = deks + 1)
  BY <1>1, <1>3
<1>5. store' \in Store
  BY <1>1, SavedStore
<1>6. \A n \in Name : store'[n] # NoEntry => store'[n].dek <= deks' /\ store'[n].dek \in 1..deks'
  <2> SUFFICES ASSUME NEW n \in Name, store'[n] # NoEntry
               PROVE  store'[n].dek <= deks' /\ store'[n].dek \in 1..deks'
    OBVIOUS
  <2>1. \/ seals /\ store'[n].dek = deks + 1
        \/ store'[n].dek = j.store[n].dek /\ j.store[n] # NoEntry
    BY <1>1, SavedStore DEF OutOfStep, Present
  <2>2. CASE seals /\ store'[n].dek = deks + 1
    BY <1>3, <1>4, <2>2
  <2>3. CASE store'[n].dek = j.store[n].dek /\ j.store[n] # NoEntry
    <3>1. j.store[n].dek \in 1..MaxSeals /\ j.store[n].dek <= deks
      BY <1>2, <2>3, StoreType DEF DeksUpTo
    <3> QED BY <1>3, <1>4, <2>3, <3>1
  <2> QED BY <2>1, <2>2, <2>3
<1>7. known' \in [Key -> SUBSET (1..deks')]
  <2>1. known \in [Key -> SUBSET (1..deks)]
    BY DEF TypeInv, CommandsTypeOK
  <2>2. \A x \in Key : known[x] \subseteq 1..deks'
    BY <1>3, <1>4, <2>1
  <2>3. \A x \in Key : {store'[n].dek : n \in {m \in Present(store') : x \in store'[m].wraps}}
                       \subseteq 1..deks'
    BY <1>6 DEF Present
  <2>4. known' = [x \in Key |->
                    known[x] \cup {store'[n].dek : n \in {m \in Present(store') :
                                                            x \in store'[m].wraps}}]
    BY DEF Save
  <2> QED BY <2>2, <2>3, <2>4
<1>8. meant' \in [Name -> Value \cup {NoEntry}]
  <2>1. meant \in [Name -> Value \cup {NoEntry}] /\ meant' = Meant(j.cmd)
    BY DEF Save, TypeInv, CommandsTypeOK
  <2> QED BY <1>2, <2>1 DEF Meant, Name
<1>9. barred' \in [Name -> SUBSET Key]
  <2>1. barred \in [Name -> SUBSET Key] /\ barred' = Barred(j)
    BY DEF Save, TypeInv, CommandsTypeOK
  <2> QED BY <1>2, <2>1 DEF Barred
<1>10. overlapped' \in BOOLEAN
  BY DEF Save, TypeInv, CommandsTypeOK, Job
<1>11. k \in Job /\ Fits(k) /\ DeksUpTo(deks', k.store) /\ Knows(k, store', plain')
  <2>1. CASE j.cmd.op = "encrypt"
    <3>1. k = [j EXCEPT !.step = "saved"]
      BY <2>1
    <3>2. /\ k \in Job /\ k.step = "saved" /\ k.cmd = j.cmd /\ k.store = j.store
          /\ k.roster = j.roster
      BY <1>2, <3>1 DEF Job
    <3>3. j.cmd.name = Secret /\ Seals(j.cmd)
      BY <2>1, JobType DEF Seals
    <3>4. /\ store'[Secret] # NoEntry /\ store'[Secret].value = Content
          /\ store'[Secret].wraps = j.roster
      BY <1>1, <2>1, <3>3, SavedStore DEF Name
    <3>5. DeksUpTo(deks', j.store)
      <4>1. \A n \in Name : j.store[n] # NoEntry => j.store[n].dek \in Nat
        BY <1>2, StoreType
      <4> QED BY <1>2, <1>3, <1>4, <4>1 DEF DeksUpTo
    <3> HIDE DEF k
    <3> QED BY <2>1, <3>2, <3>4, <3>5 DEF Fits, Knows, HoldsStore
  <2>2. CASE j.cmd.op # "encrypt"
    <3>1. k = Blank(j.cmd, "done", TRUE)
      BY <2>2 DEF Done
    <3> HIDE DEF k
    <3>2. k.step = "done" /\ k.store = NoStore
      BY <3>1 DEF Blank
    <3>3. k \in Job /\ Fits(k)
      BY <1>2, <3>1, BlankType
    <3> QED BY <3>2, <3>3 DEF Knows, HoldsStore, DeksUpTo, NoStore
  <2> QED BY <2>1, <2>2
<1>12. deks \in Nat /\ deks' \in Nat
  BY <1>3, <1>4
<1> HIDE DEF k, j, seals
<1>13. job' \in [Proc -> Job] /\ JobsFit' /\ JobsFresh'
  BY <1>1, <1>4, <1>11, <1>12, OthersKeep
<1> QED
  BY <1>1, <1>3, <1>4, <1>5, <1>6, <1>7, <1>8, <1>9, <1>10, <1>13 DEF TypeInv, CommandsTypeOK

-----------------------------------------------------------------------------
(* The wire.                                                               *)

Wire ==
  /\ sent \in Seq(Line) /\ Len(sent) <= MaxSent
  /\ taken \in 0..Len(sent)
  /\ out \in Seq(Answer)
  /\ up \in BOOLEAN
  /\ typed \in 0..MaxTyped
  /\ job[mcp].step # "idle" =>
       up /\ taken > 0 /\ sent[taken].kind \in {"request", "notification"}

Inv == TypeInv /\ JobsFresh /\ Wire

LEMMA InitInv == Init => Inv
<1> SUFFICES ASSUME Init PROVE Inv
  OBVIOUS
<1>1. /\ roster \in SUBSET Key /\ store = [NoStore EXCEPT ![first] = Seal(Content, roster, 1)]
      /\ plain = TRUE /\ job = [p \in Proc |-> Idle] /\ deks = 1
      /\ known = [k \in Key |-> IF k \in roster THEN {1} ELSE {}]
      /\ meant = [NoStore EXCEPT ![first] = Content]
      /\ barred = [n \in Name |-> Key \ roster] /\ overlapped = FALSE
      /\ first \in Name
  BY DEF Init, CommandsInit, Name
<1>2. Seal(Content, roster, 1) \in Envelope /\ Seal(Content, roster, 1).dek = 1
  BY <1>1, SealType
<1>3. /\ store \in Store /\ meant \in [Name -> Value \cup {NoEntry}]
      /\ \A n \in Name : store[n] # NoEntry => store[n].dek <= deks
  BY <1>1, <1>2 DEF NoStore
<1>4. Idle \in Job /\ Fits(Idle) /\ Fresh(Idle) /\ DeksUpTo(deks, Idle.store)
      /\ Idle.step = "idle"
  <2>1. Idle = Blank(NoCommand, "idle", FALSE) /\ NoCommand \in Command
    BY IdleType
  <2> QED BY <2>1, BlankType DEF Blank
<1>5. CommandsTypeOK
  <2>1. roster \subseteq Key /\ plain \in BOOLEAN /\ overlapped \in BOOLEAN
    BY <1>1
  <2>5. deks \in 0..MaxSeals
    <3>1. deks = 1 /\ MaxSeals \in Nat \ {0}
      BY <1>1
    <3> QED BY <3>1
  <2>2. known \in [Key -> SUBSET (1..deks)]
    BY <1>1
  <2>3. job \in [Proc -> Job]
    BY <1>1, <1>4
  <2>4. barred \in [Name -> SUBSET Key]
    BY <1>1
  <2> QED BY <1>3, <2>1, <2>2, <2>3, <2>4, <2>5 DEF CommandsTypeOK
<1>6. JobsFit /\ JobsFresh
  BY <1>1, <1>4 DEF JobsFit, JobsFresh
<1>7. Wire
  BY <1>1, <1>4 DEF Init, Wire, Answer
<1> QED BY <1>5, <1>6, <1>7 DEF Inv, TypeInv

LEMMA NextCommands ==
  ASSUME Inv, [Next]_vars
  PROVE  OtherSteps \/ \E p \in Proc : Save(p)
BY Steps DEF Inv, Wire, WireOK

LEMMA NextTypeInv ==
  ASSUME Inv, [Next]_vars
  PROVE  TypeInv' /\ JobsFresh'
<1>0. TypeInv /\ JobsFresh
  BY DEF Inv
<1>1. ASSUME UNCHANGED commandVars
      PROVE  TypeInv' /\ JobsFresh'
  <2>1. /\ store' = store /\ roster' = roster /\ plain' = plain /\ job' = job /\ deks' = deks
        /\ known' = known /\ meant' = meant /\ barred' = barred /\ overlapped' = overlapped
    BY <1>1 DEF commandVars, tree, history
  <2>2. CommandsTypeOK' /\ JobsFit'
    BY <1>0, <2>1 DEF TypeInv, CommandsTypeOK, JobsFit
  <2>3. JobsFresh'
    BY <1>0, <2>1 DEF JobsFresh, Fresh
  <2> QED BY <2>2, <2>3 DEF TypeInv
<1>2. ASSUME NEW p \in Proc, Save(p)
      PROVE  TypeInv' /\ JobsFresh'
  BY <1>0, <1>2, SaveKeeps
<1>3. CASE OtherSteps
  BY <1>0, <1>1, <1>3, QuietKeeps, SetRosterKeeps, RemovePlaintextKeeps DEF OtherSteps
<1> QED BY <1>2, <1>3, NextCommands

(* The server's job is idle exactly between two lines.                     *)
LEMMA McpJob ==
  ASSUME Inv
  PROVE  /\ (\E c \in Command : Begin(term, c)) \/ CommandStep(term)
              => (job'[mcp].step = "idle" <=> job[mcp].step = "idle")
         /\ CommandStep(mcp) => job[mcp].step # "idle"
<1>1. job \in [Proc -> Job] /\ mcp \in Proc /\ term \in Proc /\ mcp # term
  BY DEF Inv, TypeInv, CommandsTypeOK
<1>2. ASSUME NEW j, Update(term, j)
      PROVE  job'[mcp] = job[mcp]
  BY <1>1, <1>2 DEF Update
<1>3. ASSUME NEW j, Ahead(term, j)
      PROVE  job'[mcp].step = job[mcp].step
  BY <1>1, <1>3 DEF Ahead, Job
<1>4. CommandStep(term) => job'[mcp].step = job[mcp].step
  BY <1>2, <1>3 DEF CommandStep, ReadFirst, ReadSecond, Save, SaveFails, RemovePlaintext,
     RemoveFails, ChildEnds
<1>5. \A c \in Command : Begin(term, c) => job'[mcp].step = job[mcp].step
  BY <1>2 DEF Begin
<1>6. CommandStep(mcp) => job[mcp].step # "idle"
  BY DEF CommandStep, ReadFirst, ReadSecond, Save, SaveFails, RemovePlaintext, RemoveFails,
     ChildEnds
<1> QED BY <1>4, <1>5, <1>6

LEMMA NextWire ==
  ASSUME Inv, [Next]_vars
  PROVE  Wire'
<1>1. /\ sent \in Seq(Line) /\ Len(sent) <= MaxSent /\ taken \in 0..Len(sent)
      /\ out \in Seq(Answer) /\ up \in BOOLEAN /\ typed \in 0..MaxTyped
      /\ job[mcp].step # "idle" =>
           up /\ taken > 0 /\ sent[taken].kind \in {"request", "notification"}
  BY DEF Inv, Wire
<1>2. Len(sent) \in Nat /\ MaxSent \in Nat
  BY <1>1
<1>3. CASE UNCHANGED vars
  BY <1>1, <1>3 DEF vars, commandVars, Wire
<1>4. ASSUME NEW l \in Line, Send(l)
      PROVE  Wire'
  <2>1. sent' = Append(sent, l) /\ UNCHANGED <<taken, out, up, typed, job>> /\ Len(sent) < MaxSent
    BY <1>4 DEF Send, commandVars
  <2>2. \A i \in 1..Len(sent) : sent'[i] = sent[i]
    BY <1>1, <2>1
  <2>3. sent' \in Seq(Line) /\ Len(sent') = Len(sent) + 1 /\ taken \in 0..Len(sent')
    BY <1>1, <2>1
  <2>4. taken > 0 => sent'[taken] = sent[taken]
    BY <1>1, <2>2
  <2> QED BY <1>1, <2>1, <2>3, <2>4 DEF Wire
<1>5. ASSUME NEW kinds, Scan(kinds)
      PROVE  /\ job[mcp].step = "idle" /\ up /\ taken' \in 1..Len(sent) /\ sent' = sent
             /\ sent[taken'].kind \in kinds /\ typed' = typed
  BY <1>1, <1>5 DEF Scan
<1>6. CASE Skip \/ GiveUp
  <2>1. job' = job /\ out' = out /\ up' \in BOOLEAN
    BY <1>1, <1>6 DEF Skip, GiveUp, commandVars
  <2>2. job[mcp].step = "idle" /\ taken' \in 0..Len(sent) /\ sent' = sent /\ typed' = typed
    BY <1>2, <1>5, <1>6 DEF Skip, GiveUp
  <2> QED BY <1>1, <2>1, <2>2 DEF Wire
<1>7. ASSUME NEW i \in 1..Len(sent), NEW r \in {"result", "tool error", "rpc error"},
             WriteResponse(i, r)
      PROVE  out' \in Seq(Answer)
  <2>1. Len(sent) <= MaxSent
    BY <1>1
  <2>2. i \in 0..MaxSent
    BY <1>2, <1>7, <2>1, IntervalBound
  <2>3. [id |-> i, result |-> r] \in Answer
    BY <1>7, <2>2 DEF Answer
  <2>4. Append(out, [id |-> i, result |-> r]) \in Seq(Answer)
    <3>1. out \in Seq(Answer)
      BY <1>1
    <3> HIDE DEF Answer
    <3> QED BY <2>3, <3>1, AppendProperties
  <2> QED BY <1>1, <1>7, <2>4 DEF WriteResponse
<1>8. CASE Refuse
  <2>1. [id |-> 0, result |-> "rpc error"] \in Answer
    BY <1>2 DEF Answer
  <2>2. Append(out, [id |-> 0, result |-> "rpc error"]) \in Seq(Answer)
    <3>1. out \in Seq(Answer)
      BY <1>1
    <3> QED BY <2>1, <3>1, AppendProperties
  <2>3. out' \in Seq(Answer) /\ job' = job /\ up' = up
    BY <1>8, <2>2 DEF Refuse, commandVars
  <2>4. job[mcp].step = "idle" /\ taken' \in 0..Len(sent) /\ sent' = sent /\ typed' = typed
    <3>1. Scan({"garbage"})
      BY <1>8 DEF Refuse
    <3> QED BY <1>2, <1>5, <3>1
  <2> QED BY <1>1, <2>3, <2>4 DEF Wire
<1>9. CASE HandleAtOnce
  <2>1. out' \in Seq(Answer)
    BY <1>5, <1>7, <1>9 DEF HandleAtOnce
  <2>2. job' = job /\ up' = up
    BY <1>9 DEF HandleAtOnce, commandVars
  <2>3. job[mcp].step = "idle" /\ taken' \in 0..Len(sent) /\ sent' = sent /\ typed' = typed
    <3>1. Scan({"request", "notification"})
      BY <1>9 DEF HandleAtOnce
    <3> QED BY <1>2, <1>5, <3>1
  <2> QED BY <1>1, <2>1, <2>2, <2>3 DEF Wire
<1>10. CASE Dispatch
  BY <1>1, <1>5, <1>10 DEF Dispatch, Wire
<1>11. CASE Respond
  <2>1. /\ job[mcp].step = "done" /\ UNCHANGED <<sent, taken, up, typed>> /\ Update(mcp, Idle)
        /\ \E r \in {"result", "tool error", "rpc error"} : WriteResponse(taken, r)
    BY <1>11 DEF Respond
  <2>2. taken \in 1..Len(sent)
    <3>1. taken \in 0..Len(sent) /\ taken > 0
      BY <1>1, <2>1
    <3> QED BY <1>2, <3>1
  <2>3. out' \in Seq(Answer)
    BY <1>7, <2>1, <2>2
  <2> QED BY <1>1, <2>1, <2>3 DEF Wire
<1>12. CASE CommandStep(mcp) /\ UNCHANGED <<wire, typed>>
  BY <1>1, <1>12, McpJob DEF wire, Wire
<1>13. CASE CommandStep(term) /\ UNCHANGED <<wire, typed>>
  BY <1>1, <1>13, McpJob DEF wire, Wire
<1>14. ASSUME NEW c \in Typed, Type(c)
      PROVE  Wire'
  <2>1. c \in Command /\ Begin(term, c) /\ UNCHANGED <<sent, taken, out, up>>
        /\ typed' = typed + 1 /\ typed < MaxTyped
    BY <1>14 DEF Type, AtPrompt, wire
  <2> QED BY <1>1, <2>1, McpJob DEF Wire
<1>15. ASSUME NEW k \in Key, ChangeRecipients(k)
      PROVE  Wire'
  BY <1>1, <1>15 DEF ChangeRecipients, AtPrompt, SetRoster, wire, Wire
<1> QED
  BY <1>3, <1>4, <1>6, <1>8, <1>9, <1>10, <1>11, <1>12, <1>13, <1>14, <1>15
     DEF Next, Serve, Terminal

LEMMA SpecInv == Spec => []Inv
<1>1. Inv /\ [Next]_vars => Inv'
  BY NextTypeInv, NextWire DEF Inv
<1> QED BY InitInv, <1>1, PTL DEF Spec

(* The types of the tree, the commands and the wire, and an answer is only *)
(* being worked on while the server is up and has taken its request.       *)
THEOREM TypeCorrect == Spec => []TypeOK
<1>1. Inv => TypeOK
  BY DEF Inv, TypeInv, Wire, TypeOK
<1> QED BY SpecInv, <1>1, PTL

-----------------------------------------------------------------------------
(* As long as no stale command has changed the tree, a save starts from    *)
(* the store as it is, and the other steps leave store and history.        *)

LEMMA OtherStepsLeave ==
  ASSUME OtherSteps
  PROVE  /\ store' = store /\ known' = known /\ meant' = meant /\ barred' = barred
         /\ deks' = deks
         /\ ~overlapped' => ~overlapped
         /\ plain' = plain \/ \E p \in Proc : RemovePlaintext(p)
<1>1. ASSUME NEW p \in Proc, RemovePlaintext(p)
      PROVE  /\ store' = store /\ known' = known /\ meant' = meant /\ barred' = barred
             /\ deks' = deks /\ (~overlapped' => ~overlapped)
  BY <1>1 DEF RemovePlaintext
<1>2. CASE \/ UNCHANGED commandVars
           \/ \E p \in Proc : \E j : Quiet(p, j)
           \/ \E k \in Key : SetRoster(k)
  BY <1>2 DEF commandVars, Quiet, SetRoster, tree, history
<1> QED BY <1>1, <1>2 DEF OtherSteps

SavedEntry(j, n) ==
  \/ /\ Seals(j.cmd) /\ n = j.cmd.name
     /\ store'[n] # NoEntry /\ store'[n].dek = deks + 1 /\ store'[n].wraps = j.roster
     /\ store'[n].value = CASE j.cmd.op = "add" -> j.cmd.value
                            [] j.cmd.op = "encrypt" -> Content
                            [] j.cmd.op = "rotate" -> store[n].value
  \/ j.cmd.op = "rm" /\ n = j.cmd.name /\ store'[n] = NoEntry
  \/ /\ j.cmd.op = "push" /\ n \in OutOfStep(store, j.roster)
     /\ store'[n] # NoEntry /\ store'[n].dek = store[n].dek /\ store'[n].wraps = j.roster
     /\ store'[n].value = store[n].value
  \/ /\ j.cmd.op = "push" \/ n # j.cmd.name
     /\ ~(j.cmd.op = "push" /\ n \in OutOfStep(store, j.roster))
     /\ store'[n] = store[n]

LEMMA FreshSave ==
  ASSUME Inv, NEW p \in Proc, Save(p), ~overlapped'
  PROVE  /\ ~overlapped /\ ~job[p].stale /\ Knows(job[p], store, plain)
         /\ \A n \in Name : SavedEntry(job[p], n)
<1>1. ~overlapped /\ ~job[p].stale
  BY DEF Save
<1>2. Knows(job[p], store, plain) /\ job[p].step = "second"
  BY <1>1 DEF Inv, JobsFresh, Fresh, Save
<1>3. job[p].store = store
  BY <1>2 DEF Knows, HoldsStore
<1>4. TypeInv /\ (Seals(job[p].cmd) => deks < MaxSeals) /\ store' = NewStore(job[p])
  BY DEF Inv, Save
<1>5. \A n \in Name : SavedEntry(job[p], n)
  <2> SUFFICES ASSUME NEW n \in Name PROVE SavedEntry(job[p], n)
    OBVIOUS
  <2> DEFINE j == job[p]
             e == NewStore(j)[n]
  <2>1. \/ /\ Seals(j.cmd) /\ n = j.cmd.name
           /\ e # NoEntry /\ e.dek = deks + 1 /\ e.wraps = j.roster
           /\ e.value = CASE j.cmd.op = "add" -> j.cmd.value
                          [] j.cmd.op = "encrypt" -> Content
                          [] j.cmd.op = "rotate" -> j.store[n].value
        \/ j.cmd.op = "rm" /\ n = j.cmd.name /\ e = NoEntry
        \/ /\ j.cmd.op = "push" /\ n \in OutOfStep(j.store, j.roster)
           /\ e # NoEntry /\ e.dek = j.store[n].dek /\ e.wraps = j.roster
           /\ e.value = j.store[n].value
        \/ /\ j.cmd.op = "push" \/ n # j.cmd.name
           /\ ~(j.cmd.op = "push" /\ n \in OutOfStep(j.store, j.roster))
           /\ e = j.store[n]
    BY <1>2, <1>4, SavedStore
  <2>2. e = store'[n] /\ j.store = store
    BY <1>3, <1>4
  <2> HIDE DEF e, j
  <2>3. SavedEntry(j, n)
    BY <2>1, <2>2 DEF SavedEntry
  <2> QED BY <2>3 DEF j
<1> QED BY <1>1, <1>2, <1>5

(* Unless two commands overlapped, every secret has the value last given   *)
(* to it, by add.go and protect.go, through every rotation and push.       *)
THEOREM ValuesAreKept == Spec => []ValuesKept
<1>1. Init => ValuesKept
  <2> SUFFICES ASSUME Init, NEW n \in Name
               PROVE  meant[n] = IF store[n] = NoEntry THEN NoEntry ELSE store[n].value
    BY DEF ValuesKept
  <2>1. /\ store = [NoStore EXCEPT ![first] = Seal(Content, roster, 1)]
        /\ meant = [NoStore EXCEPT ![first] = Content]
        /\ Seal(Content, roster, 1) # NoEntry /\ Seal(Content, roster, 1).value = Content
    BY SealType DEF Init, CommandsInit
  <2> QED BY <2>1 DEF NoStore
<1>2. Inv /\ ValuesKept /\ [Next]_vars => ValuesKept'
  <2> SUFFICES ASSUME Inv, ValuesKept, [Next]_vars, ~overlapped', NEW n \in Name
               PROVE  meant'[n] = IF store'[n] = NoEntry THEN NoEntry ELSE store'[n].value
    BY DEF ValuesKept
  <2>1. CASE OtherSteps
    BY <2>1, OtherStepsLeave DEF ValuesKept
  <2>2. ASSUME NEW p \in Proc, Save(p)
        PROVE  meant'[n] = IF store'[n] = NoEntry THEN NoEntry ELSE store'[n].value
    <3> DEFINE j == job[p]
    <3>1. SavedEntry(j, n) /\ ~overlapped
      BY <2>2, FreshSave
    <3>2. meant' = Meant(j.cmd) /\ meant \in [Name -> Value \cup {NoEntry}]
      BY <2>2 DEF Save, Inv, TypeInv, CommandsTypeOK
    <3>3. meant[n] = IF store[n] = NoEntry THEN NoEntry ELSE store[n].value
      BY <3>1 DEF ValuesKept
    <3>4. /\ j.cmd.op \in {"add", "rotate", "rm", "push", "encrypt", "run"}
          /\ j.cmd.op = "encrypt" => j.cmd.name = Secret
          /\ j.cmd.op = "rotate" => store[j.cmd.name] # NoEntry
          /\ j.cmd.op # "run" /\ j.cmd.name \in Name
      <4>1. j.store = store
        BY <2>2, FreshSave DEF Save, Knows, HoldsStore
      <4> QED BY <2>2, <4>1, JobType DEF Inv, TypeInv, JobsFit, Fits, HoldsStore, Save
    <3> HIDE DEF j
    <3>5. CASE Seals(j.cmd) /\ n = j.cmd.name
      BY <3>1, <3>2, <3>3, <3>4, <3>5 DEF SavedEntry, Meant, Seals
    <3>6. CASE j.cmd.op = "rm" /\ n = j.cmd.name
      BY <3>1, <3>2, <3>3, <3>4, <3>6 DEF SavedEntry, Meant, Seals
    <3>7. CASE j.cmd.op = "push" \/ n # j.cmd.name
      <4>1. meant'[n] = meant[n]
        BY <3>2, <3>4, <3>7 DEF Meant
      <4>2. \/ store'[n] = store[n]
            \/ /\ store[n] # NoEntry /\ store'[n] # NoEntry
               /\ store'[n].value = store[n].value
        BY <3>1, <3>7 DEF SavedEntry, Seals, OutOfStep, Present
      <4> QED BY <3>3, <4>1, <4>2
    <3> QED BY <3>4, <3>5, <3>6, <3>7 DEF Seals
  <2> QED BY <2>1, <2>2, NextCommands
<1> QED BY SpecInv, <1>1, <1>2, PTL DEF Spec

(* Unless two commands overlapped, the file that `protect encrypt` took    *)
(* (protect.go) is on disk, or in the store for this user to open.         *)
THEOREM PlaintextIsKept == Spec => []PlaintextKept
<1> DEFINE Sealed == /\ store[Secret] # NoEntry
                     /\ store[Secret].value = Content
                     /\ RecoverDEK(store[Secret], me)
<1>1. Init => PlaintextKept
  BY DEF Init, CommandsInit, PlaintextKept
<1>2. Inv /\ PlaintextKept /\ [Next]_vars => PlaintextKept'
  <2> SUFFICES ASSUME Inv, PlaintextKept, [Next]_vars, ~overlapped'
               PROVE  plain' \/ Sealed'
    BY DEF PlaintextKept
  <2>1. ASSUME OtherSteps, plain' = plain
        PROVE  plain' \/ Sealed'
    BY <2>1, OtherStepsLeave DEF PlaintextKept, RecoverDEK
  <2>2. ASSUME NEW p \in Proc, RemovePlaintext(p)
        PROVE  plain' \/ Sealed'
    <3>1. job[p].step = "saved" /\ Opens(job[p]) /\ ~job[p].stale /\ store' = store
      BY <2>2 DEF RemovePlaintext
    <3>2. Knows(job[p], store, plain)
      BY <3>1 DEF Inv, JobsFresh, Fresh
    <3> QED BY <3>1, <3>2 DEF Knows, Opens, RecoverDEK
  <2>3. ASSUME NEW p \in Proc, Save(p)
        PROVE  plain' \/ Sealed'
    <3> DEFINE j == job[p]
    <3>1. /\ SavedEntry(j, Secret) /\ ~overlapped /\ Knows(j, store, plain)
          /\ plain' = plain /\ j.step = "second"
      BY <2>3, FreshSave DEF Name, Save
    <3>2. plain \/ Sealed
      BY <3>1 DEF PlaintextKept
    <3>3. /\ j.cmd.op \in {"add", "rotate", "rm", "push", "encrypt", "run"}
          /\ j.cmd.op \in {"add", "rotate", "rm"} => j.cmd.name \in Env
      BY <3>1, JobType DEF Inv, TypeInv, JobsFit, Fits, HoldsStore
    <3> HIDE DEF j
    <3>4. CASE j.cmd.op = "encrypt"
      BY <3>1, <3>4 DEF Knows
    <3>5. CASE j.cmd.op = "push" /\ Secret \in OutOfStep(store, j.roster)
      BY <3>1, <3>2, <3>5 DEF SavedEntry, Seals, Knows, RecoverDEK
    <3>6. CASE /\ j.cmd.op # "encrypt"
               /\ ~(j.cmd.op = "push" /\ Secret \in OutOfStep(store, j.roster))
      <4>1. store'[Secret] = store[Secret]
        BY <3>1, <3>3, <3>6 DEF SavedEntry, Seals
      <4> QED BY <3>1, <3>2, <4>1 DEF RecoverDEK
    <3> QED BY <3>4, <3>5, <3>6
  <2> QED BY <2>1, <2>2, <2>3, NextCommands, OtherStepsLeave
<1> QED BY SpecInv, <1>1, <1>2, PTL DEF Spec

-----------------------------------------------------------------------------
(* Why a rotation revokes: entries do not share data keys, and an entry is *)
(* wrapped for none of those it is barred from.                            *)

DeksDistinct ==
  \A m, n \in Present(store) : store[m].dek = store[n].dek => m = n
WrapsApart ==
  \A n \in Present(store) : barred[n] \cap store[n].wraps = {}
Unknown ==
  \A n \in Present(store) : \A k \in barred[n] : store[n].dek \notin known[k]
Revoked == DeksDistinct /\ WrapsApart /\ Unknown

LEMMA SaveRevokes ==
  ASSUME Inv, Revoked, NEW p \in Proc, Save(p), ~overlapped'
  PROVE  Revoked'
<1> DEFINE j == job[p]
           Sealed(n) == Seals(j.cmd) /\ n = j.cmd.name
           Wrapped(n) == j.cmd.op = "push" /\ n \in OutOfStep(store, j.roster)
<1>1. /\ \A n \in Name : SavedEntry(j, n)
      /\ barred' = Barred(j) /\ j.store = store /\ j.roster \in SUBSET Key
  BY FreshSave, JobType DEF Save, Knows, HoldsStore, Inv
<1>2. /\ deks \in Nat /\ known \in [Key -> SUBSET (1..deks)] /\ barred \in [Name -> SUBSET Key]
      /\ \A n \in Present(store) : store[n].dek \in Nat /\ store[n].dek <= deks
  <2>1. CommandsTypeOK
    BY DEF Inv, TypeInv
  <2>2. store \in Store /\ MaxSeals \in Nat
    BY <2>1 DEF CommandsTypeOK
  <2>3. \A n \in Present(store) : store[n].dek \in Nat
    BY <2>2, StoreType DEF Present
  <2> QED BY <2>1, <2>3 DEF CommandsTypeOK, Present
<1>3. \A n \in Present(store') :
        \/ Sealed(n) /\ store'[n].dek = deks + 1 /\ store'[n].wraps = j.roster
        \/ /\ ~Sealed(n) /\ Wrapped(n) /\ n \in Present(store)
           /\ store'[n].dek = store[n].dek /\ store'[n].wraps = j.roster
        \/ ~Sealed(n) /\ ~Wrapped(n) /\ n \in Present(store) /\ store'[n] = store[n]
  BY <1>1 DEF SavedEntry, Present, Seals, OutOfStep
<1>4. \A n \in Name : barred'[n] = IF Sealed(n) THEN Key \ j.roster
                                   ELSE IF Wrapped(n) THEN barred[n] \ j.roster ELSE barred[n]
  BY <1>1 DEF Barred
<1>5. known' = [k \in Key |->
                  known[k] \cup {store'[n].dek : n \in {m \in Present(store') :
                                                         k \in store'[m].wraps}}]
  BY DEF Save
<1>6. Present(store') \subseteq Name /\ Present(store) \subseteq Name
  BY DEF Present
<1> HIDE DEF j, Sealed, Wrapped
<1>7. DeksDistinct'
  <2> SUFFICES ASSUME NEW m \in Present(store'), NEW n \in Present(store'),
                      store'[m].dek = store'[n].dek
               PROVE  m = n
    BY DEF DeksDistinct
  <2>1. \/ Sealed(n) /\ store'[n].dek = deks + 1
        \/ ~Sealed(n) /\ n \in Present(store) /\ store'[n].dek = store[n].dek
    BY <1>3
  <2>2. \/ Sealed(m) /\ store'[m].dek = deks + 1
        \/ ~Sealed(m) /\ m \in Present(store) /\ store'[m].dek = store[m].dek
    BY <1>3
  <2>3. deks + 1 > deks /\ \A k \in Present(store) : store[k].dek # deks + 1
    BY <1>2
  <2>4. Sealed(m) /\ Sealed(n) => m = n
    BY DEF Sealed
  <2> QED BY <2>1, <2>2, <2>3, <2>4 DEF Revoked, DeksDistinct
<1>8. WrapsApart'
  <2> SUFFICES ASSUME NEW n \in Present(store')
               PROVE  barred'[n] \cap store'[n].wraps = {}
    BY DEF WrapsApart
  <2>1. barred'[n] = IF Sealed(n) THEN Key \ j.roster
                     ELSE IF Wrapped(n) THEN barred[n] \ j.roster ELSE barred[n]
    BY <1>4, <1>6
  <2> QED BY <1>3, <2>1 DEF Revoked, WrapsApart
<1>9. Unknown'
  <2> SUFFICES ASSUME NEW n \in Present(store'), NEW k \in barred'[n]
               PROVE  store'[n].dek \notin known'[k]
    BY DEF Unknown
  <2>1. k \in Key
    BY <1>1, <1>2, <1>4, <1>6
  <2>2. store'[n].dek \notin known[k]
    <3>1. CASE Sealed(n)
      <4>1. store'[n].dek = deks + 1
        BY <1>3, <3>1
      <4>2. known[k] \subseteq 1..deks
        BY <1>2, <2>1
      <4> QED BY <1>2, <4>1, <4>2
    <3>2. CASE ~Sealed(n)
      <4>1. n \in Present(store) /\ store'[n].dek = store[n].dek
        BY <1>3, <3>2
      <4>2. k \in barred[n]
        BY <1>4, <1>6, <3>2
      <4> QED BY <4>1, <4>2 DEF Revoked, Unknown
    <3> QED BY <3>1, <3>2
  <2>3. ASSUME NEW m \in Present(store'), k \in store'[m].wraps
        PROVE  store'[m].dek # store'[n].dek
    <3>1. k \notin store'[n].wraps
      BY <1>8 DEF WrapsApart
    <3> QED BY <1>7, <2>3, <3>1 DEF DeksDistinct
  <2> QED BY <1>5, <2>1, <2>2, <2>3
<1> QED BY <1>7, <1>8, <1>9 DEF Revoked

(* Unless two commands overlapped, rotate.go revokes: whoever an entry was *)
(* neither sealed nor wrapped for has never been given its data key.       *)
THEOREM RotationRevokes == Spec => []RevokedByRotation
<1> DEFINE RInv == ~overlapped => Revoked
<1>1. Init => RInv
  <2> SUFFICES ASSUME Init PROVE Revoked
    OBVIOUS
  <2>1. /\ store = [NoStore EXCEPT ![first] = Seal(Content, roster, 1)]
        /\ Seal(Content, roster, 1).wraps = roster /\ Seal(Content, roster, 1).dek = 1
        /\ known = [k \in Key |-> IF k \in roster THEN {1} ELSE {}]
        /\ barred = [n \in Name |-> Key \ roster] /\ first \in Name
    BY SealType DEF Init, CommandsInit, Name
  <2>2. \A n \in Present(store) : n = first /\ store[n] = Seal(Content, roster, 1)
    BY <2>1 DEF Present, NoStore
  <2>3. DeksDistinct
    BY <2>2 DEF DeksDistinct
  <2>4. \A n \in Present(store) : barred[n] = Key \ roster
    BY <2>1, <2>2
  <2>5. WrapsApart
    BY <2>1, <2>2, <2>4 DEF WrapsApart
  <2>6. \A k \in Key \ roster : known[k] = {}
    BY <2>1
  <2>7. Unknown
    BY <2>4, <2>6 DEF Unknown
  <2> QED BY <2>3, <2>5, <2>7 DEF Revoked
<1>2. Inv /\ RInv /\ [Next]_vars => RInv'
  <2> SUFFICES ASSUME Inv, RInv, [Next]_vars, ~overlapped'
               PROVE  Revoked'
    OBVIOUS
  <2>1. CASE OtherSteps
    <3>1. store' = store /\ known' = known /\ barred' = barred /\ Revoked
      BY <2>1, OtherStepsLeave
    <3> QED BY <3>1 DEF Revoked, DeksDistinct, WrapsApart, Unknown
  <2>2. ASSUME NEW p \in Proc, Save(p)
        PROVE  Revoked'
    BY <2>2, FreshSave, SaveRevokes
  <2> QED BY <2>1, <2>2, NextCommands
<1>3. RInv => RevokedByRotation
  BY DEF Revoked, Unknown, RevokedByRotation
<1> QED BY SpecInv, <1>1, <1>2, <1>3, PTL DEF Spec

-----------------------------------------------------------------------------
(* The answers.  Over is how many lines the server is through with.        *)
Over == IF job[mcp].step = "idle" THEN taken ELSE taken - 1
Right(answer, i) ==
  IF sent[i].kind = "garbage" THEN answer.id = 0 /\ answer.result = "rpc error"
  ELSE answer.id = i
Matched(answers, n) ==
  /\ Len(answers) = Cardinality(Due(n))
  /\ \A i \in Due(n) : Right(answers[Cardinality(Due(i))], i)

(* The place of a line's answer is the number of the lines due up to it.   *)
LEMMA Places ==
  ASSUME NEW n \in Nat
  PROVE  /\ IsFiniteSet(Due(n)) /\ Cardinality(Due(n)) \in Nat
         /\ Due(n) \subseteq 1..n
<1>1. Due(n) \subseteq 1..n
  BY DEF Due
<1>2. IsFiniteSet(Due(n))
  <2>1. IsFiniteSet(1..n)
    BY FS_Interval
  <2> QED BY <1>1, <2>1, FS_Subset
<1> QED BY <1>1, <1>2, FS_CardinalityType

LEMMA NextPlace ==
  ASSUME NEW n \in Nat
  PROVE  IF sent[n + 1].kind \in {"request", "garbage"}
         THEN /\ Due(n + 1) = Due(n) \cup {n + 1}
              /\ Cardinality(Due(n + 1)) = Cardinality(Due(n)) + 1
         ELSE Due(n + 1) = Due(n)
<1>1. 1..(n + 1) = 1..n \cup {n + 1} /\ n + 1 \notin 1..n
  OBVIOUS
<1>2. CASE sent[n + 1].kind \in {"request", "garbage"}
  <2>1. Due(n + 1) = Due(n) \cup {n + 1} /\ n + 1 \notin Due(n)
    BY <1>1, <1>2 DEF Due
  <2>2. Cardinality(Due(n) \cup {n + 1}) = Cardinality(Due(n)) + 1
    BY <2>1, Places, FS_AddElement
  <2> QED BY <1>2, <2>1, <2>2
<1>3. CASE sent[n + 1].kind \notin {"request", "garbage"}
  BY <1>1, <1>3 DEF Due
<1> QED BY <1>2, <1>3

LEMMA PlaceWithin ==
  ASSUME NEW n \in Nat, NEW i \in Due(n)
  PROVE  Cardinality(Due(i)) \in 1..Cardinality(Due(n)) /\ i \in 1..n
<1>1. i \in 1..n /\ i \in Nat /\ i \in Due(i)
  BY DEF Due
<1>2. Due(i) \subseteq Due(n)
  BY <1>1 DEF Due
<1>3. Cardinality(Due(i)) <= Cardinality(Due(n))
  BY <1>2, Places, FS_Subset
<1>4. Cardinality(Due(i)) # 0
  BY <1>1, Places, FS_EmptySet
<1>5. Cardinality(Due(i)) \in Nat /\ Cardinality(Due(n)) \in Nat
  BY <1>1, Places
<1> QED BY <1>1, <1>3, <1>4, <1>5

(* One line more is dealt with, and answered if an answer is due.          *)
LEMMA OneMore ==
  ASSUME NEW n \in Nat, out \in Seq(Answer), Matched(out, n), NEW answer \in Answer,
         Right(answer, n + 1)
  PROVE  /\ sent[n + 1].kind \in {"request", "garbage"}
              => Matched(Append(out, answer), n + 1)
         /\ sent[n + 1].kind \notin {"request", "garbage"} => Matched(out, n + 1)
<1>1. CASE sent[n + 1].kind \in {"request", "garbage"}
  <2> DEFINE longer == Append(out, answer)
             c == Cardinality(Due(n))
  <2>1. /\ Due(n + 1) = Due(n) \cup {n + 1}
        /\ Cardinality(Due(n + 1)) = c + 1 /\ c \in Nat
    BY <1>1, NextPlace, Places
  <2>2. /\ Len(out) = c /\ Len(longer) = c + 1 /\ longer[c + 1] = answer
        /\ \A k \in 1..c : longer[k] = out[k]
    <3>1. Len(out) = c
      BY DEF Matched
    <3> HIDE DEF Answer, c
    <3>2. /\ Len(longer) = Len(out) + 1 /\ longer[Len(out) + 1] = answer
          /\ \A k \in 1..Len(out) : longer[k] = out[k]
      BY AppendProperties
    <3> QED BY <3>1, <3>2
  <2> HIDE DEF longer, c
  <2>3. ASSUME NEW i \in Due(n + 1) PROVE Right(longer[Cardinality(Due(i))], i)
    <3>1. CASE i = n + 1
      BY <2>1, <2>2, <3>1
    <3>2. CASE i # n + 1
      <4>1. i \in Due(n)
        BY <2>1, <2>3, <3>2
      <4>2. Cardinality(Due(i)) \in 1..c
        BY <4>1, PlaceWithin DEF c
      <4>3. Right(out[Cardinality(Due(i))], i)
        BY <4>1 DEF Matched
      <4> QED BY <2>2, <4>2, <4>3
    <3> QED BY <3>1, <3>2
  <2>4. Matched(longer, n + 1)
    BY <2>1, <2>2, <2>3 DEF Matched
  <2> QED BY <1>1, <2>4 DEF longer
<1>2. CASE sent[n + 1].kind \notin {"request", "garbage"}
  <2>1. Due(n + 1) = Due(n)
    BY <1>2, NextPlace
  <2> QED BY <1>2, <2>1 DEF Matched
<1> QED BY <1>1, <1>2

(* A command the server runs goes on to its end.                           *)
LEMMA GoesOn ==
  ASSUME Inv, CommandStep(mcp)
  PROVE  job'[mcp].step # "idle"
<1> DEFINE j == job[mcp]
<1>0. TypeInv /\ JobsFresh /\ mcp \in Proc /\ job \in [Proc -> Job] /\ j \in Job
  BY DEF Inv, TypeInv, CommandsTypeOK
<1>1. j.cmd.op \in {"add", "rotate", "rm", "push", "encrypt", "run"}
  BY <1>0, JobType
<1>2. ASSUME NEW k, Update(mcp, k) \/ Ahead(mcp, k)
      PROVE  job'[mcp] = k
  BY <1>0, <1>2 DEF Update, Ahead
<1>3. /\ Fail(j).step = "done" /\ \A ok \in BOOLEAN : Done(j, ok).step = "done"
      /\ ReadStore(j, "first").step = "first" /\ ReadStore(j, "second").step = "second"
      /\ ReadRoster(j, "first").step = "first" /\ ReadRoster(j, "second").step = "second"
  BY <1>0, ReadType DEF Fail, Done, Blank
<1>4. CASE ReadFirst(mcp)
  <2>1. \E k \in {Fail(j), ReadStore(j, "first"), ReadStore(j, "second"),
                  ReadRoster(j, "first")} : Update(mcp, k)
    BY <1>1, <1>4 DEF ReadFirst, RotateFirst, RmFirst, RunFirst, PushFirst, AddFirst,
       EncryptFirst
  <2> QED BY <1>2, <1>3, <2>1
<1>5. CASE ReadSecond(mcp)
  <2> DEFINE pushed == [ReadStore(j, "second") EXCEPT !.stale = j.stale \/ j.roster # roster]
             ran == [[j EXCEPT !.step = "child"]
                       EXCEPT !.env = Injected(j.store, SelectEnvEntries(j.store, j.cmd))]
  <2>1. pushed.step = "second"
    <3>1. ReadStore(j, "second") \in Job
      BY <1>0, ReadType
    <3> QED BY <1>3, <3>1 DEF Job
  <2>2. ran.step = "child"
    BY <1>0 DEF Job
  <2>3. \E k \in {Fail(j), Done(j, TRUE), ReadRoster(j, "second"), ran, pushed,
                  ReadStore(j, "second")} : Update(mcp, k)
    BY <1>1, <1>5 DEF ReadSecond, RotateSecond, RunSecond, PushSecond, SealSecond
  <2> HIDE DEF pushed, ran
  <2> QED BY <1>2, <1>3, <2>1, <2>2, <2>3
<1>6. CASE Save(mcp)
  <2>1. [j EXCEPT !.step = "saved"].step = "saved"
    BY <1>0 DEF Job
  <2>2. \E k \in {Done(j, TRUE), [j EXCEPT !.step = "saved"]} : Ahead(mcp, k)
    BY <1>6 DEF Save
  <2> QED BY <1>2, <1>3, <2>1, <2>2
<1>7. CASE SaveFails(mcp) \/ RemoveFails(mcp) \/ ChildEnds(mcp) \/ RemovePlaintext(mcp)
  <2>1. \E ok \in BOOLEAN : Update(mcp, Done(j, ok)) \/ Ahead(mcp, Done(j, ok))
    BY <1>7 DEF SaveFails, RemoveFails, ChildEnds, RemovePlaintext
  <2> QED BY <1>2, <1>3, <2>1
<1> QED BY <1>4, <1>5, <1>6, <1>7 DEF CommandStep

LEMMA AnswersInit == Init => Matched(out, Over)
<1> SUFFICES ASSUME Init PROVE Matched(out, Over)
  OBVIOUS
<1>1. out = <<>> /\ taken = 0 /\ job = [p \in Proc |-> Idle] /\ Idle.step = "idle"
  BY DEF Init, CommandsInit, Idle, Blank
<1>2. Over = 0
  BY <1>1 DEF Over
<1>3. Due(0) = {}
  BY Places
<1> QED BY <1>1, <1>2, <1>3, FS_EmptySet DEF Matched

(* A line is dealt with by the answer it is due, or by none.               *)
Responds(i) ==
  /\ sent[i].kind \in {"request", "notification"}
  /\ \E r \in {"result", "tool error", "rpc error"} : WriteResponse(i, r)
ParseError == [id |-> 0, result |-> "rpc error"]

LEMMA AnswerType ==
  /\ ParseError \in Answer
  /\ \A i \in 0..MaxSent : \A r \in {"result", "tool error", "rpc error"} :
       [id |-> i, result |-> r] \in Answer
<1>1. 0 \in 0..MaxSent
  OBVIOUS
<1> QED BY <1>1, Zenon DEF Answer, ParseError

LEMMA DealtWith ==
  ASSUME Inv, NEW n \in Nat, Matched(out, n), sent' = sent, n + 1 \in 1..Len(sent),
         Over' = n + 1,
         \/ Responds(n + 1)
         \/ sent[n + 1].kind = "garbage" /\ out' = Append(out, ParseError)
         \/ sent[n + 1].kind \in {"blank", "huge"} /\ out' = out
  PROVE  Matched(out, Over)'
<1>1. out \in Seq(Answer) /\ MaxSent \in Nat /\ Len(sent) <= MaxSent /\ Len(sent) \in Nat
  BY DEF Inv, Wire
<1>2. n + 1 \in 0..MaxSent
  BY <1>1
<1>3. ASSUME Matched(out', n + 1) PROVE Matched(out, Over)'
  <2>1. Due(n + 1) = (Due(Over))'
    BY DEF Due
  <2>2. ASSUME NEW i \in Due(n + 1)
        PROVE  Right(out[Cardinality(Due(i))], i)'
    <3>1. Right(out'[Cardinality(Due(i))], i)
      BY <1>3, <2>2 DEF Matched
    <3>2. Due(i)' = Due(i)
      BY DEF Due
    <3> QED BY <3>1, <3>2 DEF Right
  <2>3. Len(out') = Cardinality((Due(Over))')
    BY <1>3, <2>1 DEF Matched
  <2> QED BY <2>1, <2>2, <2>3 DEF Matched
<1>4. CASE Responds(n + 1)
  <2>1. PICK a \in Answer :
          /\ a.id = n + 1
          /\ out' = IF sent[n + 1].kind = "request" THEN Append(out, a) ELSE out
    <3>1. PICK r \in {"result", "tool error", "rpc error"} : WriteResponse(n + 1, r)
      BY <1>4, Zenon DEF Responds
    <3>2. [id |-> n + 1, result |-> r] \in Answer
      BY <1>2, AnswerType, Zenon
    <3>3. out' = IF sent[n + 1].kind = "request"
                 THEN Append(out, [id |-> n + 1, result |-> r]) ELSE out
      BY <3>1, Zenon DEF WriteResponse, Answered
    <3> QED BY <3>2, <3>3
  <2>2. sent[n + 1].kind \in {"request", "notification"}
    BY <1>4, Zenon DEF Responds
  <2>3. Right(a, n + 1)
    BY <2>1, <2>2, Zenon DEF Right
  <2>4. Matched(out', n + 1)
    BY <1>1, <2>1, <2>2, <2>3, OneMore
  <2> QED BY <1>3, <2>4
<1>5. CASE sent[n + 1].kind = "garbage" /\ out' = Append(out, ParseError)
  <2>1. Right(ParseError, n + 1)
    BY <1>5, Zenon DEF Right, ParseError
  <2>2. Matched(Append(out, ParseError), n + 1)
    BY <1>1, <1>5, <2>1, AnswerType, OneMore
  <2> QED BY <1>3, <1>5, <2>2
<1>6. CASE sent[n + 1].kind \in {"blank", "huge"} /\ out' = out
  <2>1. Due(n + 1) = Due(n)
    BY <1>6, NextPlace
  <2> QED BY <1>3, <1>6, <2>1 DEF Matched
<1> QED BY <1>4, <1>5, <1>6

LEMMA NothingDealtWith ==
  ASSUME Inv, Matched(out, Over), Over \in 0..Len(sent), Over' = Over, out' = out,
         \A i \in 1..Over : sent'[i] = sent[i]
  PROVE  Matched(out, Over)'
<1>1. Over \in Nat
  BY DEF Inv, Wire
<1>2. \A n \in 0..Over : Due(n)' = Due(n)
  BY <1>1 DEF Due
<1>3. \A i \in Due(Over) : i \in 1..Over /\ Due(i)' = Due(i)
  BY <1>1, <1>2, PlaceWithin
<1>4. (Due(Over))' = Due(Over)
  BY <1>1 DEF Due
<1>5. \A i \in Due(Over) : Right(out[Cardinality(Due(i))], i)'
  BY <1>3 DEF Matched, Right
<1> QED BY <1>4, <1>5 DEF Matched

LEMMA NextAnswers ==
  ASSUME Inv, Inv', Matched(out, Over), [Next]_vars
  PROVE  Matched(out, Over)'
<1>1. /\ sent \in Seq(Line) /\ Len(sent) <= MaxSent /\ taken \in 0..Len(sent)
      /\ job[mcp].step # "idle" =>
           up /\ taken > 0 /\ sent[taken].kind \in {"request", "notification"}
      /\ Len(sent) \in Nat /\ taken \in Nat /\ taken <= Len(sent)
      /\ job \in [Proc -> Job] /\ mcp \in Proc
  <2>1. /\ sent \in Seq(Line) /\ Len(sent) <= MaxSent /\ taken \in 0..Len(sent)
        /\ job[mcp].step # "idle" =>
             up /\ taken > 0 /\ sent[taken].kind \in {"request", "notification"}
    BY DEF Inv, Wire
  <2> QED BY <2>1 DEF Inv, TypeInv, CommandsTypeOK
<1>2. Over \in 0..Len(sent) /\ Over \in Nat
      /\ (job[mcp].step = "idle" => Over = taken)
      /\ (job[mcp].step # "idle" => Over = taken - 1 /\ taken \in 1..Len(sent))
  BY <1>1 DEF Over
<1>3. ASSUME UNCHANGED <<sent, taken, out>>,
             job'[mcp].step = "idle" <=> job[mcp].step = "idle"
      PROVE  Matched(out, Over)'
  BY <1>2, <1>3, NothingDealtWith DEF Over
<1>4. CASE UNCHANGED vars
  BY <1>3, <1>4 DEF vars, commandVars
<1>5. ASSUME NEW l \in Line, Send(l)
      PROVE  Matched(out, Over)'
  <2>1. sent' = Append(sent, l) /\ UNCHANGED <<taken, out, job>>
    BY <1>5 DEF Send, commandVars
  <2>2. \A i \in 1..Len(sent) : sent'[i] = sent[i]
    BY <1>1, <2>1
  <2>3. Over' = Over
    BY <2>1 DEF Over
  <2> QED BY <1>2, <2>1, <2>2, <2>3, NothingDealtWith
<1>6. ASSUME NEW kinds, Scan(kinds)
      PROVE  /\ job[mcp].step = "idle" /\ taken' = taken + 1 /\ taken + 1 \in 1..Len(sent)
             /\ sent[taken + 1].kind \in kinds /\ sent' = sent /\ Over = taken
  BY <1>1, <1>2, <1>6 DEF Scan
<1>7. CASE Skip \/ GiveUp
  <2>1. job' = job /\ out' = out
    BY <1>7 DEF Skip, GiveUp, commandVars
  <2>2. /\ job[mcp].step = "idle" /\ taken' = taken + 1 /\ taken + 1 \in 1..Len(sent)
        /\ sent[taken + 1].kind \in {"blank", "huge"} /\ sent' = sent /\ Over = taken
    BY <1>6, <1>7 DEF Skip, GiveUp
  <2>3. Over' = taken + 1
    BY <2>1, <2>2 DEF Over
  <2> QED BY <1>1, <2>1, <2>2, <2>3, DealtWith
<1>8. CASE Refuse
  <2>1. job' = job /\ out' = Append(out, ParseError)
    BY <1>8 DEF Refuse, ParseError, commandVars
  <2>2. /\ job[mcp].step = "idle" /\ taken' = taken + 1 /\ taken + 1 \in 1..Len(sent)
        /\ sent[taken + 1].kind = "garbage" /\ sent' = sent /\ Over = taken
    <3>1. Scan({"garbage"})
      BY <1>8 DEF Refuse
    <3>2. sent[taken + 1].kind \in {"garbage"}
      BY <1>6, <3>1
    <3> QED BY <1>6, <3>1, <3>2
  <2>3. Over' = taken + 1
    BY <2>1, <2>2 DEF Over
  <2> QED BY <1>1, <2>1, <2>2, <2>3, DealtWith
<1>9. CASE HandleAtOnce
  <2>1. job' = job
    BY <1>9 DEF HandleAtOnce, commandVars
  <2>2. /\ job[mcp].step = "idle" /\ taken' = taken + 1 /\ taken + 1 \in 1..Len(sent)
        /\ sent[taken + 1].kind \in {"request", "notification"} /\ sent' = sent
        /\ Over = taken
    BY <1>6, <1>9 DEF HandleAtOnce
  <2>3. Over' = taken + 1
    BY <2>1, <2>2 DEF Over
  <2>4. Responds(taken + 1)
    BY <1>9, <2>2 DEF HandleAtOnce, Responds
  <2> QED BY <1>1, <2>2, <2>3, <2>4, DealtWith
<1>10. CASE Dispatch
  <2>1. /\ job[mcp].step = "idle" /\ taken' = taken + 1 /\ sent' = sent /\ Over = taken
        /\ out' = out
    BY <1>6, <1>10 DEF Dispatch
  <2>2. job'[mcp].step = "start"
    <3>1. \E c : Update(mcp, Blank(c, "start", FALSE))
      BY <1>10 DEF Dispatch, Begin
    <3> QED BY <1>1, <3>1 DEF Update, Blank
  <2>3. Over' = Over
    BY <1>1, <2>1, <2>2 DEF Over
  <2> QED BY <1>2, <2>1, <2>3, NothingDealtWith
<1>11. CASE Respond
  <2>1. /\ job[mcp].step = "done" /\ UNCHANGED <<sent, taken>> /\ Update(mcp, Idle)
        /\ Responds(taken)
    BY <1>1, <1>11 DEF Respond, Responds
  <2>2. job'[mcp].step = "idle"
    BY <1>1, <2>1 DEF Update, Idle, Blank
  <2>3. Over' = taken /\ Over + 1 = taken /\ taken \in 1..Len(sent)
    <3>1. Over' = taken
      BY <2>1, <2>2 DEF Over
    <3>2. Over = taken - 1 /\ taken \in 1..Len(sent)
      BY <1>2, <2>1
    <3> QED BY <1>1, <3>1, <3>2
  <2>4. /\ Responds(Over + 1) /\ Over' = Over + 1 /\ Over + 1 \in 1..Len(sent)
        /\ sent' = sent
    BY <2>1, <2>3
  <2> QED BY <1>2, <2>4, DealtWith
<1>12. CASE CommandStep(mcp) /\ UNCHANGED <<wire, typed>>
  BY <1>3, <1>12, McpJob, GoesOn DEF wire
<1>13. CASE CommandStep(term) /\ UNCHANGED <<wire, typed>>
  BY <1>3, <1>13, McpJob DEF wire
<1>14. ASSUME NEW c \in Typed, Type(c)
       PROVE  Matched(out, Over)'
  <2>1. c \in Command /\ Begin(term, c) /\ UNCHANGED <<sent, taken, out>>
    BY <1>14 DEF Type, wire
  <2> QED BY <1>3, <2>1, McpJob
<1>15. ASSUME NEW k \in Key, ChangeRecipients(k)
       PROVE  Matched(out, Over)'
  <2>1. UNCHANGED <<sent, taken, out, job>>
    BY <1>15 DEF ChangeRecipients, SetRoster, wire
  <2> QED BY <1>3, <2>1
<1> QED
  BY <1>4, <1>5, <1>7, <1>8, <1>9, <1>10, <1>11, <1>12, <1>13, <1>14, <1>15
     DEF Next, Serve, Terminal

(* The requests and the lines that are no JSON are answered once each and  *)
(* in the order they were sent, and nothing else is, whatever the handlers *)
(* of server.go ran into and whatever was typed meanwhile.                 *)
THEOREM AnswersAreMatched == Spec => []AnswersMatch
<1>1. Matched(out, Over) => AnswersMatch
  BY DEF Matched, AnswersMatch, Right, Over
<1> QED BY <1>1, AnswersInit, NextAnswers, SpecInv, PTL DEF Spec
=============================================================================
