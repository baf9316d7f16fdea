--------------------------- MODULE KeychainProofs ---------------------------
(***************************************************************************)
(* Proofs about the keychain, for any terminals, passphrases, staging ids  *)
(* and number of keys.                                                     *)
(***************************************************************************)
EXTENDS Keychain, TLAPS

(* One step of one command.                                                *)
Step(p) ==
  \/ \E w \in Pass : \/ Read(p, w) \/ Stage(p, w) \/ Verify(p, w)
                     \/ CheckAgain(p, w) \/ New(p, w)
  \/ DeleteOld(p)
  \/ Add(p)
  \/ DropStaged(p)
  \/ Delete(p)
  \/ Stop(p)

-----------------------------------------------------------------------------
(* Type correctness.                                                       *)

LEMMA TypeInit == Init => TypeOK
<1> SUFFICES ASSUME Init PROVE TypeOK
  OBVIOUS
<1> USE KeychainAssumption
<1>1. PICK b \in {None} \cup [key : {1}, by : Pass \cup {Raw, Newer}] :
        /\ blob = [s \in Slot |-> IF s = "id" THEN b ELSE None]
        /\ given = IF b = None THEN {} ELSE {1}
  BY DEF Init
<1>2. b \in Blob \cup {None}
  BY <1>1 DEF Blob
<1>3. blob \in [Slot -> Blob \cup {None}] /\ given \subseteq 1..MaxKeys
  BY <1>1, <1>2
<1>4. Idle \in Job /\ job = [p \in Process |-> Idle]
  BY DEF Init, Job
<1>5. keys = 1 /\ dropped = {} /\ known = {}
  BY DEF Init
<1> QED
  BY <1>3, <1>4, <1>5 DEF TypeOK

LEMMA IdSlot == "id" \in Slot /\ Temp \subseteq Slot /\ None \notin Blob
  BY KeychainAssumption DEF Slot, Blob

(* What a job is, told by its command and step.                            *)
LEMMA JobForms ==
  ASSUME NEW j \in Job
  PROVE  /\ j = Idle \/ j.cmd \in {"new", "reseal"}
         /\ j # Idle => j.key \in 1..MaxKeys
         /\ j.cmd = "reseal" /\ j.step # "read" => j.temp \in Temp /\ j.by \in Pass
         /\ j.step = "adding" => j.by \in Pass /\ j.cmd \in {"new", "reseal"}
         /\ Idle.cmd = "none" /\ Idle.step = "idle"
  BY DEF Job, Idle

LEMMA TypeNext == TypeOK /\ [Next]_vars => TypeOK'
<1> SUFFICES ASSUME TypeOK, [Next]_vars PROVE TypeOK'
  OBVIOUS
<1> USE KeychainAssumption
<1>1. CASE UNCHANGED vars
  BY <1>1 DEF vars, TypeOK
<1>2. CASE Next
  <2>1. PICK p \in Process : Step(p)
    BY <1>2 DEF Next, Step
  <2>2. job[p] \in Job /\ Idle \in Job
    BY DEF TypeOK, Job
  <2>3. ASSUME NEW w \in Pass, Read(p, w) PROVE TypeOK'
    BY <2>3, <2>2, IdSlot DEF Read, Opened, Set, Unseals, Found, TypeOK, Blob, Job
  <2>4. ASSUME NEW w \in Pass, Stage(p, w) PROVE TypeOK'
    BY <2>4, <2>2, IdSlot, JobForms DEF Stage, Fresh, Resealing, Set, TypeOK, Blob, Job, history, Idle
  <2>5. ASSUME NEW w \in Pass, Verify(p, w) PROVE TypeOK'
    BY <2>5, <2>2, IdSlot, JobForms
       DEF Verify, Opened, Resealing, Unseals, Found, Return, Set, TypeOK, Blob, Job, Idle
  <2>6. ASSUME NEW w \in Pass, CheckAgain(p, w) PROVE TypeOK'
    BY <2>6, <2>2, JobForms DEF CheckAgain, Resealing, Return, Set, TypeOK, Job, history, Idle
  <2>7. ASSUME NEW w \in Pass, New(p, w) PROVE TypeOK'
    BY <2>7, <2>2 DEF New, Set, TypeOK, Job, history
  <2>8. CASE DeleteOld(p)
    BY <2>8, <2>2, IdSlot DEF DeleteOld, Resealing, Set, TypeOK, Job, history, Idle
  <2>9. CASE Add(p)
    BY <2>9, <2>2, IdSlot, JobForms DEF Add, Return, Set, TypeOK, Blob, Job, Idle
  <2>10. CASE DropStaged(p)
    BY <2>10, <2>2, IdSlot, JobForms DEF DropStaged, Resealing, Return, Set, TypeOK, history
  <2>11. CASE Delete(p)
    BY <2>11, <2>2, IdSlot DEF Delete, Found, TypeOK, Blob
  <2>12. CASE Stop(p)
    BY <2>12, <2>2 DEF Stop, Return, Set, TypeOK, history
  <2> QED
    BY <2>1, <2>3, <2>4, <2>5, <2>6, <2>7, <2>8, <2>9, <2>10, <2>11, <2>12 DEF Step
<1> QED
  BY <1>1, <1>2

(* The keychain holds what its type says, whatever the backend and however *)
(* many commands run at once.                                              *)
THEOREM TypeOKThm == Spec => []TypeOK
  BY TypeInit, TypeNext, PTL DEF Spec

-----------------------------------------------------------------------------
(* Why no key is lost.                                                     *)

(* From its read on until it deletes the blob under the member's id, and   *)
(* again once it has put it back, a reseal finds its own key there.        *)
OwnKeyAtId(p) ==
  job[p].cmd = "reseal" /\ job[p].step \in {"read", "staged", "verified", "added"}
  => Found("id") /\ blob["id"].key = job[p].key

(* Its staged copy is a copy of the key, and from its verification on one  *)
(* that opens.                                                             *)
CopyOpens(p) ==
  /\ job[p].cmd = "reseal" /\ job[p].step = "staged"
     => Found(job[p].temp) /\ blob[job[p].temp].key = job[p].key
  /\ job[p].cmd = "reseal" /\ job[p].step \in {"verified", "gone", "adding", "added"}
     => Opens(job[p].temp, job[p].key)

OneReseal ==
  \A p, q \in Process : job[p].cmd = "reseal" /\ job[q].cmd = "reseal" => p = q

IInv == /\ TypeOK
        /\ OneReseal
        /\ \A p \in Process : OwnKeyAtId(p) /\ CopyOpens(p)
        /\ KeyKept

LEMMA IInvInit == Init => IInv
<1> SUFFICES ASSUME Init PROVE IInv
  OBVIOUS
<1>1. \A p \in Process : job[p].cmd = "none"
  BY DEF Init, Idle
<1>2. PICK b \in {None} \cup [key : {1}, by : Pass \cup {Raw, Newer}] :
        /\ blob = [s \in Slot |-> IF s = "id" THEN b ELSE None]
        /\ given = IF b = None THEN {} ELSE {1}
  BY DEF Init
<1>3. KeyKept
  BY <1>2, IdSlot DEF KeyKept, Found
<1> QED
  BY <1>1, <1>3, TypeInit DEF IInv, OneReseal, OwnKeyAtId, CopyOpens

(* A copy goes on opening while its slot is left alone.                    *)
LEMMA OpensStays ==
  ASSUME NEW s, NEW k, blob'[s] = blob[s], known \subseteq known'
  PROVE  Opens(s, k) => Opens(s, k)'
  BY DEF Opens, Found

(* A step that leaves the keychain alone, and the history of the keys.     *)
LEMMA KeptStays ==
  ASSUME KeyKept, UNCHANGED <<blob, given, dropped>>, known \subseteq known'
  PROVE  KeyKept'
  BY OpensStays DEF KeyKept, Found

(* The same of other processes' invariants.                                *)
LEMMA OthersStay ==
  ASSUME TypeOK, NEW q \in Process, OwnKeyAtId(q), CopyOpens(q),
         UNCHANGED job[q], known \subseteq known',
         job[q].cmd = "reseal" => /\ blob'["id"] = blob["id"] \/ ~Found("id")
                                  /\ blob'[job[q].temp] = blob[job[q].temp]
  PROVE  OwnKeyAtId(q)' /\ CopyOpens(q)'
  BY OpensStays DEF OwnKeyAtId, CopyOpens, Found

LEMMA IInvNext ==
  ASSUME Backend = "macos", Careful
  PROVE  IInv /\ [Next]_vars => IInv'
<1> SUFFICES ASSUME IInv, [Next]_vars PROVE IInv'
  OBVIOUS
<1> USE KeychainAssumption
<1>1. TypeOK'
  BY TypeNext DEF IInv
<1>2. CASE UNCHANGED vars
  BY <1>1, <1>2 DEF vars, IInv, OneReseal, OwnKeyAtId, CopyOpens, KeyKept, Opens, Found
<1>3. CASE Next
  <2>1. PICK p \in Process : Step(p)
    BY <1>3 DEF Next, Step
  <2>2. /\ job[p] \in Job /\ Idle \in Job /\ job \in [Process -> Job]
        /\ blob \in [Slot -> Blob \cup {None}] /\ "id" \in Slot /\ Temp \subseteq Slot
        /\ "id" \notin Temp /\ None \notin Blob
    BY IdSlot DEF IInv, TypeOK, Job
  <2>3. KeyKept /\ OneReseal /\ OwnKeyAtId(p) /\ CopyOpens(p)
    BY DEF IInv
  <2>4. ASSUME NEW q \in Process, q # p, job[p].cmd = "reseal" PROVE job[q].cmd # "reseal"
    BY <2>3, <2>4 DEF OneReseal
  <2> DEFINE Others == \A q \in Process : q # p => OwnKeyAtId(q)' /\ CopyOpens(q)'
             Good   == OneReseal' /\ OwnKeyAtId(p)' /\ CopyOpens(p)' /\ Others /\ KeyKept'
  <2>o. ASSUME /\ \A q \in Process : q # p =>
                    /\ job'[q] = job[q]
                    /\ job[q].cmd = "reseal" => /\ blob'["id"] = blob["id"] \/ ~Found("id")
                                                /\ blob'[job[q].temp] = blob[job[q].temp]
               /\ known \subseteq known'
        PROVE  Others
    BY <2>o, OthersStay DEF IInv
  <2>5. ASSUME NEW w \in Pass, Read(p, w) PROVE Good
    <3>1. /\ \A q \in Process : q # p => job'[q] = job[q] /\ job[q].cmd # "reseal"
          /\ job'[p] = [cmd |-> "reseal", step |-> "read", key |-> blob["id"].key,
                        temp |-> None, by |-> None]
          /\ UNCHANGED <<blob, given, dropped>> /\ known \subseteq known' /\ Found("id")
      BY <2>5, <2>2 DEF Read, Set, Quiet, Opened, Unseals
    <3>2. OneReseal' /\ OwnKeyAtId(p)' /\ CopyOpens(p)'
      BY <3>1 DEF OneReseal, OwnKeyAtId, CopyOpens, Found
    <3> QED
      BY <3>1, <3>2, <2>o, <2>3, KeptStays
  <2>6. ASSUME NEW w \in Pass, Stage(p, w) PROVE Good
    <3>1. PICK t \in Fresh :
            /\ blob' = [blob EXCEPT ![t] = [key |-> job[p].key, by |-> w]]
            /\ job' = [job EXCEPT ![p] = [cmd |-> "reseal", step |-> "staged",
                         key |-> job[p].key, temp |-> t, by |-> w]]
      BY <2>6 DEF Stage, Set
    <3>2. /\ UNCHANGED history /\ Resealing(p, "read") /\ t \in Temp /\ ~Found(t)
          /\ \A q \in Process : q # p => job'[q] = job[q] /\ job[q].cmd # "reseal"
          /\ \A s \in Slot : s # t => blob'[s] = blob[s]
          /\ job'[p] = [cmd |-> "reseal", step |-> "staged", key |-> job[p].key,
                        temp |-> t, by |-> w]
          /\ blob'[t] \in Blob /\ blob'[t].key = job[p].key
      BY <2>6, <3>1, <2>2, <2>4, JobForms DEF Stage, Fresh, Resealing, Blob, Idle
    <3>3. OneReseal' /\ OwnKeyAtId(p)' /\ CopyOpens(p)'
      BY <3>2, <2>2, <2>3 DEF OneReseal, OwnKeyAtId, CopyOpens, Found, Resealing
    <3>4. \A s \in Slot, k \in given : Opens(s, k) => Opens(s, k)'
      BY <3>2, OpensStays DEF Opens, history
    <3>5. KeyKept'
      BY <3>2, <3>4, <2>2, <2>3 DEF KeyKept, Found, history
    <3> QED
      BY <3>2, <3>3, <3>5, <2>o DEF history
  <2>7. ASSUME NEW w \in Pass, Verify(p, w) PROVE Good
    <3>1. /\ Resealing(p, "staged") /\ UNCHANGED <<given, dropped>>
          /\ \A q \in Process : q # p => job'[q] = job[q] /\ job[q].cmd # "reseal"
          /\ job[p].temp \in Temp /\ known \subseteq known'
          /\ \A s \in Slot : s # job[p].temp => blob'[s] = blob[s]
      BY <2>7, <2>2, <2>4, JobForms DEF Verify, Resealing, Set, Return, Opened
    <3>2. Found("id") /\ blob["id"].key = job[p].key
      BY <3>1, <2>3 DEF OwnKeyAtId, Resealing
    <3>3. Found(job[p].temp) /\ blob[job[p].temp].key = job[p].key
      BY <3>1, <2>3 DEF CopyOpens, Resealing
    <3>4. CASE Unseals(job[p].temp, w)
      <4>1. /\ UNCHANGED blob /\ job'[p] = [job[p] EXCEPT !.step = "verified"]
            /\ known' = known \cup ({blob[job[p].temp].by} \cap Pass)
        BY <3>4, <2>7, <2>2 DEF Verify, Opened, Set
      <4>2. /\ job'[p].cmd = "reseal" /\ job'[p].step = "verified"
            /\ job'[p].key = job[p].key /\ job'[p].temp = job[p].temp
        BY <4>1, <3>1, <2>2 DEF Job, Idle, Resealing
      <4>3. Opens(job[p].temp, job[p].key)'
        BY <4>1, <4>2, <3>3, <3>4 DEF Opens, Unseals, Found
      <4>4. OneReseal' /\ OwnKeyAtId(p)' /\ CopyOpens(p)'
        BY <4>1, <4>2, <4>3, <3>1, <3>2 DEF OneReseal, OwnKeyAtId, CopyOpens, Found, Opens
      <4> QED
        BY <4>1, <4>4, <3>1, <2>o, <2>3, KeptStays
    <3>5. CASE ~Unseals(job[p].temp, w)
      <4>1. job'[p] = Idle /\ UNCHANGED known
        BY <3>5, <2>7, <2>2 DEF Verify, Return, Set
      <4>2. OneReseal' /\ OwnKeyAtId(p)' /\ CopyOpens(p)'
        BY <4>1, <3>1 DEF OneReseal, OwnKeyAtId, CopyOpens, Idle
      <4>3. KeyKept'
        BY <4>1, <3>1, <3>2, <3>3, <2>2, <2>3 DEF KeyKept, Opens, Found
      <4> QED
        BY <4>1, <4>2, <4>3, <3>1, <2>o
    <3> QED
      BY <3>4, <3>5
  <2>8. ASSUME NEW w \in Pass, CheckAgain(p, w) PROVE Good
    <3>1. /\ Resealing(p, "gone") /\ UNCHANGED <<blob, given, dropped, known>>
          /\ \A q \in Process : q # p => job'[q] = job[q]
          /\ \/ job'[p] = Idle
             \/ job'[p] = [cmd |-> "reseal", step |-> "adding", key |-> job[p].key,
                           temp |-> job[p].temp, by |-> w]
      BY <2>8, <2>2 DEF CheckAgain, Return, Set, history
    <3>2. OneReseal' /\ OwnKeyAtId(p)' /\ CopyOpens(p)'
      BY <3>1, <2>3 DEF OneReseal, OwnKeyAtId, CopyOpens, Opens, Found, Resealing, Idle
    <3> QED
      BY <3>1, <3>2, <2>o, <2>3, KeptStays
  <2>9. ASSUME NEW w \in Pass, New(p, w) PROVE Good
    <3>1. /\ UNCHANGED <<blob, given, dropped, known>>
          /\ \A q \in Process : q # p => job'[q] = job[q]
          /\ job'[p].cmd = "new"
      BY <2>9, <2>2 DEF New, Set, history
    <3>2. OneReseal' /\ OwnKeyAtId(p)' /\ CopyOpens(p)'
      BY <3>1, <2>3 DEF OneReseal, OwnKeyAtId, CopyOpens
    <3> QED
      BY <3>1, <3>2, <2>o, <2>3, KeptStays
  <2>10. ASSUME DeleteOld(p) PROVE Good
    <3>1. /\ Resealing(p, "verified") /\ UNCHANGED <<given, dropped, known>>
          /\ \A q \in Process : q # p => job'[q] = job[q] /\ job[q].cmd # "reseal"
          /\ job[p].temp \in Temp
          /\ \A s \in Slot : s # "id" => blob'[s] = blob[s]
          /\ job'[p] = [job[p] EXCEPT !.step = "gone"]
      BY <2>10, <2>2, <2>4, JobForms DEF DeleteOld, Resealing, Set, history
    <3>2. /\ job'[p].cmd = "reseal" /\ job'[p].step = "gone"
          /\ job'[p].key = job[p].key /\ job'[p].temp = job[p].temp
      BY <3>1, <2>2 DEF Job, Idle, Resealing
    <3>3. /\ blob["id"].key = job[p].key
          /\ Opens(job[p].temp, job[p].key)'
      BY <3>1, <2>2, <2>3 DEF OwnKeyAtId, CopyOpens, Opens, Found, Resealing
    <3>4. OneReseal' /\ OwnKeyAtId(p)' /\ CopyOpens(p)'
      BY <3>1, <3>2, <3>3 DEF OneReseal, OwnKeyAtId, CopyOpens, Opens, Found
    <3>5. KeyKept'
      BY <3>1, <3>3, <2>2, <2>3 DEF KeyKept, Opens, Found
    <3> QED
      BY <3>1, <3>4, <3>5, <2>o
  <2>11. ASSUME Add(p) PROVE Good
    <3>1. /\ UNCHANGED <<dropped, known>> /\ job[p].step = "adding"
          /\ \A q \in Process : q # p => job'[q] = job[q]
      BY <2>11, <2>2 DEF Add, Return, Set
    <3>2. CASE Found("id")
      <4>1. UNCHANGED <<blob, given>> /\ job'[p] = Idle
        BY <3>2, <2>11, <2>2 DEF Add, Return, Set
      <4>2. OneReseal' /\ OwnKeyAtId(p)' /\ CopyOpens(p)'
        BY <4>1, <3>1, <2>3 DEF OneReseal, OwnKeyAtId, CopyOpens, Idle
      <4> QED
        BY <4>1, <4>2, <3>1, <2>o, <2>3, KeptStays
    <3>3. CASE ~Found("id")
      <4>1. /\ blob' = [blob EXCEPT !["id"] = [key |-> job[p].key, by |-> job[p].by]]
            /\ \/ job[p].cmd = "new" /\ job'[p] = Idle /\ given' = given \cup {job[p].key}
               \/ /\ job[p].cmd # "new" /\ job'[p] = [job[p] EXCEPT !.step = "added"]
                  /\ UNCHANGED given
        BY <3>3, <2>11, <2>2 DEF Add, Return, Set
      <4>2. Found("id")' /\ blob'["id"].key = job[p].key
        BY <4>1, <2>2, <3>1, JobForms DEF Found, Blob, Idle
      <4>3. /\ \A s \in Slot : s # "id" => blob'[s] = blob[s]
            /\ \A q \in Process : job[q].cmd = "reseal" /\ job[q].step # "read"
                                  => job[q].temp \in Temp
        BY <4>1, <2>2, JobForms
      <4>4. Others
        BY <3>1, <3>3, <4>3, <2>2, <2>o DEF IInv, OwnKeyAtId
      <4>5. OneReseal' /\ OwnKeyAtId(p)' /\ CopyOpens(p)'
        <5>1. CASE job'[p] = Idle
          BY <5>1, <3>1, <2>3 DEF OneReseal, OwnKeyAtId, CopyOpens, Idle
        <5>2. CASE job[p].cmd # "new" /\ job'[p] = [job[p] EXCEPT !.step = "added"]
          <6>1. /\ job[p].cmd = "reseal" /\ job'[p].cmd = "reseal" /\ job'[p].step = "added"
                /\ job'[p].key = job[p].key /\ job'[p].temp = job[p].temp
                /\ job[p].temp \in Temp
            BY <5>2, <3>1, <2>2 DEF Job, Idle
          <6>2. Opens(job[p].temp, job[p].key)'
            BY <6>1, <4>3, <3>1, <2>2, <2>3 DEF CopyOpens, Opens, Found
          <6> QED
            BY <6>1, <6>2, <4>2, <3>1, <2>3 DEF OneReseal, OwnKeyAtId, CopyOpens, Found, Opens
        <5> QED
          BY <5>1, <5>2, <4>1
      <4>6. KeyKept'
        BY <3>1, <3>3, <4>1, <4>2, <4>3, <2>2, <2>3 DEF KeyKept, Opens, Found
      <4> QED
        BY <4>4, <4>5, <4>6
    <3> QED
      BY <3>2, <3>3
  <2>12. ASSUME DropStaged(p) PROVE Good
    <3>1. /\ Resealing(p, "added") /\ UNCHANGED <<given, dropped, known>>
          /\ \A q \in Process : q # p => job'[q] = job[q] /\ job[q].cmd # "reseal"
          /\ \A s \in Slot : s # job[p].temp => blob'[s] = blob[s]
          /\ job[p].temp \in Temp /\ job'[p] = Idle
      BY <2>12, <2>2, <2>4, JobForms DEF DropStaged, Resealing, Return, Set, history
    <3>2. /\ Found("id") /\ blob["id"].key = job[p].key
          /\ blob[job[p].temp].key = job[p].key
      BY <3>1, <2>3 DEF OwnKeyAtId, CopyOpens, Opens, Resealing
    <3>3. OneReseal' /\ OwnKeyAtId(p)' /\ CopyOpens(p)'
      BY <3>1 DEF OneReseal, OwnKeyAtId, CopyOpens, Idle
    <3>4. KeyKept'
      BY <3>1, <3>2, <2>2, <2>3 DEF KeyKept, Opens, Found
    <3> QED
      BY <3>1, <3>3, <3>4, <2>o
  <2>13. ASSUME Delete(p) PROVE Good
    <3>1. /\ \A q \in Process : q # p => job'[q] = job[q] /\ job[q].cmd # "reseal"
          /\ \A s \in Slot : s # "id" => blob'[s] = blob[s]
          /\ UNCHANGED <<job, given, known>> /\ dropped' = dropped \cup {blob["id"].key}
          /\ job[p] = Idle
      BY <2>13, <2>2 DEF Delete, Quiet
    <3>2. OneReseal' /\ OwnKeyAtId(p)' /\ CopyOpens(p)'
      BY <3>1 DEF OneReseal, OwnKeyAtId, CopyOpens, Idle
    <3>3. KeyKept'
      BY <3>1, <2>2, <2>3 DEF KeyKept, Opens, Found
    <3> QED
      BY <3>1, <3>2, <3>3, <2>o
  <2>14. ASSUME Stop(p) PROVE Good
    <3>1. /\ UNCHANGED <<blob, given, dropped, known>> /\ job'[p] = Idle
          /\ \A q \in Process : q # p => job'[q] = job[q]
      BY <2>14, <2>2 DEF Stop, Return, Set, history
    <3>2. OneReseal' /\ OwnKeyAtId(p)' /\ CopyOpens(p)'
      BY <3>1, <2>3 DEF OneReseal, OwnKeyAtId, CopyOpens, Idle
    <3> QED
      BY <3>1, <3>2, <2>o, <2>3, KeptStays
  <2>15. Good
    BY <2>1, <2>5, <2>6, <2>7, <2>8, <2>9, <2>10, <2>11, <2>12, <2>13, <2>14 DEF Step
  <2> QED
    BY <1>1, <2>15 DEF IInv
<1> QED
  BY <1>2, <1>3

(* No key is lost on macOS as long as nobody runs key reseal or key delete *)
(* during a key reseal: whatever fails or is killed, each key given and    *)
(* not deleted is under the member's id or in a copy verified to open.     *)
THEOREM KeyKeptThm ==
  ASSUME Backend = "macos", Careful
  PROVE  Spec => []KeyKept
<1>1. IInv => KeyKept
  BY DEF IInv
<1> QED
  BY <1>1, IInvInit, IInvNext, PTL DEF Spec
=============================================================================
