------------------------------ MODULE Keychain ------------------------------
(***************************************************************************)
(* The private key of one member in the keychain of one machine, and the   *)
(* commands that move it: cifra key new, key delete and key reseal.  A key *)
(* is a number, counted in the order of generation.  A blob is a key and   *)
(* how it is protected: by a passphrase, not at all (the format before     *)
(* protection), or by a version of cifra newer than this one.  Encryption  *)
(* binds a blob to its slot, and nothing copies a blob between slots, so   *)
(* a blob opens where it is with its passphrase and nowhere else.          *)
(*                                                                         *)
(* Reseal goes from keychain call to keychain call, and at each of them it *)
(* may fail or be killed, or another command may come in between.  Every   *)
(* Seal and Unseal asks for the passphrase anew; what is typed is any      *)
(* member of Pass, so that a mistyped passphrase is one of them.  With a   *)
(* single one the model is that of CIFRA_PASSPHRASE.                       *)
(***************************************************************************)
EXTENDS Naturals, FiniteSets

CONSTANTS
  Process,     \* the terminals commands are started from
  Pass,        \* what may be typed at a prompt
  Temp,        \* the staging ids: <id>.reseal-tmp-<random>
  None,        \* no blob, no passphrase, no staging id
  Raw, Newer,  \* not protected; protected by a format this cifra cannot read
  Backend,     \* "macos" or "linux"
  Careful,     \* nobody runs key reseal or key delete during a key reseal
  MaxKeys      \* bounds how many keys are generated

ASSUME KeychainAssumption ==
  /\ MaxKeys \in Nat \ {0}
  /\ Backend \in {"macos", "linux"}
  /\ Careful \in BOOLEAN
  /\ None \notin Pass \cup Temp
  /\ None \notin [key : 1..MaxKeys, by : Pass \cup {Raw, Newer}]
  /\ Raw \notin Pass \cup {None, Newer} /\ Newer \notin Pass \cup {None}
  /\ "id" \notin Temp

VARIABLES
  blob,     \* blob[s]: what the keychain holds in slot s
  job,      \* job[p]: the command p runs and how far it has come
  keys,     \* how many keys have been generated
  given,    \* history: the keys that were sealed under the member's id
  dropped,  \* history: the keys key delete has removed
  known     \* history: the passphrases that have opened a blob

vars == <<blob, job, keys, given, dropped, known>>
history == <<given, dropped, known>>

Slot == {"id"} \cup Temp
Blob == [key : 1..MaxKeys, by : Pass \cup {Raw, Newer}]
Idle == [cmd |-> "none", step |-> "idle", key |-> 0, temp |-> None, by |-> None]
Job  ==
  {Idle}
  \cup [cmd : {"new"}, step : {"adding"}, key : 1..MaxKeys, temp : {None}, by : Pass]
  \cup [cmd : {"reseal"}, step : {"read"}, key : 1..MaxKeys, temp : {None}, by : {None}]
  \cup [cmd : {"reseal"}, step : {"staged", "verified", "gone", "adding", "added"},
        key : 1..MaxKeys, temp : Temp, by : Pass]

TypeOK ==
  /\ blob \in [Slot -> Blob \cup {None}]
  /\ job \in [Process -> Job]
  /\ keys \in 1..MaxKeys
  /\ given \subseteq 1..MaxKeys
  /\ dropped \subseteq 1..MaxKeys
  /\ known \subseteq Pass

Init ==
  /\ \E b \in {None} \cup [key : {1}, by : Pass \cup {Raw, Newer}] :
       /\ blob = [s \in Slot |-> IF s = "id" THEN b ELSE None]
       /\ given = IF b = None THEN {} ELSE {1}
  /\ job = [p \in Process |-> Idle]
  /\ keys = 1
  /\ dropped = {}
  /\ known = {}

-----------------------------------------------------------------------------
(* One call to the keychain or one question for the passphrase each.       *)

Found(s) == blob[s] # None

(* protectedStore.Unseal, when w is typed: a key that is not protected     *)
(* needs no passphrase, a newer format does not open with any.             *)
Unseals(s, w) == Found(s) /\ blob[s].by \in {w, Raw}

(* What the history keeps of it.                                           *)
Opened(s) == known' = known \cup ({blob[s].by} \cap Pass)

Set(p, fields) == job' = [job EXCEPT ![p] = fields]
Return(p) == Set(p, Idle)
Resealing(p, step) == job[p].cmd = "reseal" /\ job[p].step = step
Quiet(p) == Careful => \A q \in Process \ {p} : job[q].cmd # "reseal"
-----------------------------------------------------------------------------
(* key reseal.                                                             *)

(* Reads the key; it stays in memory until the command is over.            *)
Read(p, w) ==
  /\ job[p] = Idle
  /\ Quiet(p)
  /\ Unseals("id", w)
  /\ Opened("id")
  /\ Set(p, [cmd |-> "reseal", step |-> "read", key |-> blob["id"].key,
             temp |-> None, by |-> None])
  /\ UNCHANGED <<blob, keys, given, dropped>>

(* Seals it under a staging id nobody has used.                            *)
FreshIsOwn == {"id"}
Fresh == {t \in Temp : ~Found(t)}
Stage(p, w) ==
  /\ Resealing(p, "read")
  /\ \E t \in Fresh :
       /\ blob' = [blob EXCEPT ![t] = [key |-> job[p].key, by |-> w]]
       /\ Set(p, [cmd |-> "reseal", step |-> "staged", key |-> job[p].key,
                  temp |-> t, by |-> w])
  /\ UNCHANGED <<keys, history>>

(* Opens the staged blob; if it does not open the command removes it, when *)
(* the keychain lets it, and reports the error.  Two plaintexts that open  *)
(* under one authenticated blob do not differ.                             *)
VerifyNothing(p, w) ==
  /\ Resealing(p, "staged")
  /\ Set(p, [job[p] EXCEPT !.step = "verified"])
  /\ UNCHANGED <<blob, keys, history>>
Verify(p, w) ==
  /\ Resealing(p, "staged")
  /\ IF Unseals(job[p].temp, w)
     THEN /\ Opened(job[p].temp)
          /\ Set(p, [job[p] EXCEPT !.step = "verified"])
          /\ UNCHANGED blob
     ELSE /\ blob' \in {blob, [blob EXCEPT ![job[p].temp] = None]}
          /\ Return(p)
          /\ UNCHANGED known
  /\ UNCHANGED <<keys, given, dropped>>

(* Deletes the blob under the member's id.  When there is none, Linux      *)
(* reports ErrNotFound, which is tolerated; macOS a failure, see Stop.     *)
DeleteOld(p) ==
  /\ Resealing(p, "verified")
  /\ Backend = "macos" => Found("id")
  /\ blob' = [blob EXCEPT !["id"] = None]
  /\ Set(p, [job[p] EXCEPT !.step = "gone"])
  /\ UNCHANGED <<keys, history>>

(* Seals the key under the member's id: the passphrase, then the look      *)
(* whether the slot is free, then the blob added.                          *)
CheckAgain(p, w) ==
  /\ Resealing(p, "gone")
  /\ IF Found("id")
     THEN Return(p)
     ELSE Set(p, [cmd |-> "reseal", step |-> "adding", key |-> job[p].key,
                  temp |-> job[p].temp, by |-> w])
  /\ UNCHANGED <<blob, keys, history>>

(* macOS's add fails when the slot has been filled since the look; the     *)
(* kernel's updates the key in place.                                      *)
Add(p) ==
  /\ job[p].step = "adding"
  /\ IF Backend = "macos" /\ Found("id")
     THEN Return(p) /\ UNCHANGED <<blob, given>>
     ELSE /\ blob' = [blob EXCEPT !["id"] = [key |-> job[p].key, by |-> job[p].by]]
          /\ IF job[p].cmd = "new"
             THEN /\ Return(p)
                  /\ given' = given \cup {job[p].key}
             ELSE /\ Set(p, [job[p] EXCEPT !.step = "added"])
                  /\ UNCHANGED given
  /\ UNCHANGED <<keys, dropped, known>>

(* Deletes the staged blob; a failure to is not reported.                  *)
DropStaged(p) ==
  /\ Resealing(p, "added")
  /\ blob' = [blob EXCEPT ![job[p].temp] = None]
  /\ Return(p)
  /\ UNCHANGED <<keys, history>>

-----------------------------------------------------------------------------
(* The other commands, and failures.                                       *)

(* key new: a fresh key, sealed as above.                                  *)
New(p, w) ==
  /\ job[p] = Idle
  /\ keys < MaxKeys
  /\ ~Found("id")
  /\ keys' = keys + 1
  /\ Set(p, [cmd |-> "new", step |-> "adding", key |-> keys + 1,
             temp |-> None, by |-> w])
  /\ UNCHANGED <<blob, history>>

(* key delete.                                                             *)
Delete(p) ==
  /\ job[p] = Idle
  /\ Quiet(p)
  /\ Found("id")
  /\ dropped' = dropped \cup {blob["id"].key}
  /\ blob' = [blob EXCEPT !["id"] = None]
  /\ UNCHANGED <<job, keys, given, known>>

(* A command that is killed, or gives up because the keychain or the       *)
(* prompt reports an error, leaves everything as it is.                    *)
Stop(p) ==
  /\ job[p] # Idle
  /\ Return(p)
  /\ UNCHANGED <<blob, keys, history>>

Next ==
  \E p \in Process :
    \/ \E w \in Pass : \/ Read(p, w) \/ Stage(p, w) \/ Verify(p, w)
                       \/ CheckAgain(p, w) \/ New(p, w)
    \/ DeleteOld(p)
    \/ Add(p)
    \/ DropStaged(p)
    \/ Delete(p)
    \/ Stop(p)

Spec == Init /\ [][Next]_vars

-----------------------------------------------------------------------------
(* What a copy in slot s is worth: the key k, under a passphrase that is   *)
(* known to open it, or under none.                                        *)
Opens(s, k) == Found(s) /\ blob[s].key = k /\ blob[s].by \in known \cup {Raw}

(* A key that was sealed and not deleted by key delete is under the        *)
(* member's id, or a copy that has been verified to open is under a        *)
(* staging id (the promise of Reseal's comment), at every step of every    *)
(* command, after every failure and kill.                                  *)
KeyKept ==
  \A k \in given \ dropped :
    \/ Found("id") /\ blob["id"].key = k
    \/ \E t \in Temp : Opens(t, k)
=============================================================================
