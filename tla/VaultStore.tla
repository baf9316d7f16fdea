----------------------------- MODULE VaultStore -----------------------------
(***************************************************************************)
(* The secrets store (.cifra/secrets.enc) as a value, and the pure code    *)
(* that works on it: Upsert and Delete (internal/vault/secrets.go), the    *)
(* secret-level 3-way merge shared by `cifra pull` and the git merge       *)
(* driver (internal/vault/merge.go), and the recipient bookkeeping that    *)
(* sealEntry and rewrapStore do (cmd/cifra/secrets_common.go, push.go).    *)
(*                                                                         *)
(* A Name stands for an entry identity, the (name, kind) pair of entryKey. *)
(* A store maps each Name to its entry or to Absent.  Of an entry the      *)
(* model keeps what the code compares: the stamp UpdatedAt, and for every  *)
(* recipient ID the generation of the public key its data key is wrapped   *)
(* to (0 when the ID is not in e.Recipients).  Entry.Recipients and the    *)
(* envelope's blocks are built from one recipient list, position by        *)
(* position, so a single function stands for both.                         *)
(***************************************************************************)
EXTENDS Naturals, FiniteSets

CONSTANTS Name,      \* entry identities: (name, kind) pairs
          ID,        \* recipient identities, e.g. alice@example.com
          Absent,    \* no entry of that name in the store
          Conflict   \* mergeEntry's third result: an irresolvable entry

(* A recipients file, or the wraps of one envelope: the generation of the  *)
(* key held for each ID, 0 for none.                                       *)
Roster == [ID -> Nat]
NoOne  == [i \in ID |-> 0]
Ids(r) == {i \in ID : r[i] # 0}

Entry == [stamp : Nat, wraps : Roster]
Store == [Name -> Entry \cup {Absent}]

(* An entry is a record and none of the two markers is one.                *)
ASSUME MarkersAssumption ==
  /\ Absent \notin Entry
  /\ Conflict \notin Entry
  /\ Absent # Conflict

EmptyStore == [n \in Name |-> Absent]
Present(s) == {n \in Name : s[n] # Absent}

(* Entry.Recipients *)
Recipients(e) == Ids(e.wraps)

(* sealEntry: a fresh data key wrapped to every recipient of the roster.   *)
SealEntrySkewed(now, r) == [stamp |-> now + 1, wraps |-> r]
SealEntry(now, r) == [stamp |-> now, wraps |-> r]

(* Store.Upsert, for each of the names of one command (`cifra import`      *)
(* upserts every variable of a dotenv file before it saves once).          *)
Upsert(s, names, e) == [n \in Name |-> IF n \in names THEN e ELSE s[n]]

(* Store.Delete *)
Delete(s, name) == [s EXCEPT ![name] = Absent]

-----------------------------------------------------------------------------
(* The 3-way merge.  sameEntry compares UpdatedAt and nothing else.        *)

SameEntryAnything(x, y) == TRUE
SameEntry(x, y) == x.stamp = y.stamp

(* A merge that lets the local side win where the code reports a conflict, *)
(* one that keeps an entry the other side deleted, and one that prefers a  *)
(* stale local entry to the other side's change.                           *)
MergeEntryOursWins(b, o, t) == IF o # Absent THEN o ELSE t
MergeEntryNoDeletion(b, o, t) ==
  CASE o = Absent -> t
    [] t = Absent -> o
    [] OTHER -> IF b # Absent /\ SameEntry(b, o) THEN t
                ELSE IF SameEntry(o, t) \/ (b # Absent /\ SameEntry(b, t)) THEN o
                ELSE Conflict
MergeEntryStale(b, o, t) ==
  CASE b = Absent -> IF o = Absent THEN t
                     ELSE IF t = Absent \/ SameEntry(o, t) THEN o ELSE Conflict
    [] o = Absent \/ t = Absent -> Absent
    [] OTHER -> o

MergeEntry(b, o, t) ==
  CASE b = Absent /\ t = Absent -> o
    [] b = Absent /\ o = Absent /\ t # Absent -> t
    [] b = Absent /\ o # Absent /\ t # Absent ->
         IF SameEntry(o, t) THEN o ELSE Conflict
    [] b # Absent /\ o = Absent /\ t = Absent -> Absent
    [] b # Absent /\ o # Absent /\ t = Absent ->
         IF SameEntry(b, o) THEN Absent ELSE Conflict
    [] b # Absent /\ o = Absent /\ t # Absent ->
         IF SameEntry(b, t) THEN Absent ELSE Conflict
    [] OTHER ->
         CASE SameEntry(b, o) /\ SameEntry(b, t) -> b
           [] ~SameEntry(b, o) /\ SameEntry(b, t) -> o
           [] SameEntry(b, o) /\ ~SameEntry(b, t) -> t
           [] OTHER -> IF SameEntry(o, t) THEN o ELSE Conflict

(* MergeStores: the conflicting names, and the merged store, which the     *)
(* callers use only when there are none.                                   *)
Conflicts(b, o, t) == {n \in Name : MergeEntry(b[n], o[n], t[n]) = Conflict}
MergeStores(b, o, t) ==
  [n \in Name |-> IF n \in Conflicts(b, o, t) THEN Absent
                  ELSE MergeEntry(b[n], o[n], t[n])]

(* recipientDropWarnings, collected over the names: mergeEntry asks for it *)
(* when exactly one side changed an entry all three stores hold.           *)
LostReaders(before, after) == Recipients(before) \ Recipients(after)
DropWarningsOursOnly(b, o, t) ==
  {w \in Name \X ID :
     LET n == w[1]
     IN /\ Absent \notin {b[n], o[n], t[n]}
        /\ SameEntry(b[n], t[n]) /\ ~SameEntry(b[n], o[n])
        /\ w[2] \in LostReaders(b[n], o[n])}
DropWarnings(b, o, t) ==
  {w \in Name \X ID :
     LET n == w[1]
     IN /\ Absent \notin {b[n], o[n], t[n]}
        /\ SameEntry(b[n], o[n]) # SameEntry(b[n], t[n])
        /\ w[2] \in LostReaders(b[n], IF SameEntry(b[n], o[n]) THEN t[n] ELSE o[n])}

-----------------------------------------------------------------------------
(* Re-wrapping for the current recipients (push).                          *)

(* recipientSetsEqual, which looks at the IDs only.                        *)
SameRecipientsCovered(e, r) == Ids(r) \subseteq Recipients(e)
SameRecipients(e, r) == Recipients(e) = Ids(r)

(* rewrapNeeded: the entries rewrapStore has to wrap again.                *)
OutOfStep(s, r) == {n \in Present(s) : ~SameRecipients(s[n], r)}

(* recoverDEK succeeds for the key of generation g held under i.           *)
CanOpen(e, i, g) == g # 0 /\ e.wraps[i] = g

(* rewrapStore, when every envelope it has to wrap again can be opened.    *)
Rewrap(s, r, now) ==
  [n \in Name |-> IF n \in OutOfStep(s, r) THEN [stamp |-> now, wraps |-> r]
                  ELSE s[n]]
=============================================================================
