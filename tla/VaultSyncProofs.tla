-------------------------- MODULE VaultSyncProofs ---------------------------
(***************************************************************************)
(* What VaultSync guarantees for every team, set of secrets and bound.     *)
(***************************************************************************)
EXTENDS VaultSync, TLAPS

(* Time passes: what was a vault stays one.                                *)
LEMMA Later ==
  ASSUME clock \in Nat, clock' \in Nat, clock <= clock'
  PROVE  Vault \subseteq Vault' /\ Merge \subseteq Merge'
<1>1. 1..clock \subseteq 1..clock'
  OBVIOUS
<1>2. [stamp : 1..clock, wraps : Roster] \cup {Absent}
        \subseteq [stamp : 1..clock', wraps : Roster] \cup {Absent}
  BY <1>1
<1>3. Sealed \subseteq Sealed'
  BY <1>2 DEF Sealed
<1>4. Vault \subseteq Vault'
  BY <1>3 DEF Vault
<1>5. Merge \subseteq Merge'
  BY <1>4 DEF Merge
<1> QED
  BY <1>4, <1>5

(* The files as the commands read them.                                    *)
LEMMA ReadTypes ==
  ASSUME clock \in Nat, NEW v \in Vault
  PROVE  /\ AsStore(v.store) \in Sealed
         /\ AsRoster(v.roster) \in Roster
         /\ Versions(v) \subseteq Name \X (1..clock)
<1>1. EmptyStore \in Sealed /\ NoOne \in Roster
  BY DEF EmptyStore, Sealed, NoOne, Roster
<1>2. AsStore(v.store) \in Sealed /\ AsRoster(v.roster) \in Roster
  BY <1>1 DEF AsStore, AsRoster, Vault
<1>3. \A n \in Present(AsStore(v.store)) : AsStore(v.store)[n].stamp \in 1..clock
  BY <1>2 DEF Present, Sealed
<1>4. Present(AsStore(v.store)) \subseteq Name
  BY DEF Present
<1> QED
  BY <1>2, <1>3, <1>4 DEF Versions

LEMMA VersionsLater ==
  ASSUME clock' \in Nat, NEW v \in Vault'
  PROVE  Versions(v) \subseteq Name \X (1..clock')
<1>1. EmptyStore \in Sealed'
  BY DEF EmptyStore, Sealed
<1>2. AsStore(v.store) \in Sealed'
  BY <1>1 DEF AsStore, Vault
<1>3. \A n \in Present(AsStore(v.store)) : n \in Name /\ AsStore(v.store)[n].stamp \in 1..clock'
  BY <1>2 DEF Present, Sealed
<1> QED
  BY <1>3 DEF Versions

(* No file marker is a store or a roster.                                  *)
LEMMA Markers ==
  ASSUME clock \in Nat
  PROVE  /\ NoFile \notin Sealed /\ Broken \notin Sealed
         /\ NoFile \notin Roster /\ Broken \notin Roster
<1>1. [stamp : 1..clock, wraps : Roster] \cup {Absent} \subseteq Entry \cup {Absent}
  BY DEF Entry
<1>2. Sealed \subseteq Store
  BY <1>1 DEF Sealed, Store
<1> QED
  BY <1>2, FileAssumption

(* A merge of stores is a store: each entry of it is one of the three.     *)
LEMMA MergeStoresType ==
  ASSUME NEW b \in Sealed, NEW o \in Sealed, NEW t \in Sealed
  PROVE  MergeStores(b, o, t) \in Sealed
<1> DEFINE Slot == [stamp : 1..clock, wraps : Roster] \cup {Absent}
<1>1. ASSUME NEW n \in Name
      PROVE  MergeEntry(b[n], o[n], t[n]) \in {b[n], o[n], t[n], Absent, Conflict}
  BY DEF MergeEntry
<1>2. \A n \in Name : b[n] \in Slot /\ o[n] \in Slot /\ t[n] \in Slot
  BY DEF Sealed
<1>3. \A n \in Name :
        (IF n \in Conflicts(b, o, t) THEN Absent ELSE MergeEntry(b[n], o[n], t[n])) \in Slot
  BY <1>1, <1>2 DEF Conflicts
<1> QED
  BY <1>3 DEF MergeStores, Sealed

LEMMA MergedType ==
  ASSUME TypeOK, NEW c \in Clone, NEW t \in Vault
  PROVE  Merged(c, t) \in Vault
<1>1. head[c] \in Vault /\ base[c] \in Vault /\ clock \in Nat
  BY DEF TypeOK
<1>2. MergedStore(c, t) \in Sealed
  BY <1>1, ReadTypes, MergeStoresType DEF MergedStore
<1>3. MergedRoster(c, t) \in Roster \cup {NoFile, Broken}
  <2>1. AsRoster(t.roster) \in Roster /\ AsRoster(head[c].roster) \in Roster
    BY <1>1, ReadTypes
  <2> QED
    BY <2>1 DEF MergedRoster, Roster
<1> QED
  BY <1>1, <1>2, <1>3 DEF Merged, Vault

LEMMA CleanedType ==
  ASSUME TypeOK, NEW c \in Clone
  PROVE  Cleaned(c) \in Vault
BY DEF TypeOK, Cleaned, Vault

(* A merge that stops takes the store from one side or from their merge,   *)
(* or corrupts it; when only the store is open, git could merge the        *)
(* recipients file.                                                        *)
LEMMA WhatStops ==
  ASSUME NEW c \in Clone, MergeStops(c)
  PROVE  \E tree \in {Cleaned(c), work[c]}, unmerged \in SUBSET File :
           \E store \in {head[c].store, Broken, Merged(c, remote).store, tree.store} :
             /\ LeaveMerge(c, tree, unmerged, store)
             /\ unmerged = {"store"} /\ BothChanged(c, "roster", remote)
                  => RosterMergeable(c, remote)
<1>1. ASSUME NEW tree, NEW u \in SUBSET File, NEW store \in StoresLeft(c, tree, u)
      PROVE  store \in {head[c].store, Broken, Merged(c, remote).store, tree.store}
  BY <1>1 DEF StoresLeft
<1>2. ASSUME NEW u \in SUBSET File, StopsAt(c, u)
      PROVE  u = {"store"} /\ BothChanged(c, "roster", remote) => RosterMergeable(c, remote)
  BY <1>2 DEF StopsAt
<1>3. CASE GitPullStops(c)
  <2>1. PICK u \in SUBSET File : \E store \in StoresLeft(c, work[c], u) :
          StopsAt(c, u) /\ LeaveMerge(c, work[c], u, store)
    BY <1>3 DEF GitPullStops
  <2> QED
    BY <1>1, <1>2, <2>1
<1>4. CASE PullStops(c)
  <2>1. CASE \E u \in SUBSET File : \E store \in StoresLeft(c, Cleaned(c), u) :
               StopsAt(c, u) /\ LeaveMerge(c, Cleaned(c), u, store)
    BY <1>1, <1>2, <2>1
  <2>2. CASE /\ StopsAt(c, {"store"})
             /\ \E unmerged \in {{"store"}, {}} :
                  LeaveMerge(c, Cleaned(c), unmerged, MergedStore(c, remote))
    <3>1. MergedStore(c, remote) = Merged(c, remote).store
      BY <2>2 DEF StopsAt, Merged
    <3>2. {"store"} \in SUBSET File /\ {} \in SUBSET File
      BY DEF File
    <3>3. BothChanged(c, "roster", remote) => RosterMergeable(c, remote)
      BY <1>2, <2>2, <3>2
    <3> QED
      BY <2>2, <3>1, <3>2, <3>3
  <2> QED
    BY <1>4, <2>1, <2>2 DEF PullStops
<1> QED
  BY <1>3, <1>4 DEF MergeStops

(* push: what is re-wrapped is stamped with the time of the push.          *)
LEMMA RewrappedType ==
  ASSUME TypeOK, NEW c \in Clone, Commit(c)
  PROVE  /\ clock' \in Nat /\ clock <= clock'
         /\ Rewrapped(c) \in Vault'
<1>1. clock \in Nat /\ work[c] \in Vault
  BY DEF TypeOK
<1>2. CASE ToRewrap(c) = {}
  BY <1>1, <1>2, Later DEF Commit, Rewrapped
<1>3. CASE ToRewrap(c) # {}
  <2>1. clock' = clock + 1
    BY <1>3 DEF Commit
  <2>2. work[c] \in Vault'
    BY <1>1, <2>1, Later
  <2>3. AsStore(work[c].store) \in Sealed' /\ AsRoster(work[c].roster) \in Roster
    BY <1>1, <2>1, <2>2, ReadTypes, Later DEF AsStore, Vault, Sealed, EmptyStore
  <2>4. Rewrap(AsStore(work[c].store), AsRoster(work[c].roster), clock + 1) \in Sealed'
    BY <1>1, <2>1, <2>3 DEF Rewrap, Sealed
  <2> QED
    BY <1>1, <1>3, <2>1, <2>2, <2>4 DEF Rewrapped, Vault
<1> QED
  BY <1>2, <1>3

(* The history variables stay within the versions sealed so far.           *)
LEMMA RecordTypes ==
  ASSUME TypeOK, clock' \in Nat, clock <= clock',
         work' \in [Clone -> Vault'], remote' \in Vault', Record
  PROVE  /\ seen' \in [Clone -> SUBSET (Name \X (1..clock'))]
         /\ retired' \subseteq Name \X (1..clock')
<1>1. 1..clock \subseteq 1..clock'
  BY DEF TypeOK
<1>2. \A c \in Clone : Versions(work'[c]) \subseteq Name \X (1..clock')
  <2> SUFFICES ASSUME NEW c \in Clone
               PROVE  Versions(work'[c]) \subseteq Name \X (1..clock')
    OBVIOUS
  <2>1. work'[c] \in Vault'
    OBVIOUS
  <2> QED
    BY <2>1, VersionsLater
<1>3. \A c \in Clone : seen[c] \cup Versions(work'[c]) \subseteq Name \X (1..clock')
  BY <1>1, <1>2 DEF TypeOK
<1>4. Versions(remote) \subseteq Name \X (1..clock')
  BY <1>1, ReadTypes DEF TypeOK
<1>5. retired' \subseteq Name \X (1..clock')
  BY <1>1, <1>4 DEF TypeOK, Record
<1> QED
  BY <1>3, <1>5 DEF Record

-----------------------------------------------------------------------------
(* Every variable keeps its type, and no entry is stamped with a time that *)
(* has not come.                                                           *)
THEOREM TypeOKThm == Spec => []TypeOK
<1>1. Init => TypeOK
  <2>1. NoOne \in Roster /\ Published \in Roster
    BY DEF NoOne, Published, Roster
  <2>2. ASSUME NEW v \in Vault, NEW keys \in Roster, InitWith(v, keys)
        PROVE  TypeOK
    <3>1. clock = 0 /\ clock \in Nat
      BY <2>2 DEF InitWith
    <3>2. NoMerge \in Merge
      BY DEF NoMerge, Merge, NoVault, Vault
    <3>3. keychain \in [Clone -> Roster]
      BY <2>2 DEF InitWith, Roster
    <3>4. registered \subseteq Clone
      BY <2>2, CloneAssumption DEF InitWith
    <3> QED
      BY <2>2, <3>1, <3>2, <3>3, <3>4 DEF InitWith, TypeOK
  <2>3. NoVault \in Vault /\ [store |-> NoFile, roster |-> Published] \in Vault
    BY <2>1 DEF NoVault, Vault
  <2> QED
    BY <2>1, <2>2, <2>3 DEF Init
<1>2. TypeOK /\ [Next]_vars => TypeOK'
  <2> SUFFICES ASSUME TypeOK, [Next]_vars PROVE TypeOK'
    OBVIOUS
  <2>a. /\ work \in [Clone -> Vault] /\ head \in [Clone -> Vault]
        /\ base \in [Clone -> Vault] /\ remote \in Vault
        /\ ahead \in [Clone -> BOOLEAN] /\ stale \in [Clone -> BOOLEAN]
        /\ merge \in [Clone -> Merge] /\ registered \subseteq Clone
        /\ keychain \in [Clone -> Roster] /\ gen \in Roster
        /\ clock \in Nat /\ stops \in Nat
    BY DEF TypeOK
  <2>b. NoOne \in Roster
    BY DEF NoOne, Roster
  (* A command that edits work or the keychain and takes no time.          *)
  <2>c. ASSUME UNCHANGED <<git, clock>>, work' \in [Clone -> Vault],
               registered' \subseteq Clone, keychain' \in [Clone -> Roster],
               gen' \in Roster, stops' \in Nat, Record
        PROVE  TypeOK'
    <3>1. Vault' = Vault /\ Merge' = Merge /\ clock' = clock
      BY <2>c DEF Vault, Merge, Sealed
    <3>2. /\ seen' \in [Clone -> SUBSET (Name \X (1..clock'))]
          /\ retired' \subseteq Name \X (1..clock')
      BY <2>a, <2>c, <3>1, RecordTypes DEF git
    <3> QED
      BY <2>a, <2>c, <3>1, <3>2 DEF TypeOK, git
  <2>1. ASSUME NEW c \in Clone, InitVault(c) PROVE TypeOK'
    <3>1. work' \in [Clone -> Vault]
      BY <2>1, <2>a, <2>b DEF InitVault, SetRoster, Vault
    <3> QED
      BY <2>1, <2>a, <2>c, <3>1 DEF InitVault
  <2>2. ASSUME NEW c \in Clone, InitUpgrade(c) PROVE TypeOK'
    BY <2>2, <2>a, <2>c DEF InitUpgrade
  <2>3. ASSUME NEW c \in Clone, NEW names \in SUBSET Name, Seal(c, names) PROVE TypeOK'
    <3>1. clock' = clock + 1 /\ clock' \in Nat /\ clock <= clock'
      BY <2>3, <2>a DEF Seal
    <3>2. Vault \subseteq Vault' /\ Merge \subseteq Merge'
      BY <2>a, <3>1, Later
    <3>3. work[c] \in Vault' /\ work[c].roster \in Roster /\ AsStore(work[c].store) \in Sealed'
      <4>1. work[c] \in Vault' /\ work[c] \in Vault
        BY <2>a, <3>2
      <4>2. work[c].roster \in Roster
        BY <2>3, <4>1 DEF Seal, Initialized, Readable, Vault
      <4>3. AsStore(work[c].store) \in Sealed'
        BY <4>1 DEF AsStore, Vault, Sealed, EmptyStore
      <4> QED
        BY <4>1, <4>2, <4>3
    <3>4. SealEntry(clock', work[c].roster) \in [stamp : 1..clock', wraps : Roster]
      BY <2>a, <3>1, <3>3 DEF SealEntry
    <3>5. Upsert(AsStore(work[c].store), names, SealEntry(clock', work[c].roster)) \in Sealed'
      BY <3>3, <3>4 DEF Upsert, Sealed
    <3>6. work' \in [Clone -> Vault']
      BY <2>3, <2>a, <3>2, <3>5 DEF Seal, SetStore, Vault
    <3>7. UNCHANGED <<git, machine>> /\ Record
      BY <2>3 DEF Seal
    <3>8. remote' \in Vault'
      BY <2>a, <3>2, <3>7 DEF git
    <3>9. /\ seen' \in [Clone -> SUBSET (Name \X (1..clock'))]
          /\ retired' \subseteq Name \X (1..clock')
      BY <3>1, <3>6, <3>7, <3>8, RecordTypes
    <3> QED
      BY <2>a, <3>1, <3>2, <3>6, <3>7, <3>9 DEF TypeOK, git, machine
  <2>4. ASSUME NEW c \in Clone, NEW name \in Name, Rotate(c, name) PROVE TypeOK'
    BY <2>3, <2>4 DEF Rotate
  <2>5. ASSUME NEW c \in Clone, NEW name \in Name, Rm(c, name) PROVE TypeOK'
    <3>1. work[c] \in Vault /\ work[c].store \in Sealed
      <4>1. Present(EmptyStore) = {}
        BY DEF Present, EmptyStore
      <4> QED
        BY <2>5, <2>a, <4>1 DEF Rm, AsStore, Vault
    <3>2. Delete(work[c].store, name) \in Sealed
      BY <3>1 DEF Delete, Sealed
    <3>3. work' \in [Clone -> Vault]
      BY <2>5, <2>a, <3>1, <3>2 DEF Rm, SetStore, Vault
    <3> QED
      BY <2>5, <2>a, <2>c, <3>3 DEF Rm, machine
  (* Commands that rewrite the recipients file, where there is one.        *)
  <2>h. ASSUME NEW c \in Clone, NEW r \in Roster, SetRoster(c, r)
        PROVE  work' \in [Clone -> Vault]
    BY <2>h, <2>a DEF SetRoster, Vault
  <2>i. ASSUME NEW c \in Clone, work[c].roster \notin {NoFile, Broken}
        PROVE  work[c].roster \in Roster
    BY <2>i, <2>a DEF Vault
  <2>6. ASSUME NEW c \in Clone, NEW i \in ID, KeyNew(c, i) PROVE TypeOK'
    <3>1. gen' \in Roster /\ gen'[i] \in Nat /\ keychain' \in [Clone -> Roster]
      BY <2>6, <2>a DEF KeyNew, Roster
    <3>2. work' \in [Clone -> Vault]
      <4>1. CASE work[c].roster \in {NoFile, Broken}
        BY <2>6, <2>a, <4>1 DEF KeyNew
      <4>2. CASE work[c].roster \notin {NoFile, Broken}
        <5>1. AddRecipient(work[c].roster, i, gen'[i]) \in Roster
          BY <2>i, <3>1, <4>2 DEF AddRecipient, Roster
        <5> QED
          BY <2>6, <2>h, <4>2, <5>1 DEF KeyNew
      <4> QED
        BY <4>1, <4>2
    <3> QED
      BY <2>6, <2>a, <2>c, <3>1, <3>2 DEF KeyNew
  <2>7. ASSUME NEW c \in Clone, NEW i \in ID, NEW g \in Nat, KeyImport(c, i, g) PROVE TypeOK'
    <3>1. work' \in [Clone -> Vault]
      <4>1. AddRecipient(work[c].roster, i, g) \in Roster
        BY <2>7, <2>i DEF KeyImport, AddRecipient, Roster
      <4> QED
        BY <2>7, <2>h, <4>1 DEF KeyImport
    <3> QED
      BY <2>7, <2>a, <2>c, <3>1 DEF KeyImport, machine
  <2>8. ASSUME NEW c \in Clone, NEW i \in ID, NEW keep \in BOOLEAN, KeyDelete(c, i, keep)
        PROVE  TypeOK'
    <3>1. keychain' \in [Clone -> Roster]
      BY <2>8, <2>a DEF KeyDelete, Roster
    <3>2. work' \in [Clone -> Vault]
      <4>1. CASE keep \/ work[c].roster \in {NoFile, Broken}
        BY <2>8, <2>a, <4>1 DEF KeyDelete
      <4>2. CASE ~keep /\ work[c].roster \notin {NoFile, Broken}
        <5>1. [work[c].roster EXCEPT ![i] = 0] \in Roster
          BY <2>i, <4>2 DEF Roster
        <5> QED
          BY <2>8, <2>h, <4>2, <5>1 DEF KeyDelete
      <4> QED
        BY <4>1, <4>2
    <3> QED
      BY <2>8, <2>a, <2>c, <3>1, <3>2 DEF KeyDelete
  <2>d. NoMerge \in Merge
    BY DEF NoMerge, Merge, NoVault, Vault
  (* What a commit writes.                                                 *)
  <2>e. ASSUME NEW c \in Clone, Commit(c)
        PROVE  /\ clock' \in Nat /\ clock <= clock'
               /\ Vault \subseteq Vault' /\ Merge \subseteq Merge'
               /\ work' \in [Clone -> Vault'] /\ head' \in [Clone -> Vault']
               /\ head'[c] \in Vault' /\ UNCHANGED machine
    <3>1. clock' \in Nat /\ clock <= clock' /\ Rewrapped(c) \in Vault'
      BY <2>e, RewrappedType
    <3>2. Vault \subseteq Vault' /\ Merge \subseteq Merge'
      BY <2>a, <3>1, Later
    <3> QED
      BY <2>a, <2>e, <3>1, <3>2 DEF Commit
  <2>9. ASSUME NEW c \in Clone, PushAccepted(c) PROVE TypeOK'
    <3>1. Commit(c) /\ Record
      BY <2>9 DEF PushAccepted
    <3>2. /\ remote' \in Vault' /\ base' \in [Clone -> Vault']
          /\ ahead' \in [Clone -> BOOLEAN] /\ stale' \in [Clone -> BOOLEAN]
      BY <2>9, <2>a, <2>e, <3>1 DEF PushAccepted
    <3>3. merge' \in [Clone -> Merge']
      <4>1. NoMerge \in Merge'
        BY <2>d, <2>e, <3>1
      <4>2. \A d \in Clone, b \in BOOLEAN : [merge[d] EXCEPT !.fresh = b] \in Merge'
        BY <2>a, <2>e, <3>1, SMTT(60) DEF Merge
      <4>3. \A d \in Clone : merge[d].fresh \in BOOLEAN
        BY <2>a DEF Merge
      <4> QED
        BY <2>9, <4>1, <4>2, <4>3 DEF PushAccepted
    <3>4. /\ seen' \in [Clone -> SUBSET (Name \X (1..clock'))]
          /\ retired' \subseteq Name \X (1..clock')
      BY <2>e, <3>1, <3>2, RecordTypes
    <3> QED
      BY <2>a, <2>e, <3>1, <3>2, <3>3, <3>4 DEF TypeOK, machine
  <2>10. ASSUME NEW c \in Clone, PushFails(c) PROVE TypeOK'
    <3>1. Commit(c) /\ Record /\ remote' = remote
      BY <2>10 DEF PushFails
    <3>2. ahead' \in [Clone -> BOOLEAN] /\ stale' \in [Clone -> BOOLEAN]
      <4>1. merge[c].fresh \in BOOLEAN
        BY <2>a DEF Merge
      <4>2. stale' = stale \/ stale' = [stale EXCEPT ![c] = ~merge[c].fresh]
        BY <2>10 DEF PushFails
      <4> QED
        BY <2>10, <2>a, <4>1, <4>2 DEF PushFails
    <3>3. base' \in [Clone -> Vault']
      <4>1. merge[c].theirs \in Vault'
        BY <2>a, <2>e, <3>1 DEF Merge
      <4> QED
        BY <2>10, <2>a, <2>e, <3>1, <4>1 DEF PushFails
    <3>4. merge' \in [Clone -> Merge']
      <4>1. NoMerge \in Merge' /\ [merge[c] EXCEPT !.unmerged = {}] \in Merge'
        BY <2>a, <2>d, <2>e, <3>1 DEF Merge
      <4> QED
        BY <2>10, <2>a, <2>e, <3>1, <4>1 DEF PushFails
    <3>5. remote' \in Vault'
      BY <2>a, <2>e, <3>1
    <3>6. /\ seen' \in [Clone -> SUBSET (Name \X (1..clock'))]
          /\ retired' \subseteq Name \X (1..clock')
      BY <2>e, <3>1, <3>5, RecordTypes
    <3> QED
      BY <2>a, <2>e, <3>1, <3>2, <3>3, <3>4, <3>5, <3>6 DEF TypeOK, machine
  (* A pull takes no time and touches neither the remote nor the keys.     *)
  <2>f. ASSUME UNCHANGED <<ahead, remote, registered, keychain, gen, clock>>, stops' \in Nat,
               work' \in [Clone -> Vault], head' \in [Clone -> Vault],
               base' \in [Clone -> Vault], stale' \in [Clone -> BOOLEAN],
               merge' \in [Clone -> Merge], Record
        PROVE  TypeOK'
    <3>1. Vault' = Vault /\ Merge' = Merge /\ clock' = clock
      BY <2>f DEF Vault, Merge, Sealed
    <3>2. /\ seen' \in [Clone -> SUBSET (Name \X (1..clock'))]
          /\ retired' \subseteq Name \X (1..clock')
      BY <2>a, <2>f, <3>1, RecordTypes
    <3> QED
      BY <2>a, <2>f, <3>1, <3>2 DEF TypeOK
  <2>11. ASSUME NEW c \in Clone, PullWithoutMerge(c) PROVE TypeOK'
    BY <2>11, <2>a, <2>f, CleanedType DEF PullWithoutMerge, git, machine
  (* Concluding a merge of a vault.                                        *)
  <2>g. ASSUME NEW c \in Clone, NEW t \in Vault, NEW v \in Vault, Conclude(c, t, v)
        PROVE  /\ work' \in [Clone -> Vault] /\ head' \in [Clone -> Vault]
               /\ base' \in [Clone -> Vault]
    BY <2>g, <2>a, CleanedType DEF Conclude, Vault
  <2>12. ASSUME NEW c \in Clone, PullMerges(c) PROVE TypeOK'
    <3>1. /\ work' \in [Clone -> Vault] /\ head' \in [Clone -> Vault]
          /\ base' \in [Clone -> Vault]
      BY <2>12, <2>a, <2>g, MergedType DEF PullMerges
    <3> QED
      BY <2>12, <2>a, <2>f, <3>1 DEF PullMerges, machine
  <2>16. ASSUME NEW c \in Clone, PullCorrupts(c) PROVE TypeOK'
    <3>1. [Merged(c, remote) EXCEPT !.store = Broken] \in Vault
      BY <2>a, MergedType DEF Vault
    <3>2. /\ work' \in [Clone -> Vault] /\ head' \in [Clone -> Vault]
          /\ base' \in [Clone -> Vault]
      BY <2>16, <2>a, <2>g, <3>1 DEF PullCorrupts
    <3> QED
      BY <2>16, <2>a, <2>f, <3>2 DEF PullCorrupts, machine
  <2>13. ASSUME NEW c \in Clone, MergeStops(c) PROVE TypeOK'
    <3>1. PICK tree \in {Cleaned(c), work[c]}, u \in SUBSET File :
            \E s \in {head[c].store, Broken, Merged(c, remote).store, tree.store} :
              LeaveMerge(c, tree, u, s)
      BY <2>13, WhatStops
    <3>2. PICK s \in {head[c].store, Broken, Merged(c, remote).store, tree.store} :
            LeaveMerge(c, tree, u, s)
      BY <3>1
    <3>3. merge' \in [Clone -> Merge]
      BY <2>a, <3>2 DEF LeaveMerge, Merge, File
    <3>4. work' \in [Clone -> Vault]
      <4>1. Merged(c, remote) \in Vault /\ tree \in Vault /\ head[c] \in Vault
        BY <2>a, MergedType, CleanedType
      <4>2. s \in Sealed \cup {NoFile, Broken}
        BY <4>1 DEF Vault
      <4>3. PICK r : work' = [work EXCEPT ![c] = [store |-> s, roster |-> r]]
                     /\ r \in {Broken, Merged(c, remote).roster, tree.roster}
        BY <3>2 DEF LeaveMerge
      <4>4. [store |-> s, roster |-> r] \in Vault
        BY <4>1, <4>2, <4>3 DEF Vault
      <4> QED
        BY <2>a, <4>3, <4>4
    <3>5. /\ UNCHANGED <<head, base, ahead, stale, remote, registered, keychain, gen, clock>>
          /\ stops' \in Nat /\ Record
      BY <2>a, <3>2 DEF LeaveMerge
    <3> QED
      BY <2>a, <2>f, <3>3, <3>4, <3>5
  <2>14. ASSUME NEW c \in Clone, PullOverMerge(c) PROVE TypeOK'
    <3> DEFINE t == merge[c].theirs
    <3>1. /\ t \in Vault /\ merge[c].fresh \in BOOLEAN
          /\ UNCHANGED <<ahead, remote, machine, clock>> /\ Record
      BY <2>14, <2>a DEF PullOverMerge, Merge
    <3>2. CASE merge[c].unmerged = {}
      BY <2>14, <2>a, <2>f, <3>1, <3>2, CleanedType DEF PullOverMerge, machine
    <3>3. CASE merge[c].unmerged = {"store"} /\ StoreConflicts(c, t) = {}
      <4>1. /\ Conclude(c, t, Merged(c, t))
            /\ merge' = [merge EXCEPT ![c] = NoMerge]
            /\ stale' = [stale EXCEPT ![c] = ~merge[c].fresh]
        BY <2>14, <3>3 DEF PullOverMerge
      <4>2. /\ work' \in [Clone -> Vault] /\ head' \in [Clone -> Vault]
            /\ base' \in [Clone -> Vault]
        BY <2>g, <3>1, <4>1, MergedType
      <4>3. merge' \in [Clone -> Merge] /\ stale' \in [Clone -> BOOLEAN]
        BY <2>a, <2>d, <4>1
      <4> QED
        BY <2>a, <2>f, <3>1, <4>2, <4>3 DEF machine
    <3>4. CASE /\ merge[c].unmerged # {}
               /\ ~(merge[c].unmerged = {"store"} /\ StoreConflicts(c, t) = {})
      <4>1. Abort(c) /\ UNCHANGED <<head, base, stale>>
        BY <2>14, <3>4 DEF PullOverMerge
      <4>2. Cleaned(c) \in Vault /\ head[c] \in Vault
        BY <2>a, CleanedType
      <4>3. work' \in [Clone -> Vault] /\ merge' \in [Clone -> Merge]
        BY <2>a, <2>d, <4>1, <4>2, SMTT(60) DEF Abort, Vault
      <4> QED
        BY <2>a, <2>f, <3>1, <4>1, <4>3 DEF machine
    <3> QED
      BY <3>2, <3>3, <3>4
  <2>15. CASE UNCHANGED vars
    BY <2>15, <2>a DEF vars, git, machine, history, TypeOK, Vault, Merge, Sealed
  <2> QED
    <3>1. MaxGen \in Nat /\ Movers \subseteq ID
      BY BoundAssumption, CloneAssumption
    <3> QED
      BY <2>1, <2>2, <2>3, <2>4, <2>5, <2>6, <2>7, <2>8, <2>9, <2>10, <2>11, <2>12,
         <2>13, <2>14, <2>15, <2>16, <3>1 DEF Next, Command, Push, Pull
<1> QED
  BY <1>1, <1>2, PTL DEF Spec

-----------------------------------------------------------------------------
(* The commands that leave HEAD and the remote as they are.                *)
OnlyEdits(c) ==
  ~(PushAccepted(c) \/ PushFails(c) \/ PullMerges(c) \/ PullCorrupts(c) \/ PullOverMerge(c)
      \/ MergeStops(c))

(* A command works in one clone.                                           *)
LEMMA OthersKeepTheirs ==
  ASSUME TypeOK, NEW c \in Clone, Command(c), NEW d \in Clone, d # c
  PROVE  work'[d] = work[d]
<1>1. work \in [Clone -> Vault]
  BY DEF TypeOK
<1>2. ASSUME NEW v, work' = [work EXCEPT ![c] = v] PROVE work'[d] = work[d]
  BY <1>1, <1>2
<1>3. ASSUME NEW s, SetStore(c, s) PROVE work'[d] = work[d]
  BY <1>1, <1>3 DEF SetStore
<1>4. ASSUME NEW r, SetRoster(c, r) PROVE work'[d] = work[d]
  BY <1>1, <1>4 DEF SetRoster
<1>5. ASSUME NEW names, Seal(c, names) PROVE work'[d] = work[d]
  BY <1>3, <1>5 DEF Seal
<1>6. ASSUME NEW name, Rotate(c, name) \/ Rm(c, name) PROVE work'[d] = work[d]
  BY <1>3, <1>5, <1>6 DEF Rotate, Rm
<1>7. CASE InitVault(c) \/ InitUpgrade(c)
  BY <1>4, <1>7 DEF InitVault, InitUpgrade
<1>8. ASSUME NEW i, KeyNew(c, i) PROVE work'[d] = work[d]
  BY <1>4, <1>8 DEF KeyNew
<1>9. ASSUME NEW i, NEW g, KeyImport(c, i, g) PROVE work'[d] = work[d]
  BY <1>4, <1>9 DEF KeyImport
<1>10. ASSUME NEW i, NEW keep, KeyDelete(c, i, keep) PROVE work'[d] = work[d]
  BY <1>4, <1>10 DEF KeyDelete
<1>11. CASE Push(c)
  BY <1>2, <1>11 DEF Push, PushAccepted, PushFails, Commit
<1>12. ASSUME NEW t, NEW v, Conclude(c, t, v) PROVE work'[d] = work[d]
  BY <1>2, <1>12 DEF Conclude
<1>13. CASE Abort(c)
  BY <1>1, <1>13 DEF Abort
<1>14. CASE Pull(c)
  BY <1>2, <1>12, <1>13, <1>14 DEF Pull, PullWithoutMerge, PullMerges, PullCorrupts, PullOverMerge
<1>15. CASE MergeStops(c)
  BY <1>2, <1>15, WhatStops DEF LeaveMerge
<1> QED
  BY <1>5, <1>6, <1>7, <1>8, <1>9, <1>10, <1>11, <1>14, <1>15 DEF Command

(* Whatever a push commits is sealed for the members its own recipients    *)
(* file names, whether or not anything had to be re-wrapped.               *)
LEMMA RewrappedAligned ==
  ASSUME TypeOK, NEW c \in Clone, Commit(c)
  PROVE  /\ Readable(Rewrapped(c))
         /\ \A n \in Present(AsStore(Rewrapped(c).store)) :
              Recipients(Rewrapped(c).store[n]) = Ids(AsRoster(Rewrapped(c).roster))
<1> DEFINE s == AsStore(work[c].store)
           r == AsRoster(work[c].roster)
<1>1. work[c] \in Vault /\ Readable(work[c]) /\ clock \in Nat
  BY DEF TypeOK, Commit, Prepared
<1>2. Present(EmptyStore) = {}
  BY DEF Present, EmptyStore
<1>3. CASE ToRewrap(c) = {}
  <2>1. Rewrapped(c) = work[c]
    BY <1>3 DEF Rewrapped
  <2>2. \A n \in Present(s) : Recipients(s[n]) = Ids(r)
    BY <1>3 DEF ToRewrap, OutOfStep, SameRecipients
  <2>3. \A n \in Present(s) : s = work[c].store
    BY <1>2 DEF AsStore
  <2> QED
    BY <1>1, <2>1, <2>2, <2>3
<1>4. CASE ToRewrap(c) # {}
  <2>1. /\ Rewrapped(c).store = Rewrap(s, r, clock + 1)
        /\ Rewrapped(c).roster = work[c].roster
    BY <1>1, <1>4 DEF Rewrapped, Vault
  <2>2. Rewrapped(c).store \notin {NoFile, Broken}
    <3>1. Rewrap(s, r, clock + 1) \in Store
      <4>1. s \in Sealed /\ r \in Roster
        BY <1>1, ReadTypes
      <4> QED
        BY <1>1, <4>1 DEF Rewrap, Sealed, Store, Entry
    <3> QED
      BY <2>1, <3>1, FileAssumption
  <2>3. \A n \in Present(Rewrap(s, r, clock + 1)) :
          Recipients(Rewrap(s, r, clock + 1)[n]) = Ids(r)
    <3> SUFFICES ASSUME NEW n \in Name, Rewrap(s, r, clock + 1)[n] # Absent
                 PROVE  Recipients(Rewrap(s, r, clock + 1)[n]) = Ids(r)
      BY DEF Present
    <3>1. CASE n \in OutOfStep(s, r)
      BY <3>1 DEF Rewrap, Recipients
    <3>2. CASE n \notin OutOfStep(s, r)
      <4>1. Rewrap(s, r, clock + 1)[n] = s[n]
        BY <3>2 DEF Rewrap
      <4> QED
        BY <3>2, <4>1 DEF OutOfStep, Present, SameRecipients
    <3> QED
      BY <3>1, <3>2
  <2>4. Readable(Rewrapped(c))
    BY <1>1, <2>1, <2>2 DEF Readable
  <2> QED
    BY <2>1, <2>2, <2>3, <2>4 DEF AsStore
<1> QED
  BY <1>3, <1>4

(* Every secret on the remote is sealed for exactly the members of the     *)
(* recipients file beside it, however many clones edit, merge and push.    *)
THEOREM RemoteAlignedThm == Spec => []RemoteAligned
<1>1. Init => RemoteAligned
  <2>1. Present(EmptyStore) = {}
    BY DEF Present, EmptyStore
  <2> QED
    BY <2>1 DEF Init, InitWith, NoVault, RemoteAligned, AsStore
<1>2. TypeOK /\ RemoteAligned /\ [Next]_vars => RemoteAligned'
  <2> SUFFICES ASSUME TypeOK, RemoteAligned, [Next]_vars PROVE RemoteAligned'
    OBVIOUS
  <2>1. CASE remote' = remote
    BY <2>1 DEF RemoteAligned
  <2>2. ASSUME NEW c \in Clone, PushAccepted(c) PROVE RemoteAligned'
    <3>1. Commit(c) /\ remote' = Rewrapped(c)
      BY <2>2 DEF PushAccepted, Commit, TypeOK
    <3> QED
      BY <3>1, RewrappedAligned DEF RemoteAligned
  <2>3. ASSUME NEW c \in Clone, Command(c), ~PushAccepted(c) PROVE remote' = remote
    <3>1. MergeStops(c) => remote' = remote
      BY WhatStops DEF LeaveMerge
    <3> QED
      BY <2>3, <3>1 DEF Command, Push, Pull, InitVault, InitUpgrade, Rotate, Seal, Rm, KeyNew,
                KeyImport, KeyDelete, PushFails, PullWithoutMerge, PullMerges, PullCorrupts,
                PullOverMerge, git
  <2> QED
    BY <2>1, <2>2, <2>3 DEF Next, vars, git
<1> QED
  BY <1>1, <1>2, TypeOKThm, PTL DEF Spec

-----------------------------------------------------------------------------
(* Why no marker is ever committed: a merge that stops with only the store *)
(* unmerged is one whose recipients file git could merge.  Without it, a   *)
(* pull that resumes a merge could conclude it with markers.  And a clone  *)
(* that was upgraded, or whose checkout asks for the driver, has it by the *)
(* time it pulls, so git never merges its store as text.                   *)
Driven == Declaring \cup Upgraded
DriverInPlace ==
  \A c \in Upgraded : c \in registered \/ ~Initialized(c)

MergesResolvable ==
  \A c \in Clone : merge[c].active =>
    /\ Readable(merge[c].theirs)
    /\ merge[c].unmerged = {"store"} /\ BothChanged(c, "roster", merge[c].theirs)
         => RosterMergeable(c, merge[c].theirs)

LEMMA MergedReadable ==
  ASSUME TypeOK, NEW c \in Clone, NEW t \in Vault, Readable(head[c]), Readable(t),
         BothChanged(c, "roster", t) => RosterMergeable(c, t)
  PROVE  Readable(Merged(c, t))
<1>1. head[c] \in Vault /\ base[c] \in Vault /\ clock \in Nat
  BY DEF TypeOK
<1>2. MergedStore(c, t) # Broken
  BY <1>1, ReadTypes, MergeStoresType, Markers DEF MergedStore
<1>3. BothChanged(c, "roster", t) => MergedRoster(c, t) # Broken
  <2>1. AsRoster(t.roster) \in Roster /\ AsRoster(head[c].roster) \in Roster
    BY <1>1, ReadTypes
  <2>2. BothChanged(c, "roster", t) => MergedRoster(c, t) \in Roster
    BY <2>1 DEF MergedRoster, Roster
  <2> QED
    BY <1>1, <2>2, Markers
<1> QED
  BY <1>2, <1>3 DEF Merged, Readable

(* Only `cifra init` makes a vault where there is none.                    *)
LEMMA OnlyInitStarts ==
  ASSUME TypeOK, NEW c \in Clone, Command(c), ~Initialized(c), ~InitVault(c)
  PROVE  work'[c].roster = NoFile
<1>1. work[c].roster = NoFile /\ NoFile \in {NoFile, Broken} /\ work[c] \in Vault
  BY DEF Initialized, TypeOK
<1>2. ~MayPull(c) /\ ~Prepared(c)
  BY DEF MayPull, Prepared
<1>3. ~Push(c) /\ ~Pull(c)
  BY <1>2 DEF Push, PushAccepted, PushFails, Commit, Pull, PullWithoutMerge, PullMerges,
              PullCorrupts, Mergeable, PullOverMerge
<1>4. ~MergeStops(c)
  BY DEF MergeStops, GitPullStops, PullStops, MayStop
<1>5. ~InitUpgrade(c) /\ \A names : ~Seal(c, names)
  BY DEF InitUpgrade, Seal
<1>6. \A name : ~Rotate(c, name) /\ ~Rm(c, name)
  BY DEF Rotate, Rm
<1>7. \A i, g : ~KeyImport(c, i, g)
  BY <1>1 DEF KeyImport
<1>8. ASSUME NEW i, KeyNew(c, i) PROVE work' = work
  BY <1>1, <1>8 DEF KeyNew
<1>9. ASSUME NEW i, NEW keep, KeyDelete(c, i, keep) PROVE work' = work
  BY <1>1, <1>9 DEF KeyDelete
<1> QED
  BY <1>1, <1>3, <1>4, <1>5, <1>6, <1>7, <1>8, <1>9 DEF Command

LEMMA DriverStays == Spec => []DriverInPlace
<1>1. Init => DriverInPlace
  <2>1. CASE InitWith(NoVault, NoOne)
    BY <2>1, CloneAssumption DEF InitWith, DriverInPlace, Initialized, NoVault
  <2>2. CASE InitWith([store |-> NoFile, roster |-> Published], Published)
    <3>1. Published # NoFile
      BY FileAssumption DEF Published, Roster
    <3>2. [store |-> NoFile, roster |-> Published] # NoVault
      BY <3>1 DEF NoVault
    <3> QED
      BY <2>2, <3>2 DEF InitWith, DriverInPlace
  <2> QED
    BY <2>1, <2>2 DEF Init
<1>2. TypeOK /\ DriverInPlace /\ [Next]_vars => DriverInPlace'
  <2> SUFFICES ASSUME TypeOK, DriverInPlace, [Next]_vars, NEW d \in Upgraded
               PROVE  d \in registered' \/ ~Initialized(d)'
    BY DEF DriverInPlace
  <2>1. CASE UNCHANGED vars
    BY <2>1 DEF vars, machine, DriverInPlace, Initialized
  <2>2. ASSUME NEW c \in Clone, Command(c) PROVE d \in registered' \/ ~Initialized(d)'
    <3>1. registered \subseteq registered'
      <4>1. MergeStops(c) => registered' = registered
        BY WhatStops DEF LeaveMerge
      <4> QED
        BY <2>2, <4>1 DEF Command, Push, Pull, InitVault, InitUpgrade, Rotate, Seal, Rm, KeyNew,
             KeyImport, KeyDelete, PushAccepted, PushFails, Commit, PullWithoutMerge, PullMerges,
             PullCorrupts, PullOverMerge, machine
    <3>2. CASE d \in registered
      BY <3>1, <3>2
    <3>3. CASE d \notin registered /\ d = c
      <4>1. ~Initialized(c)
        BY <3>3 DEF DriverInPlace
      <4>2. CASE InitVault(c)
        BY <3>3, <4>2 DEF InitVault
      <4>3. CASE ~InitVault(c)
        BY <2>2, <3>3, <4>1, <4>3, OnlyInitStarts DEF Initialized
      <4> QED
        BY <4>2, <4>3
    <3>4. CASE d \notin registered /\ d # c
      <4>1. d \in Clone /\ ~Initialized(d)
        BY <3>4, CloneAssumption DEF DriverInPlace
      <4>2. work'[d] = work[d]
        BY <2>2, <3>4, <4>1, OthersKeepTheirs
      <4> QED
        BY <4>1, <4>2 DEF Initialized
    <3> QED
      BY <3>2, <3>3, <3>4
  <2> QED
    BY <2>1, <2>2 DEF Next
<1> QED
  BY <1>1, <1>2, TypeOKThm, PTL DEF Spec

(* No push contains git conflict markers or a corrupted store, and no      *)
(* commit made where the merge driver is asked for.                        *)
THEOREM NoMarkersCommittedThm == Spec => []NoMarkersCommitted
<1> DEFINE IInv == NoMarkersCommitted /\ MergesResolvable
<1>1. Init => IInv
  <2>1. NoFile # Broken /\ NoOne # Broken /\ Published # Broken
    BY FileAssumption DEF NoOne, Published, Roster
  <2> QED
    BY <2>1 DEF Init, InitWith, NoVault, NoMerge, NoMarkersCommitted, MergesResolvable, Readable
<1>2. TypeOK /\ DriverInPlace /\ IInv /\ [Next]_vars => IInv'
  <2> SUFFICES ASSUME TypeOK, DriverInPlace, NoMarkersCommitted, MergesResolvable, [Next]_vars
               PROVE  NoMarkersCommitted' /\ MergesResolvable'
    OBVIOUS
  <2>a. /\ head \in [Clone -> Vault] /\ base \in [Clone -> Vault] /\ remote \in Vault
        /\ merge \in [Clone -> Merge]
        /\ \A d \in Clone : Readable(base[d]) /\ (d \in Driven => Readable(head[d]))
        /\ Readable(remote)
    BY DEF TypeOK, NoMarkersCommitted, Driven
  <2>1. CASE UNCHANGED git
    BY <2>1 DEF git, NoMarkersCommitted, MergesResolvable, BothChanged, Touched, RosterMergeable
  (* Only the clone that acts changes its HEAD, base and merge.            *)
  <2>b. ASSUME NEW c \in Clone,
               \A d \in Clone \ {c} : /\ head'[d] = head[d] /\ base'[d] = base[d]
                                      /\ merge'[d].active = merge[d].active
                                      /\ merge'[d].unmerged = merge[d].unmerged
                                      /\ merge'[d].theirs = merge[d].theirs,
               c \in Driven => Readable(head'[c]), Readable(base'[c]), Readable(remote'),
               merge'[c].active =>
                 /\ Readable(merge'[c].theirs)
                 /\ merge'[c].unmerged = {"store"}
                      /\ BothChanged(c, "roster", merge[c].theirs)'
                      => RosterMergeable(c, merge[c].theirs)'
        PROVE  NoMarkersCommitted' /\ MergesResolvable'
    <3>1. \A d \in Clone : Readable(base'[d]) /\ (d \in Driven => Readable(head'[d]))
      BY <2>a, <2>b
    <3>2. ASSUME NEW d \in Clone \ {c}
          PROVE  /\ BothChanged(d, "roster", merge[d].theirs)' <=> BothChanged(d, "roster", merge[d].theirs)
                 /\ RosterMergeable(d, merge[d].theirs)' <=> RosterMergeable(d, merge[d].theirs)
      BY <2>b, <3>2 DEF BothChanged, Touched, RosterMergeable
    <3>3. MergesResolvable'
      BY <2>b, <3>2 DEF MergesResolvable
    <3> QED
      BY <2>b, <3>1, <3>3 DEF NoMarkersCommitted, Readable, Driven
  <2>2. ASSUME NEW c \in Clone, PushAccepted(c) PROVE NoMarkersCommitted' /\ MergesResolvable'
    <3>1. Commit(c) /\ Readable(Rewrapped(c))
      BY <2>2, RewrappedAligned DEF PushAccepted
    <3>2. /\ head' = [head EXCEPT ![c] = Rewrapped(c)]
          /\ base' = [base EXCEPT ![c] = Rewrapped(c)]
          /\ remote' = Rewrapped(c)
          /\ merge'[c] = NoMerge
          /\ \A d \in Clone \ {c} : /\ merge'[d].active = merge[d].active
                                    /\ merge'[d].unmerged = merge[d].unmerged
                                    /\ merge'[d].theirs = merge[d].theirs
      BY <2>2, <2>a, <3>1 DEF PushAccepted, Commit, Merge
    <3> QED
      BY <2>a, <2>b, <3>1, <3>2 DEF NoMerge
  <2>3. ASSUME NEW c \in Clone, PushFails(c) PROVE NoMarkersCommitted' /\ MergesResolvable'
    <3>1. Commit(c) /\ Readable(Rewrapped(c)) /\ remote' = remote
      BY <2>3, RewrappedAligned DEF PushFails
    <3>2. head' = [head EXCEPT ![c] = Rewrapped(c)]
      BY <3>1 DEF Commit
    <3>3. CASE Concludes(c)
      <4>1. Readable(merge[c].theirs)
        BY <3>3 DEF Concludes, MergesResolvable
      <4>2. /\ base' = [base EXCEPT ![c] = merge[c].theirs]
            /\ merge' = [merge EXCEPT ![c] = NoMerge]
        BY <2>3, <3>3 DEF PushFails
      <4> QED
        BY <2>a, <2>b, <3>1, <3>2, <4>1, <4>2 DEF NoMerge
    <3>4. CASE ~Concludes(c)
      <4>1. merge' = [merge EXCEPT ![c].unmerged = {}] /\ base' = base
        BY <2>3, <3>4 DEF PushFails
      <4>2. /\ merge'[c].active = merge[c].active /\ merge'[c].unmerged = {}
            /\ merge'[c].theirs = merge[c].theirs
        BY <2>a, <4>1 DEF Merge
      <4>3. merge'[c].active => Readable(merge'[c].theirs)
        BY <4>2 DEF MergesResolvable
      <4>4. \A d \in Clone \ {c} : merge'[d] = merge[d] /\ head'[d] = head[d]
        BY <2>a, <3>2, <4>1
      <4>5. head'[c] = Rewrapped(c)
        BY <2>a, <3>2
      <4> QED
        BY <2>a, <2>b, <3>1, <4>1, <4>2, <4>3, <4>4, <4>5
    <3> QED
      BY <3>3, <3>4
  (* Concluding a merge of a vault without markers.                        *)
  <2>c. ASSUME NEW c \in Clone, NEW t \in Vault, Readable(t), Conclude(c, t, Merged(c, t)),
               BothChanged(c, "roster", t) => RosterMergeable(c, t)
        PROVE  /\ c \in Driven => Readable(head'[c])
               /\ Readable(base'[c])
               /\ \A d \in Clone \ {c} : head'[d] = head[d] /\ base'[d] = base[d]
    BY <2>a, <2>c, MergedReadable DEF Conclude
  <2>4. ASSUME NEW c \in Clone, PullMerges(c) PROVE NoMarkersCommitted' /\ MergesResolvable'
    <3>1. /\ Conclude(c, remote, Merged(c, remote))
          /\ BothChanged(c, "roster", remote) => RosterMergeable(c, remote)
          /\ merge' = merge /\ remote' = remote /\ ~merge[c].active
      BY <2>4 DEF PullMerges, Mergeable
    <3>2. /\ c \in Driven => Readable(head'[c])
          /\ Readable(base'[c])
          /\ \A d \in Clone \ {c} : head'[d] = head[d] /\ base'[d] = base[d]
      BY <2>a, <2>c, <3>1
    <3> QED
      BY <2>a, <2>b, <3>1, <3>2
  (* git merges the store as text only where nobody asks for the driver.   *)
  <2>8. ASSUME NEW c \in Clone, PullCorrupts(c) PROVE NoMarkersCommitted' /\ MergesResolvable'
    <3>1. c \notin Driven
      BY <2>8 DEF PullCorrupts, Mergeable, TextMerges, MayPull, DriverInPlace, Driven
    <3>2. merge' = merge /\ remote' = remote /\ ~merge[c].active
      BY <2>8 DEF PullCorrupts, Mergeable
    <3>3. /\ base'[c] = remote
          /\ \A d \in Clone \ {c} : head'[d] = head[d] /\ base'[d] = base[d]
      BY <2>8, <2>a DEF PullCorrupts, Conclude
    <3> QED
      BY <2>a, <2>b, <3>1, <3>2, <3>3
  <2>5. ASSUME NEW c \in Clone, MergeStops(c) PROVE NoMarkersCommitted' /\ MergesResolvable'
    <3>1. PICK tree \in {Cleaned(c), work[c]}, u \in SUBSET File :
            \E s \in {head[c].store, Broken, Merged(c, remote).store, tree.store} :
              /\ LeaveMerge(c, tree, u, s)
              /\ u = {"store"} /\ BothChanged(c, "roster", remote)
                   => RosterMergeable(c, remote)
      BY <2>5, WhatStops
    <3>2. /\ UNCHANGED <<head, base, remote>>
          /\ merge' = [merge EXCEPT ![c] = [active |-> TRUE, unmerged |-> u,
                                            theirs |-> remote, fresh |-> TRUE]]
      BY <3>1 DEF LeaveMerge
    <3>3. merge'[c].theirs = remote /\ merge'[c].unmerged = u
      BY <2>a, <3>2
    <3>4. /\ BothChanged(c, "roster", merge[c].theirs)' <=> BothChanged(c, "roster", remote)
          /\ RosterMergeable(c, merge[c].theirs)' <=> RosterMergeable(c, remote)
      BY <3>2, <3>3 DEF BothChanged, Touched, RosterMergeable
    <3>5. merge'[c].unmerged = {"store"} /\ BothChanged(c, "roster", merge[c].theirs)'
            => RosterMergeable(c, merge[c].theirs)'
      BY <3>1, <3>3, <3>4
    <3>6. \A d \in Clone \ {c} : merge'[d] = merge[d]
      BY <2>a, <3>2
    <3> QED
      BY <2>a, <2>b, <3>2, <3>3, <3>5, <3>6
  <2>6. ASSUME NEW c \in Clone, PullOverMerge(c) PROVE NoMarkersCommitted' /\ MergesResolvable'
    <3> DEFINE t == merge[c].theirs
    <3>1. merge[c].active /\ remote' = remote /\ t \in Vault /\ Readable(t)
      BY <2>6, <2>a DEF PullOverMerge, MergesResolvable, Merge
    <3>2. CASE merge[c].unmerged = {}
      <4>1. UNCHANGED <<head, base, merge>>
        BY <2>6, <3>2 DEF PullOverMerge
      <4> QED
        BY <2>a, <2>b, <3>1, <3>2, <4>1
    <3>3. CASE merge[c].unmerged = {"store"} /\ StoreConflicts(c, t) = {}
      <4>1. Conclude(c, t, Merged(c, t)) /\ merge' = [merge EXCEPT ![c] = NoMerge]
        BY <2>6, <3>3 DEF PullOverMerge
      <4>2. BothChanged(c, "roster", t) => RosterMergeable(c, t)
        BY <3>1, <3>3 DEF MergesResolvable
      <4>3. /\ merge'[c] = NoMerge /\ \A d \in Clone \ {c} : merge'[d] = merge[d]
        BY <2>a, <4>1
      <4>4. /\ c \in Driven => Readable(head'[c])
            /\ Readable(base'[c])
            /\ \A d \in Clone \ {c} : head'[d] = head[d] /\ base'[d] = base[d]
        BY <2>c, <3>1, <4>1, <4>2
      <4> QED
        BY <2>a, <2>b, <3>1, <4>3, <4>4 DEF NoMerge
    <3>4. CASE /\ merge[c].unmerged # {}
               /\ ~(merge[c].unmerged = {"store"} /\ StoreConflicts(c, t) = {})
      <4>1. Abort(c) /\ UNCHANGED <<head, base>>
        BY <2>6, <3>4 DEF PullOverMerge
      <4>2. CASE merge' = merge
        BY <4>1, <4>2, <3>1 DEF NoMarkersCommitted, MergesResolvable, BothChanged, Touched, RosterMergeable
      <4>3. CASE merge' = [merge EXCEPT ![c] = NoMerge]
        <5>1. merge'[c] = NoMerge /\ \A d \in Clone \ {c} : merge'[d] = merge[d]
          BY <2>a, <4>3
        <5> QED
          BY <2>a, <2>b, <3>1, <4>1, <5>1 DEF NoMerge
      <4> QED
        BY <4>1, <4>2, <4>3 DEF Abort
    <3> QED
      BY <3>2, <3>3, <3>4
  <2>7. ASSUME NEW c \in Clone, Command(c),
               OnlyEdits(c)
        PROVE  UNCHANGED git
    BY <2>7 DEF OnlyEdits, Command, Push, Pull, InitVault, InitUpgrade, Rotate, Seal, Rm, KeyNew, KeyImport,
                KeyDelete, PullWithoutMerge
  <2> QED
    BY <2>1, <2>2, <2>3, <2>4, <2>5, <2>6, <2>7, <2>8 DEF Next, vars, OnlyEdits
<1>3. IInv => NoMarkersCommitted
  OBVIOUS
<1> QED
  BY <1>1, <1>2, <1>3, TypeOKThm, DriverStays, PTL DEF Spec

-----------------------------------------------------------------------------
(* A conflict-free merge drops no change of the other side: each version   *)
(* the other side holds is in the result, or was in the ancestor.          *)
LEMMA MergeKeepsTheirs ==
  ASSUME NEW b, NEW o, NEW t, t # Absent, MergeEntry(b, o, t) # Conflict
  PROVE  \/ MergeEntry(b, o, t) # Absent /\ MergeEntry(b, o, t).stamp = t.stamp
         \/ b # Absent /\ b.stamp = t.stamp
BY DEF MergeEntry, SameEntry

(* ... and the result holds nothing but versions of the three.             *)
LEMMA MergeInventsNothing ==
  ASSUME NEW b, NEW o, NEW t
  PROVE  MergeEntry(b, o, t) \in {b, o, t, Absent, Conflict}
BY DEF MergeEntry

(* The books a clone keeps, in git's terms, when no merge is ever left     *)
(* half-way: it is behind whenever the remote is not its merge base, it is *)
(* ahead whenever HEAD is not, and it has had in its working tree every    *)
(* version of HEAD and of the merge base, unless a text merge has left it  *)
(* a store it cannot read, and it does not push again.                     *)
BooksKept(c) ==
  /\ ~merge[c].active
  /\ ~stale[c] => remote = base[c]
  /\ ~ahead[c] => head[c] = base[c]
  /\ Versions(head[c]) \subseteq seen[c]
  /\ work[c].store # Broken => Versions(base[c]) \subseteq seen[c]

(* After a pull that merges, every version the remote has is one the clone *)
(* has had.                                                                *)
LEMMA PullDelivers ==
  ASSUME TypeOK, NEW c \in Clone, BooksKept(c), PullMerges(c)
  PROVE  Versions(remote) \subseteq seen'[c]
<1>1. /\ seen'[c] = seen[c] \cup Versions(work'[c])
      /\ Versions(head[c]) \subseteq seen[c] /\ Versions(base[c]) \subseteq seen[c]
  BY DEF PullMerges, Mergeable, MayPull, Record, BooksKept
<1>2. CASE ~Touched(c, "store", remote)
  BY <1>1, <1>2 DEF Touched, Versions
<1>3. CASE Touched(c, "store", remote)
  <2>1. work'[c].store = Merged(c, remote).store
    BY <1>3 DEF PullMerges, Conclude, TypeOK
  <2>2. CASE ~BothChanged(c, "store", remote)
    <3>1. work'[c].store = remote.store
      BY <1>3, <2>1, <2>2 DEF Merged
    <3> QED
      BY <1>1, <3>1 DEF Versions
  <2>3. CASE BothChanged(c, "store", remote)
    <3> DEFINE b == AsStore(base[c].store)
               o == AsStore(head[c].store)
               t == AsStore(remote.store)
    <3>1. Conflicts(b, o, t) = {}
      BY <2>3 DEF PullMerges, Mergeable, StoreConflicts
    <3>2. work'[c].store = MergeStores(b, o, t)
      BY <2>1, <2>3 DEF Merged, MergedStore
    <3>3. AsStore(work'[c].store) = MergeStores(b, o, t)
      <4>1. MergeStores(b, o, t) \in Sealed /\ clock \in Nat
        BY ReadTypes, MergeStoresType DEF TypeOK
      <4> QED
        BY <3>2, <4>1, Markers DEF AsStore
    <3>4. ASSUME NEW n \in Present(t)
          PROVE  <<n, t[n].stamp>> \in seen'[c]
      <4>1. n \in Name /\ t[n] # Absent
        BY <3>4 DEF Present
      <4>2. MergeEntry(b[n], o[n], t[n]) # Conflict
        BY <3>1, <4>1 DEF Conflicts
      <4>3. MergeStores(b, o, t)[n] = MergeEntry(b[n], o[n], t[n])
        BY <3>1, <4>1 DEF MergeStores
      <4>4. CASE /\ MergeEntry(b[n], o[n], t[n]) # Absent
                 /\ MergeEntry(b[n], o[n], t[n]).stamp = t[n].stamp
        <5>1. <<n, t[n].stamp>> \in Versions(work'[c])
          BY <3>3, <4>1, <4>3, <4>4 DEF Versions, Present
        <5> QED
          BY <1>1, <5>1
      <4>5. CASE b[n] # Absent /\ b[n].stamp = t[n].stamp
        <5>1. <<n, t[n].stamp>> \in Versions(base[c])
          BY <4>1, <4>5 DEF Versions, Present
        <5> QED
          BY <1>1, <5>1
      <4> QED
        BY <4>1, <4>2, <4>4, <4>5, MergeKeepsTheirs
    <3> QED
      BY <3>4 DEF Versions
  <2> QED
    BY <2>2, <2>3
<1> QED
  BY <1>2, <1>3

(* A vault's secrets, each with the entry it is sealed in.                 *)
Holdings(v) == {<<n, AsStore(v.store)[n]>> : n \in Present(AsStore(v.store))}
StampsOf(H) == {<<h[1], h[2].stamp>> : h \in H}

LEMMA StampsOfUnion ==
  ASSUME NEW G, NEW H
  PROVE  /\ StampsOf(G \cup H) = StampsOf(G) \cup StampsOf(H)
         /\ G \subseteq H => StampsOf(G) \subseteq StampsOf(H)
BY DEF StampsOf

LEMMA VersionsOfHoldings ==
  ASSUME NEW v
  PROVE  Versions(v) = StampsOf(Holdings(v))
<1> DEFINE s == AsStore(v.store)
<1>1. ASSUME NEW n \in Present(s)
      PROVE  <<n, s[n]>> \in Holdings(v) /\ <<n, s[n].stamp>> \in StampsOf(Holdings(v))
  <2>1. <<n, s[n]>> \in Holdings(v)
    BY DEF Holdings
  <2> QED
    BY <2>1 DEF StampsOf
<1>2. ASSUME NEW h \in Holdings(v)
      PROVE  <<h[1], h[2].stamp>> \in Versions(v)
  <2>1. PICK n \in Present(s) : h = <<n, s[n]>>
    BY DEF Holdings
  <2> QED
    BY <2>1 DEF Versions
<1> QED
  BY <1>1, <1>2 DEF Versions, StampsOf

(* A merge makes up no entry.                                              *)
LEMMA MergedHoldings ==
  ASSUME TypeOK, NEW c \in Clone, NEW t \in Vault
  PROVE  Holdings(Merged(c, t))
           \subseteq Holdings(head[c]) \cup Holdings(base[c]) \cup Holdings(t)
<1> DEFINE B == AsStore(base[c].store)
           O == AsStore(head[c].store)
           T == AsStore(t.store)
           M == AsStore(Merged(c, t).store)
<1>1. CASE ~BothChanged(c, "store", t)
  BY <1>1 DEF Merged, Holdings
<1>2. CASE BothChanged(c, "store", t)
  <2>1. M = MergeStores(B, O, T)
    <3>1. MergeStores(B, O, T) \in Sealed /\ clock \in Nat
      BY ReadTypes, MergeStoresType DEF TypeOK
    <3> QED
      BY <1>2, <3>1, Markers DEF Merged, MergedStore, AsStore
  <2>2. ASSUME NEW n \in Present(M)
        PROVE  <<n, M[n]>> \in Holdings(head[c]) \cup Holdings(base[c]) \cup Holdings(t)
    <3>1. n \in Name /\ M[n] # Absent
      BY <2>2 DEF Present
    <3>2. M[n] \in {B[n], O[n], T[n]}
      BY <2>1, <3>1, MergeInventsNothing DEF MergeStores, Conflicts
    <3> QED
      BY <3>1, <3>2 DEF Holdings, Present
  <2> QED
    BY <2>2 DEF Holdings
<1> QED
  BY <1>1, <1>2

LEMMA MergedVersions ==
  ASSUME TypeOK, NEW c \in Clone, NEW t \in Vault
  PROVE  Versions(Merged(c, t))
           \subseteq Versions(head[c]) \cup Versions(base[c]) \cup Versions(t)
<1> DEFINE H == Holdings(head[c]) \cup Holdings(base[c]) \cup Holdings(t)
<1>1. StampsOf(H) \subseteq Versions(head[c]) \cup Versions(base[c]) \cup Versions(t)
  <2>1. StampsOf(H) = StampsOf(Holdings(head[c]) \cup Holdings(base[c])) \cup StampsOf(Holdings(t))
    BY StampsOfUnion
  <2> QED
    BY <2>1, VersionsOfHoldings, StampsOfUnion
<1>2. Holdings(Merged(c, t)) \subseteq H
  BY MergedHoldings
<1> HIDE DEF H
<1> QED
  BY <1>1, <1>2, VersionsOfHoldings, StampsOfUnion

(* A store that does not parse stays so.                                   *)
LEMMA BrokenStays ==
  ASSUME TypeOK, NEW c \in Clone, Command(c), OnlyEdits(c), work[c].store = Broken
  PROVE  work'[c].store = Broken
<1>1. work[c] \in Vault /\ work \in [Clone -> Vault]
  BY DEF TypeOK
<1>2. ASSUME NEW r, SetRoster(c, r) PROVE work'[c].store = Broken
  BY <1>1, <1>2 DEF SetRoster, Vault
<1>3. /\ \A names : ~Seal(c, names)
      /\ \A name : ~Rotate(c, name) /\ ~Rm(c, name)
  BY DEF Seal, Rotate, Rm, Readable
<1>4. ~Push(c) /\ ~Pull(c) /\ ~MergeStops(c)
  BY DEF OnlyEdits, Push, Pull, PullWithoutMerge, MayPull
<1>5. CASE InitVault(c) \/ InitUpgrade(c)
  BY <1>2, <1>5 DEF InitVault, InitUpgrade
<1>6. ASSUME NEW i, KeyNew(c, i) PROVE work'[c].store = Broken
  BY <1>2, <1>6 DEF KeyNew
<1>7. ASSUME NEW i, NEW g, KeyImport(c, i, g) PROVE work'[c].store = Broken
  BY <1>2, <1>7 DEF KeyImport
<1>8. ASSUME NEW i, NEW keep, KeyDelete(c, i, keep) PROVE work'[c].store = Broken
  BY <1>2, <1>8 DEF KeyDelete
<1> QED
  BY <1>3, <1>4, <1>5, <1>6, <1>7, <1>8 DEF Command

(* The books are right for good, as long as no merge is left half-way.     *)
LEMMA BooksAreKept ==
  ASSUME MaxStops = 0
  PROVE  Spec => [](\A c \in Clone : BooksKept(c))
<1> DEFINE IInv == \A c \in Clone : BooksKept(c)
<1>1. Init => IInv
  <2> SUFFICES ASSUME Init, NEW c \in Clone PROVE BooksKept(c)
    OBVIOUS
  <2>1. PICK r : InitWith([store |-> NoFile, roster |-> r[1]], r[2])
    <3>1. CASE InitWith(NoVault, NoOne)
      <4>1. InitWith([store |-> NoFile, roster |-> <<NoFile, NoOne>>[1]], <<NoFile, NoOne>>[2])
        BY <3>1 DEF NoVault
      <4> QED
        BY <4>1
    <3>2. CASE InitWith([store |-> NoFile, roster |-> Published], Published)
      <4>1. InitWith([store |-> NoFile, roster |-> <<Published, Published>>[1]], <<Published, Published>>[2])
        BY <3>2
      <4> QED
        BY <4>1
    <3> QED
      BY <3>1, <3>2 DEF Init
  <2>2. Versions(head[c]) = {} /\ Versions(base[c]) = {}
    <3>1. head[c].store = NoFile /\ base[c].store = NoFile
      BY <2>1 DEF InitWith
    <3>2. Present(EmptyStore) = {}
      BY DEF Present, EmptyStore
    <3> QED
      BY <3>1, <3>2 DEF Versions, AsStore
  <2> QED
    BY <2>1, <2>2 DEF InitWith, BooksKept, NoMerge
<1>2. TypeOK /\ IInv /\ [Next]_vars => IInv'
  <2> SUFFICES ASSUME TypeOK, IInv, [Next]_vars, NEW d \in Clone PROVE BooksKept(d)'
    OBVIOUS
  <2>a. /\ head \in [Clone -> Vault] /\ base \in [Clone -> Vault] /\ remote \in Vault
        /\ merge \in [Clone -> Merge] /\ stale \in [Clone -> BOOLEAN]
        /\ ahead \in [Clone -> BOOLEAN] /\ stops \in Nat
    BY DEF TypeOK
  <2>b. ASSUME Record PROVE seen[d] \subseteq seen'[d]
    BY <2>b DEF Record
  <2>1. CASE UNCHANGED vars
    BY <2>1 DEF vars, git, history, BooksKept, Versions
  <2>2. ASSUME UNCHANGED git, Record, work[d].store = Broken => work'[d].store = Broken
        PROVE  BooksKept(d)'
    BY <2>2, <2>b DEF git, BooksKept, Versions
  <2>3. ASSUME NEW c \in Clone, PushAccepted(c) PROVE BooksKept(d)'
    <3>1. /\ Commit(c) /\ Record /\ remote' = Rewrapped(c)
          /\ head' = [head EXCEPT ![c] = Rewrapped(c)]
          /\ base' = [base EXCEPT ![c] = Rewrapped(c)]
          /\ work'[c] = Rewrapped(c)
          /\ ahead' = [ahead EXCEPT ![c] = FALSE]
      BY <2>3, <2>a DEF PushAccepted, Commit, TypeOK
    <3>2. ~merge[c].active /\ ~stale[c] /\ remote = base[c]
      BY <2>3 DEF PushAccepted, FastForward, BooksKept
    <3>o. d # c => work'[d] = work[d]
      BY <2>3, OthersKeepTheirs DEF Command, Push
    <3>3. CASE d = c
      BY <2>3, <2>a, <3>1, <3>3 DEF PushAccepted, NoMerge, Record, BooksKept, Versions
    <3>4. CASE d # c
      <4>1. /\ head'[d] = head[d] /\ base'[d] = base[d] /\ ahead'[d] = ahead[d]
            /\ merge'[d].active = merge[d].active
        BY <2>3, <2>a, <3>1, <3>4 DEF PushAccepted, Merge
      <4>2. ~stale'[d] => ~stale[d] /\ ~ahead[c] /\ ~Commits(c)
        BY <2>3, <3>4 DEF PushAccepted
      <4>3. ~ahead[c] /\ ~Commits(c) => remote' = remote
        BY <3>1, <3>2 DEF Commits, BooksKept
      <4>4. ~stale'[d] => remote' = base'[d]
        BY <4>1, <4>2, <4>3 DEF BooksKept
      <4> QED
        BY <2>b, <3>1, <3>4, <3>o, <4>1, <4>4, ZenonT(60) DEF BooksKept, Versions
    <3> QED
      BY <3>3, <3>4
  <2>4. ASSUME NEW c \in Clone, PushFails(c) PROVE BooksKept(d)'
    <3>1. /\ Commit(c) /\ Record /\ remote' = remote /\ work[c].store # Broken
          /\ head' = [head EXCEPT ![c] = Rewrapped(c)]
          /\ work'[c] = Rewrapped(c)
          /\ ahead' = [ahead EXCEPT ![c] = ahead[c] \/ Commits(c)]
      BY <2>4, <2>a DEF PushFails, Commit, Prepared, Readable, TypeOK
    <3>2. ~Concludes(c)
      BY DEF Concludes, BooksKept
    <3>3. base' = base /\ stale' = stale /\ merge' = [merge EXCEPT ![c].unmerged = {}]
      BY <2>4, <3>2 DEF PushFails
    <3>o. d # c => work'[d] = work[d]
      BY <2>4, OthersKeepTheirs DEF Command, Push
    <3>4. merge'[d].active = merge[d].active
      BY <2>a, <3>3 DEF Merge
    <3>5. CASE d = c
      <4>1. ~ahead'[d] => head'[d] = base'[d]
        BY <2>a, <3>1, <3>3, <3>5 DEF Commits, BooksKept
      <4>2. Versions(head'[d]) \subseteq seen'[d]
        BY <2>a, <3>1, <3>5 DEF Record
      <4> QED
        BY <2>b, <3>1, <3>3, <3>4, <3>5, <4>1, <4>2 DEF BooksKept, Versions
    <3>6. CASE d # c
      <4>1. head'[d] = head[d] /\ ahead'[d] = ahead[d]
        BY <2>a, <3>1, <3>6
      <4> QED
        BY <2>b, <3>1, <3>3, <3>4, <3>6, <3>o, <4>1 DEF BooksKept, Versions
    <3> QED
      BY <3>5, <3>6
  <2>5. ASSUME NEW c \in Clone, PullMerges(c) PROVE BooksKept(d)'
    <3>1. /\ Record /\ UNCHANGED <<ahead, merge, remote>>
          /\ head' = [head EXCEPT ![c] = Merged(c, remote)]
          /\ base' = [base EXCEPT ![c] = remote]
          /\ stale' = [stale EXCEPT ![c] = FALSE]
      BY <2>5 DEF PullMerges, Conclude
    <3>o. d # c => work'[d] = work[d]
      BY <2>5, OthersKeepTheirs DEF Command, Pull
    <3>2. CASE d = c
      <4>1. head'[d] = Merged(d, remote) /\ base'[d] = remote
        BY <2>a, <3>1, <3>2
      <4>2. ~ahead'[d] => head'[d] = base'[d]
        <5> SUFFICES ASSUME head[d] = base[d] PROVE Merged(d, remote) = remote
          BY <3>1, <4>1 DEF BooksKept
        <5> QED
          BY <2>a DEF Merged, Touched, BothChanged, Vault
      <4>3. Versions(remote) \subseteq seen'[d]
        BY <2>5, <3>2, PullDelivers
      <4>4. Versions(Merged(d, remote)) \subseteq seen'[d]
        <5>1. Versions(base[d]) \subseteq seen[d] /\ Versions(head[d]) \subseteq seen[d]
          BY <2>5, <3>2 DEF PullMerges, Mergeable, MayPull, BooksKept
        <5> QED
          BY <2>a, <2>b, <3>1, <4>3, <5>1, MergedVersions
      <4> QED
        BY <3>1, <4>1, <4>2, <4>3, <4>4 DEF BooksKept, Versions
    <3>3. CASE d # c
      <4>1. head'[d] = head[d] /\ base'[d] = base[d] /\ stale'[d] = stale[d]
        BY <2>a, <3>1, <3>3
      <4> QED
        BY <2>b, <3>1, <3>3, <3>o, <4>1 DEF BooksKept, Versions
    <3> QED
      BY <3>2, <3>3
  (* A text merge that corrupts the store comes after local commits.       *)
  <2>8. ASSUME NEW c \in Clone, PullCorrupts(c) PROVE BooksKept(d)'
    <3>1. /\ Record /\ UNCHANGED <<ahead, merge, remote>>
          /\ base' = [base EXCEPT ![c] = remote]
          /\ stale' = [stale EXCEPT ![c] = FALSE]
          /\ BothChanged(c, "store", remote)
      BY <2>8 DEF PullCorrupts, TextMerges, Conclude
    <3>o. d # c => work'[d] = work[d]
      BY <2>8, OthersKeepTheirs DEF Command, Pull
    <3>2. head'[c].store = Broken /\ work'[c].store = Broken
      <4>1. [Merged(c, remote) EXCEPT !.store = Broken].store = Broken
        BY DEF Merged
      <4>2. Touched(c, "store", remote)
        BY <3>1 DEF BothChanged
      <4> QED
        BY <2>8, <2>a, <4>1, <4>2 DEF PullCorrupts, Conclude, TypeOK
    <3>3. CASE d = c
      <4>1. ahead[c]
        BY <3>1, <3>3 DEF BothChanged, BooksKept
      <4>2. Versions(head'[d]) = {}
        BY <3>2, <3>3 DEF Versions, AsStore, Present, EmptyStore
      <4> QED
        BY <2>a, <3>1, <3>2, <3>3, <4>1, <4>2 DEF BooksKept, Versions
    <3>4. CASE d # c
      <4>1. head'[d] = head[d] /\ base'[d] = base[d] /\ stale'[d] = stale[d]
        BY <2>8, <2>a, <3>1, <3>4 DEF PullCorrupts, Conclude
      <4> QED
        BY <2>b, <3>1, <3>4, <3>o, <4>1 DEF BooksKept, Versions
    <3> QED
      BY <3>3, <3>4
  <2>6. ASSUME NEW c \in Clone PROVE ~MergeStops(c) /\ ~PullOverMerge(c)
    BY <2>a DEF MergeStops, GitPullStops, PullStops, MayStop, PullOverMerge, BooksKept
  <2>7. ASSUME NEW c \in Clone, Command(c),
               OnlyEdits(c)
        PROVE  BooksKept(d)'
    <3>1. UNCHANGED git /\ Record
      BY <2>7 DEF OnlyEdits, Command, Push, Pull, InitVault, InitUpgrade, Rotate, Seal, Rm, KeyNew,
                  KeyImport, KeyDelete, PullWithoutMerge
    <3>2. work[d].store = Broken => work'[d].store = Broken
      BY <2>7, BrokenStays, OthersKeepTheirs
    <3> QED
      BY <2>2, <3>1, <3>2
  <2> QED
    BY <2>1, <2>3, <2>4, <2>5, <2>6, <2>7, <2>8 DEF Next, OnlyEdits
<1> QED
  BY <1>1, <1>2, TypeOKThm, PTL DEF Spec

(* A push replaces or removes only versions the pushing clone has had,     *)
(* provided no merge was left half-way (with one, TLC finds a push that    *)
(* overwrites an update nobody on that clone has had).                     *)
THEOREM NoBlindOverwriteThm ==
  ASSUME MaxStops = 0
  PROVE  Spec => NoBlindOverwrite
<1> DEFINE IInv == \A c \in Clone : BooksKept(c)
<1>1. IInv /\ [Next]_vars =>
        [\A c \in Clone : Push(c) => Versions(remote) \ Versions(remote') \subseteq seen[c]]_vars
  <2> SUFFICES ASSUME IInv, NEW c \in Clone, Push(c)
               PROVE  Versions(remote) \ Versions(remote') \subseteq seen[c]
    OBVIOUS
  <2>1. CASE PushAccepted(c)
    <3>1. remote = base[c] /\ work[c].store # Broken
      BY <2>1 DEF PushAccepted, Commit, Prepared, Readable, FastForward, BooksKept
    <3> QED
      BY <3>1 DEF BooksKept
  <2>2. CASE PushFails(c)
    BY <2>2 DEF PushFails
  <2> QED
    BY <2>1, <2>2 DEF Push
<1> QED
  BY <1>1, BooksAreKept, PTL DEF Spec, NoBlindOverwrite

-----------------------------------------------------------------------------
(* The versions a command may make up: stamped with the time it runs at.   *)
Fresh == Name \X {clock + 1}

(* A store as read back from the file it was written to.                   *)
LEMMA StoreRead ==
  ASSUME NEW s \in Store
  PROVE  AsStore(s) = s
BY FileAssumption DEF AsStore

LEMMA SealedIsStore ==
  ASSUME clock \in Nat
  PROVE  Sealed \subseteq Store
<1>1. [stamp : 1..clock, wraps : Roster] \cup {Absent} \subseteq Entry \cup {Absent}
  BY DEF Entry
<1> QED
  BY <1>1 DEF Sealed, Store

(* What a command on c seals, it seals now, for the recipients of c.       *)
SealedNow(c) == Name \X {SealEntry(clock + 1, AsRoster(work[c].roster))}

(* push seals only what it re-wraps.                                       *)
LEMMA RewrappedHoldings ==
  ASSUME TypeOK, NEW c \in Clone
  PROVE  Holdings(Rewrapped(c)) \subseteq Holdings(work[c]) \cup SealedNow(c)
<1> DEFINE S == AsStore(work[c].store)
           R == AsRoster(work[c].roster)
           N == Rewrap(S, R, clock + 1)
<1>1. CASE ToRewrap(c) = {}
  BY <1>1 DEF Rewrapped
<1>2. CASE ToRewrap(c) # {}
  <2>1. clock \in Nat /\ work[c] \in Vault
    BY DEF TypeOK
  <2>2. S \in Store /\ R \in Roster
    BY <2>1, ReadTypes, SealedIsStore
  <2>3. N \in Store
    BY <2>1, <2>2 DEF Rewrap, Store, Entry
  <2>4. AsStore(Rewrapped(c).store) = N
    BY <1>2, <2>1, <2>3, StoreRead DEF Rewrapped, Vault
  <2>5. ASSUME NEW n \in Present(N)
        PROVE  <<n, N[n]>> \in Holdings(work[c]) \cup SealedNow(c)
    <3>1. n \in Name /\ N[n] # Absent
      BY <2>5 DEF Present
    <3>2. CASE n \in OutOfStep(S, R)
      BY <3>1, <3>2 DEF Rewrap, SealedNow, SealEntry
    <3>3. CASE n \notin OutOfStep(S, R)
      <4>1. N[n] = S[n]
        BY <3>1, <3>3 DEF Rewrap
      <4> QED
        BY <3>1, <4>1 DEF Holdings, Present
    <3> QED
      BY <3>2, <3>3
  <2> QED
    BY <2>4, <2>5 DEF Holdings
<1> QED
  BY <1>1, <1>2

LEMMA SealedNowIsFresh ==
  ASSUME NEW c \in Clone, NEW v, NEW w, Holdings(v) \subseteq Holdings(w) \cup SealedNow(c)
  PROVE  Versions(v) \subseteq Versions(w) \cup Fresh
<1>1. StampsOf(SealedNow(c)) \subseteq Fresh
  BY DEF StampsOf, SealedNow, SealEntry, Fresh
<1>2. StampsOf(Holdings(w) \cup SealedNow(c)) = Versions(w) \cup StampsOf(SealedNow(c))
  BY VersionsOfHoldings, StampsOfUnion
<1> QED
  BY <1>1, <1>2, VersionsOfHoldings, StampsOfUnion

LEMMA RewrappedVersions ==
  ASSUME TypeOK, NEW c \in Clone
  PROVE  Versions(Rewrapped(c)) \subseteq Versions(work[c]) \cup Fresh
BY RewrappedHoldings, SealedNowIsFresh

(* The commands that edit leave the other clones alone and seal only       *)
(* what they seal now.                                                     *)
LEMMA EditHoldings ==
  ASSUME TypeOK, NEW c \in Clone, Command(c),
         OnlyEdits(c)
  PROVE  /\ UNCHANGED git /\ Record
         /\ \A d \in Clone \ {c} : work'[d] = work[d]
         /\ Holdings(work'[c]) \subseteq Holdings(work[c]) \cup SealedNow(c)
<1> DEFINE Goal == /\ UNCHANGED git /\ Record
                   /\ \A d \in Clone \ {c} : work'[d] = work[d]
                   /\ Holdings(work'[c]) \subseteq Holdings(work[c]) \cup SealedNow(c)
<1>a. work \in [Clone -> Vault] /\ work[c] \in Vault /\ clock \in Nat
  BY DEF TypeOK
<1>b. ASSUME NEW r, SetRoster(c, r)
      PROVE  /\ \A d \in Clone \ {c} : work'[d] = work[d]
             /\ Holdings(work'[c]) = Holdings(work[c])
  <2>1. work'[c].store = work[c].store
    BY <1>a, <1>b DEF SetRoster, Vault
  <2> QED
    BY <1>a, <1>b, <2>1 DEF SetRoster, Holdings
<1>c. ASSUME NEW s \in Store, SetStore(c, s)
      PROVE  /\ \A d \in Clone \ {c} : work'[d] = work[d]
             /\ AsStore(work'[c].store) = s
  <2>1. work'[c].store = s
    BY <1>a, <1>c DEF SetStore, Vault
  <2> QED
    BY <1>a, <1>c, <2>1, StoreRead DEF SetStore
<1>d. AsStore(work[c].store) \in Store
  BY <1>a, ReadTypes, SealedIsStore
<1>1. ASSUME UNCHANGED <<work, git>>, Record PROVE Goal
  BY <1>1
<1>2. ASSUME NEW r, SetRoster(c, r), UNCHANGED git, Record PROVE Goal
  BY <1>b, <1>2
<1>3. CASE InitVault(c)
  BY <1>2, <1>3 DEF InitVault
<1>4. CASE InitUpgrade(c)
  BY <1>1, <1>4 DEF InitUpgrade
<1>5. ASSUME NEW names \in SUBSET Name, Seal(c, names) PROVE Goal
  <2> DEFINE S == AsStore(work[c].store)
             e == SealEntry(clock', work[c].roster)
             N == Upsert(S, names, e)
  <2>1. work[c].roster \in Roster /\ clock' = clock + 1
    BY <1>a, <1>5 DEF Seal, Initialized, Readable, Vault
  <2>2. e \in Entry /\ \A n \in Name : <<n, e>> \in SealedNow(c)
    <3>1. AsRoster(work[c].roster) = work[c].roster
      BY <2>1, FileAssumption DEF AsRoster
    <3> QED
      BY <1>a, <2>1, <3>1 DEF SealEntry, Entry, SealedNow
  <2>3. N \in Store
    BY <1>d, <2>2 DEF Upsert, Store
  <2>4. SetStore(c, N) /\ UNCHANGED git /\ Record
    BY <1>5 DEF Seal
  <2>5. AsStore(work'[c].store) = N /\ \A d \in Clone \ {c} : work'[d] = work[d]
    BY <1>c, <2>3, <2>4
  <2>6. ASSUME NEW n \in Present(N)
        PROVE  <<n, N[n]>> \in Holdings(work[c]) \cup SealedNow(c)
    <3>1. n \in Name /\ N[n] # Absent
      BY <2>6 DEF Present
    <3>2. CASE n \in names
      BY <2>2, <3>1, <3>2 DEF Upsert
    <3>3. CASE n \notin names
      <4>1. N[n] = S[n]
        BY <3>1, <3>3 DEF Upsert
      <4> QED
        BY <3>1, <4>1 DEF Holdings, Present
    <3> QED
      BY <3>2, <3>3
  <2>7. Holdings(work'[c]) \subseteq Holdings(work[c]) \cup SealedNow(c)
    BY <2>5, <2>6 DEF Holdings
  <2> QED
    BY <2>4, <2>5, <2>7
<1>6. ASSUME NEW name \in Name, Rotate(c, name) PROVE Goal
  BY <1>5, <1>6 DEF Rotate
<1>7. ASSUME NEW name \in Name, Rm(c, name) PROVE Goal
  <2> DEFINE S == work[c].store
             N == Delete(S, name)
  <2>1. S \in Store /\ AsStore(S) = S
    <3>1. Present(EmptyStore) = {}
      BY DEF Present, EmptyStore
    <3> QED
      BY <1>a, <1>7, <1>d, <3>1 DEF Rm, AsStore
  <2>2. N \in Store
    BY <2>1 DEF Delete, Store
  <2>3. SetStore(c, N) /\ UNCHANGED git /\ Record
    BY <1>7 DEF Rm
  <2>4. AsStore(work'[c].store) = N /\ \A d \in Clone \ {c} : work'[d] = work[d]
    BY <1>c, <2>2, <2>3
  <2>5. ASSUME NEW n \in Present(N)
        PROVE  n \in Present(S) /\ N[n] = S[n]
    BY <2>1, <2>5 DEF Present, Delete, Store
  <2>6. Holdings(work'[c]) \subseteq Holdings(work[c])
    BY <2>1, <2>4, <2>5 DEF Holdings
  <2> QED
    BY <2>3, <2>4, <2>6
<1>8. ASSUME NEW i \in ID, KeyNew(c, i) PROVE Goal
  BY <1>1, <1>2, <1>8 DEF KeyNew
<1>9. ASSUME NEW i \in ID, NEW g \in Nat, KeyImport(c, i, g) PROVE Goal
  BY <1>2, <1>9 DEF KeyImport
<1>10. ASSUME NEW i \in ID, NEW keep \in BOOLEAN, KeyDelete(c, i, keep) PROVE Goal
  BY <1>1, <1>2, <1>10 DEF KeyDelete
<1>11. CASE PullWithoutMerge(c)
  <2>1. work' = [work EXCEPT ![c] = Cleaned(c)] /\ UNCHANGED git /\ Record
    BY <1>11 DEF PullWithoutMerge
  <2>2. work'[c] = Cleaned(c) /\ \A d \in Clone \ {c} : work'[d] = work[d]
    BY <1>a, <2>1
  <2>3. AsStore(Cleaned(c).store) \in {AsStore(work[c].store), EmptyStore}
    BY DEF Cleaned, AsStore
  <2>4. Present(EmptyStore) = {}
    BY DEF Present, EmptyStore
  <2>5. Holdings(work'[c]) \subseteq Holdings(work[c])
    BY <2>2, <2>3, <2>4 DEF Holdings
  <2> QED
    BY <2>1, <2>2, <2>5
<1>12. Movers \subseteq ID /\ 1..MaxGen \subseteq Nat
  BY CloneAssumption
<1> QED
  BY <1>3, <1>4, <1>5, <1>6, <1>7, <1>8, <1>9, <1>10, <1>11, <1>12
     DEF OnlyEdits, Command, Push, Pull

LEMMA EditVersions ==
  ASSUME TypeOK, NEW c \in Clone, Command(c),
         OnlyEdits(c)
  PROVE  /\ UNCHANGED git /\ Record
         /\ \A d \in Clone \ {c} : work'[d] = work[d]
         /\ Versions(work'[c]) \subseteq Versions(work[c]) \cup Fresh
BY EditHoldings, SealedNowIsFresh

(* A conflict-free merge keeps a version of the ancestor only where the    *)
(* other side still has it.                                                *)
LEMMA StaleVersionGoes ==
  ASSUME NEW b, NEW o, NEW t, b # Absent,
         MergeEntry(b, o, t) \notin {Absent, Conflict},
         MergeEntry(b, o, t).stamp = b.stamp
  PROVE  t # Absent /\ t.stamp = b.stamp
BY DEF MergeEntry, SameEntry

LEMMA MergeDropsStale ==
  ASSUME TypeOK, NEW c \in Clone, PullMerges(c)
  PROVE  Versions(Merged(c, remote)) \cap Versions(base[c]) \subseteq Versions(remote)
<1> DEFINE B == AsStore(base[c].store)
           O == AsStore(head[c].store)
           T == AsStore(remote.store)
           M == AsStore(Merged(c, remote).store)
<1>1. CASE ~Touched(c, "store", remote)
  <2>1. /\ Merged(c, remote).store = head[c].store
        /\ remote.store = base[c].store \/ remote.store = head[c].store
    BY <1>1 DEF Merged, BothChanged, Touched
  <2> QED
    BY <2>1 DEF Versions
<1>2. CASE Touched(c, "store", remote) /\ ~BothChanged(c, "store", remote)
  BY <1>2 DEF Merged, Versions
<1>3. CASE BothChanged(c, "store", remote)
  <2>1. M = MergeStores(B, O, T)
    <3>1. MergeStores(B, O, T) \in Sealed /\ clock \in Nat
      BY ReadTypes, MergeStoresType DEF TypeOK
    <3> QED
      BY <1>3, <3>1, Markers DEF Merged, MergedStore, AsStore
  <2>2. ASSUME NEW n \in Present(M), n \in Present(B), M[n].stamp = B[n].stamp
        PROVE  n \in Present(T) /\ T[n].stamp = M[n].stamp
    <3>1. n \in Name /\ M[n] # Absent /\ B[n] # Absent
      BY <2>2 DEF Present
    <3>2. MergeEntry(B[n], O[n], T[n]) # Conflict
      BY <1>3, <3>1 DEF PullMerges, Mergeable, StoreConflicts, Conflicts
    <3>3. M[n] = MergeEntry(B[n], O[n], T[n])
      BY <2>1, <3>1, <3>2 DEF MergeStores, Conflicts
    <3> QED
      BY <2>2, <3>1, <3>2, <3>3, StaleVersionGoes DEF Present
  <2> QED
    BY <2>2 DEF Versions
<1> QED
  BY <1>1, <1>2, <1>3

(* The versions the remote has or has had, and those a clone holds.        *)
Known == Versions(remote) \cup retired
Held(c) == Versions(work[c]) \cup Versions(head[c])

(* A known version gets into a clone through its merge base alone, and two *)
(* clones share no version but through the remote.                         *)
Untainted(c) ==
  /\ Versions(work[c]) \cap Known \subseteq Versions(head[c])
  /\ Versions(head[c]) \cap Known \subseteq Versions(base[c])
  /\ Versions(base[c]) \subseteq Known
  /\ \A d \in Clone \ {c} : Held(c) \cap Held(d) \subseteq Known

(* No command makes up a version anybody has seen.                         *)
LEMMA FreshIsNew ==
  ASSUME TypeOK
  PROVE  /\ Fresh \cap Known = {}
         /\ \A c \in Clone : Fresh \cap Held(c) = {}
<1> DEFINE Past == Name \X (1..clock)
<1>1. clock \in Nat /\ remote \in Vault /\ retired \subseteq Past
  BY DEF TypeOK
<1>2. \A c \in Clone : work[c] \in Vault /\ head[c] \in Vault
  BY DEF TypeOK
<1>3. Versions(remote) \subseteq Past
  BY <1>1, ReadTypes
<1>4. \A c \in Clone : Held(c) \subseteq Past
  BY <1>1, <1>2, ReadTypes DEF Held
<1>5. Fresh \cap Past = {}
  BY <1>1 DEF Fresh
<1> QED
  BY <1>1, <1>3, <1>4, <1>5 DEF Known

(* Where a known version can be, for good, as long as no merge is left     *)
(* half-way.                                                               *)
LEMMA RemoteHistory ==
  ASSUME MaxStops = 0
  PROVE  Spec => [](NoResurrection /\ \A c \in Clone : Untainted(c))
<1> DEFINE Books == \A c \in Clone : BooksKept(c)
           IInv == NoResurrection /\ \A c \in Clone : Untainted(c)
<1>1. Init => IInv
  <2> SUFFICES ASSUME Init PROVE IInv
    OBVIOUS
  <2>1. /\ retired = {} /\ remote.store = NoFile
        /\ \A c \in Clone : /\ work[c].store = NoFile /\ head[c].store = NoFile
                            /\ base[c].store = NoFile
    BY DEF Init, InitWith, NoVault
  <2>2. Present(EmptyStore) = {}
    BY DEF Present, EmptyStore
  <2>3. \A v : v.store = NoFile => Versions(v) = {}
    BY <2>2 DEF Versions, AsStore
  <2> QED
    BY <2>1, <2>3 DEF NoResurrection, Untainted, Held
<1>2. TypeOK /\ Books /\ IInv /\ [Next]_vars => IInv'
  <2> SUFFICES ASSUME TypeOK, Books, IInv, [Next]_vars PROVE IInv'
    OBVIOUS
  <2>a. /\ work \in [Clone -> Vault] /\ head \in [Clone -> Vault]
        /\ base \in [Clone -> Vault] /\ remote \in Vault /\ merge \in [Clone -> Merge]
    BY DEF TypeOK
  <2>b. /\ Versions(remote)' = Versions(remote')
        /\ \A c \in Clone : /\ Versions(work[c])' = Versions(work'[c])
                            /\ Versions(head[c])' = Versions(head'[c])
                            /\ Versions(base[c])' = Versions(base'[c])
    BY DEF Versions
  <2>c. /\ Fresh \cap Known = {}
        /\ \A c \in Clone : Fresh \cap Held(c) = {}
    BY FreshIsNew
  (* The remote's versions stay known.                                     *)
  <2>d. ASSUME Record
        PROVE  /\ Known' = Known \cup Versions(remote')
               /\ retired' = retired \cup (Versions(remote) \ Versions(remote'))
    BY <2>b, <2>d DEF Record, Known
  <2>1. CASE UNCHANGED vars
    BY <2>1 DEF vars, git, history, NoResurrection, Untainted, Held, Known, Versions
  (* A step of c that leaves the remote alone, and adds nothing to c but   *)
  (* fresh or known versions.                                              *)
  <2>2. ASSUME NEW c \in Clone, Record, remote' = remote,
               \A d \in Clone \ {c} : /\ work'[d] = work[d] /\ head'[d] = head[d]
                                      /\ base'[d] = base[d],
               Versions(work'[c]) \cap Known \subseteq Versions(head'[c]),
               Versions(head'[c]) \cap Known \subseteq Versions(base'[c]),
               Versions(base'[c]) \subseteq Known,
               Versions(work'[c]) \cup Versions(head'[c]) \subseteq Held(c) \cup Fresh \cup Known
        PROVE  IInv'
    <3>1. Known' = Known /\ retired' = retired /\ Versions(remote)' = Versions(remote)
      BY <2>2, <2>b, <2>d DEF Known
    <3>2. NoResurrection'
      BY <3>1 DEF NoResurrection
    <3>3. Held(c)' \subseteq Held(c) \cup Fresh \cup Known
      BY <2>2, <2>b DEF Held
    <3>4. \A d \in Clone \ {c} : Held(d)' = Held(d)
      BY <2>2, <2>b DEF Held
    <3>5. \A d \in Clone \ {c} : Held(c)' \cap Held(d)' \subseteq Known
      BY <2>c, <3>3, <3>4 DEF Untainted
    <3>6. Untainted(c)'
      BY <2>2, <2>b, <3>1, <3>5 DEF Untainted
    <3>7. ASSUME NEW d \in Clone \ {c} PROVE Untainted(d)'
      <4>1. /\ Versions(work[d])' = Versions(work[d])
            /\ Versions(head[d])' = Versions(head[d])
            /\ Versions(base[d])' = Versions(base[d])
        BY <2>2, <2>b, <3>7
      <4>2. \A e \in Clone \ {d} : Held(d)' \cap Held(e)' \subseteq Known
        BY <3>4, <3>5, <3>7 DEF Untainted
      <4> QED
        BY <3>1, <3>7, <4>1, <4>2 DEF Untainted
    <3> QED
      BY <3>2, <3>6, <3>7
  <2>3. ASSUME NEW c \in Clone, Command(c),
               OnlyEdits(c)
        PROVE  IInv'
    <3>1. /\ UNCHANGED <<head, base, remote>> /\ Record
          /\ \A d \in Clone \ {c} : work'[d] = work[d]
          /\ Versions(work'[c]) \subseteq Versions(work[c]) \cup Fresh
      BY <2>3, EditVersions DEF git
    <3>2. /\ Versions(work'[c]) \cap Known \subseteq Versions(head'[c])
          /\ Versions(head'[c]) \cap Known \subseteq Versions(base'[c])
          /\ Versions(base'[c]) \subseteq Known
      BY <2>c, <3>1 DEF Untainted
    <3>3. Versions(work'[c]) \cup Versions(head'[c]) \subseteq Held(c) \cup Fresh \cup Known
      BY <3>1 DEF Held
    <3> QED
      BY <2>2, <3>1, <3>2, <3>3
  (* A push: HEAD becomes the working tree, re-wrapped.                    *)
  <2>e. ASSUME NEW c \in Clone, Commit(c)
        PROVE  /\ work'[c] = Rewrapped(c) /\ head'[c] = Rewrapped(c)
               /\ \A d \in Clone \ {c} : work'[d] = work[d] /\ head'[d] = head[d]
               /\ Versions(Rewrapped(c)) \subseteq Versions(work[c]) \cup Fresh
    BY <2>a, <2>e, RewrappedVersions DEF Commit
  <2>4. ASSUME NEW c \in Clone, PushFails(c) PROVE IInv'
    <3>1. Commit(c) /\ Record /\ remote' = remote
      BY <2>4 DEF PushFails
    <3>2. base' = base
      BY <2>4 DEF PushFails, Concludes, BooksKept
    <3>3. /\ Versions(work'[c]) \cap Known \subseteq Versions(head'[c])
          /\ Versions(head'[c]) \cap Known \subseteq Versions(base'[c])
          /\ Versions(base'[c]) \subseteq Known
      BY <2>c, <2>e, <3>1, <3>2 DEF Untainted
    <3>4. Versions(work'[c]) \cup Versions(head'[c]) \subseteq Held(c) \cup Fresh \cup Known
      BY <2>e, <3>1 DEF Held
    <3> QED
      BY <2>2, <2>e, <3>1, <3>2, <3>3, <3>4
  <2>5. ASSUME NEW c \in Clone, PushAccepted(c) PROVE IInv'
    <3> DEFINE W == Versions(Rewrapped(c))
    <3>1. Commit(c) /\ Record /\ remote' = Rewrapped(c)
      BY <2>5, <2>e DEF PushAccepted
    <3>2. base'[c] = Rewrapped(c) /\ \A d \in Clone \ {c} : base'[d] = base[d]
      BY <2>5, <2>a, <2>e, <3>1 DEF PushAccepted
    <3>3. remote = base[c]
      BY <2>5 DEF PushAccepted, FastForward, BooksKept
    <3>4. W \subseteq Versions(work[c]) \cup Fresh
      BY <2>e, <3>1
    <3>5. W \cap Known \subseteq Versions(remote)
      BY <2>c, <3>3, <3>4 DEF Untainted
    <3>6. Known' = Known \cup W
      BY <2>d, <3>1
    <3>7. NoResurrection'
      BY <2>b, <2>d, <3>1, <3>5 DEF NoResurrection, Known
    <3>8. /\ Versions(work[c])' = W /\ Versions(head[c])' = W /\ Versions(base[c])' = W
          /\ Held(c)' = W
      BY <2>b, <2>e, <3>1, <3>2 DEF Held
    <3>9. \A d \in Clone \ {c} : /\ Versions(work[d])' = Versions(work[d])
                                 /\ Versions(head[d])' = Versions(head[d])
                                 /\ Versions(base[d])' = Versions(base[d])
                                 /\ Held(d)' = Held(d)
      BY <2>b, <2>e, <3>1, <3>2 DEF Held
    <3>10. \A d \in Clone \ {c} : Held(d) \cap W \subseteq Known
      BY <2>c, <3>4 DEF Untainted, Held
    <3>11. Untainted(c)'
      BY <3>6, <3>8 DEF Untainted
    <3>12. ASSUME NEW d \in Clone \ {c} PROVE Untainted(d)'
      <4>1. /\ Versions(work[d])' \cap Known' \subseteq Versions(head[d])'
            /\ Versions(head[d])' \cap Known' \subseteq Versions(base[d])'
            /\ Versions(base[d])' \subseteq Known'
        BY <3>6, <3>9, <3>10, <3>12 DEF Untainted, Held
      <4>2. \A e \in Clone \ {d} : Held(d)' \cap Held(e)' \subseteq Known'
        BY <3>6, <3>8, <3>9, <3>12 DEF Untainted
      <4> QED
        BY <4>1, <4>2 DEF Untainted
    <3> QED
      BY <3>7, <3>11, <3>12
  <2>6. ASSUME NEW c \in Clone, PullMerges(c) PROVE IInv'
    <3> DEFINE W == Versions(Merged(c, remote))
    <3>1. /\ Record /\ remote' = remote
          /\ head' = [head EXCEPT ![c] = Merged(c, remote)]
          /\ base' = [base EXCEPT ![c] = remote]
          /\ \A d \in Clone \ {c} : work'[d] = work[d]
      BY <2>6, <2>a DEF PullMerges, Conclude
    <3>2. /\ head'[c] = Merged(c, remote) /\ base'[c] = remote
          /\ \A d \in Clone \ {c} : head'[d] = head[d] /\ base'[d] = base[d]
      BY <2>a, <3>1
    <3>3. W \subseteq Versions(head[c]) \cup Versions(base[c]) \cup Versions(remote)
      BY <2>a, MergedVersions
    <3>4. W \cap Versions(base[c]) \subseteq Versions(remote)
      BY <2>6, MergeDropsStale
    <3>5. W \cap Known \subseteq Versions(remote)
      BY <3>3, <3>4 DEF Untainted
    <3>6. Versions(work'[c]) = W \/ /\ W = Versions(head[c])
                                    /\ Versions(work'[c]) \subseteq Versions(work[c])
      <4>1. CASE Touched(c, "store", remote)
        <5>1. work'[c].store = Merged(c, remote).store
          BY <2>6, <2>a, <4>1 DEF PullMerges, Conclude
        <5> QED
          BY <5>1 DEF Versions
      <4>2. CASE ~Touched(c, "store", remote)
        <5>1. work'[c].store = Cleaned(c).store /\ Merged(c, remote).store = head[c].store
          BY <2>6, <2>a, <4>2 DEF PullMerges, Conclude, Merged, BothChanged
        <5>2. AsStore(Cleaned(c).store) \in {AsStore(work[c].store), EmptyStore}
          BY DEF Cleaned, AsStore
        <5>3. Present(EmptyStore) = {}
          BY DEF Present, EmptyStore
        <5> QED
          BY <5>1, <5>2, <5>3 DEF Versions
      <4> QED
        BY <4>1, <4>2
    <3>7. /\ Versions(work'[c]) \cap Known \subseteq Versions(head'[c])
          /\ Versions(head'[c]) \cap Known \subseteq Versions(base'[c])
          /\ Versions(base'[c]) \subseteq Known
      BY <3>2, <3>5, <3>6 DEF Untainted, Known
    <3>8. Versions(work'[c]) \cup Versions(head'[c]) \subseteq Held(c) \cup Fresh \cup Known
      BY <3>2, <3>3, <3>6 DEF Untainted, Known, Held
    <3> QED
      BY <2>2, <3>1, <3>2, <3>7, <3>8
  <2>8. ASSUME NEW c \in Clone, PullCorrupts(c) PROVE IInv'
    <3>1. /\ Record /\ remote' = remote /\ base'[c] = remote
          /\ head'[c].store = Broken /\ work'[c].store = Broken
          /\ \A d \in Clone \ {c} : /\ work'[d] = work[d] /\ head'[d] = head[d]
                                     /\ base'[d] = base[d]
      <4>1. [Merged(c, remote) EXCEPT !.store = Broken].store = Broken
        BY DEF Merged
      <4>2. Touched(c, "store", remote)
        BY <2>8 DEF PullCorrupts, TextMerges, BothChanged
      <4> QED
        BY <2>8, <2>a, <4>1, <4>2 DEF PullCorrupts, Conclude
    <3>2. Versions(head'[c]) = {} /\ Versions(work'[c]) = {}
      BY <3>1 DEF Versions, AsStore, Present, EmptyStore
    <3>3. /\ Versions(work'[c]) \cap Known \subseteq Versions(head'[c])
          /\ Versions(head'[c]) \cap Known \subseteq Versions(base'[c])
          /\ Versions(base'[c]) \subseteq Known
      BY <3>1, <3>2 DEF Known
    <3>4. Versions(work'[c]) \cup Versions(head'[c]) \subseteq Held(c) \cup Fresh \cup Known
      BY <3>2
    <3> QED
      BY <2>2, <3>1, <3>3, <3>4
  <2>7. ASSUME NEW c \in Clone PROVE ~MergeStops(c) /\ ~PullOverMerge(c)
    BY DEF MergeStops, GitPullStops, PullStops, MayStop, PullOverMerge, BooksKept, TypeOK
  <2> QED
    BY <2>1, <2>3, <2>4, <2>5, <2>6, <2>7, <2>8 DEF Next, OnlyEdits
<1> QED
  BY <1>1, <1>2, TypeOKThm, BooksAreKept, PTL DEF Spec

(* A version that left the remote never comes back, provided no merge was  *)
(* left half-way.                                                          *)
THEOREM NoResurrectionThm ==
  ASSUME MaxStops = 0
  PROVE  Spec => []NoResurrection
BY RemoteHistory, PTL

-----------------------------------------------------------------------------
(* Whatever commands run where, and whatever merges stop half-way, an      *)
(* UpdatedAt is that of one sealed entry: wherever two clones, HEADs,      *)
(* merge bases or the remote hold entries of one stamp, the entries are    *)
(* the same.  This is why mergeEntry may compare UpdatedAt alone.          *)
InUse(c) == Holdings(work[c]) \cup Holdings(head[c]) \cup Holdings(base[c])
              \cup Holdings(merge[c].theirs)
Circulating == Holdings(remote) \cup UNION {InUse(c) : c \in Clone}
OneEntryPerStamp ==
  \A g, h \in Circulating : g[2].stamp = h[2].stamp => g[2] = h[2]

LEMMA NothingHeld ==
  ASSUME NEW v, v.store = NoFile
  PROVE  Holdings(v) = {}
BY DEF Holdings, AsStore, Present, EmptyStore

(* Nothing in circulation is stamped with a time to come.                  *)
LEMMA CirculatingIsPast ==
  ASSUME TypeOK
  PROVE  \A h \in Circulating : h[2].stamp \in 1..clock
<1>1. ASSUME NEW v \in Vault PROVE \A h \in Holdings(v) : h[2].stamp \in 1..clock
  <2>1. AsStore(v.store) \in Sealed
    BY ReadTypes DEF TypeOK
  <2> QED
    BY <2>1 DEF Holdings, Present, Sealed
<1>2. \A c \in Clone : /\ work[c] \in Vault /\ head[c] \in Vault /\ base[c] \in Vault
                       /\ merge[c].theirs \in Vault
  BY DEF TypeOK, Merge
<1>3. \A c \in Clone : \A h \in InUse(c) : h[2].stamp \in 1..clock
  BY <1>1, <1>2 DEF InUse
<1> QED
  BY <1>1, <1>3 DEF Circulating, TypeOK

(* One command puts into circulation at most what it seals now.            *)
LEMMA CirculatingGrows ==
  ASSUME TypeOK, NEW c \in Clone, Command(c)
  PROVE  Circulating' \subseteq Circulating \cup SealedNow(c)
<1> DEFINE C == Circulating \cup SealedNow(c)
<1>a. /\ work \in [Clone -> Vault] /\ head \in [Clone -> Vault]
      /\ base \in [Clone -> Vault] /\ remote \in Vault /\ merge \in [Clone -> Merge]
  BY DEF TypeOK
<1>b. /\ Holdings(remote) \subseteq Circulating
      /\ \A d \in Clone : /\ Holdings(work[d]) \subseteq Circulating
                           /\ Holdings(head[d]) \subseteq Circulating
                           /\ Holdings(base[d]) \subseteq Circulating
                           /\ Holdings(merge[d].theirs) \subseteq Circulating
  BY DEF Circulating, InUse
<1>c. ASSUME Holdings(remote') \subseteq C,
             \A d \in Clone : /\ Holdings(work'[d]) \subseteq C /\ Holdings(head'[d]) \subseteq C
                              /\ Holdings(base'[d]) \subseteq C
                              /\ Holdings(merge'[d].theirs) \subseteq C
      PROVE  Circulating' \subseteq C
  <2>1. /\ Holdings(remote)' = Holdings(remote')
        /\ \A d \in Clone : InUse(d)' = Holdings(work'[d]) \cup Holdings(head'[d])
                                          \cup Holdings(base'[d]) \cup Holdings(merge'[d].theirs)
    BY DEF Holdings, InUse
  <2> QED
    BY <1>c, <2>1 DEF Circulating
<1>d. Holdings(Rewrapped(c)) \subseteq C
  BY <1>b, RewrappedHoldings
<1>e. Holdings(Cleaned(c)) \subseteq C
  <2>1. Cleaned(c).store \in {work[c].store, NoFile}
    BY DEF Cleaned
  <2>2. CASE Cleaned(c).store = work[c].store
    BY <1>b, <2>2 DEF Holdings
  <2>3. CASE Cleaned(c).store = NoFile
    BY <2>3, NothingHeld
  <2> QED
    BY <2>1, <2>2, <2>3
<1>f. ASSUME NEW t \in Vault, Holdings(t) \subseteq C PROVE Holdings(Merged(c, t)) \subseteq C
  BY <1>b, <1>f, MergedHoldings
<1>g. Holdings(NoVault) = {}
  BY NothingHeld DEF NoVault
(* The store a step leaves on disk is one of these.                        *)
<1>h. ASSUME NEW v, NEW w, v.store = w.store PROVE Holdings(v) = Holdings(w)
  BY <1>h DEF Holdings
<1>1. CASE PushAccepted(c)
  <2>1. /\ work'[c] = Rewrapped(c) /\ head'[c] = Rewrapped(c) /\ base'[c] = Rewrapped(c)
        /\ remote' = Rewrapped(c)
        /\ \A d \in Clone \ {c} : work'[d] = work[d] /\ head'[d] = head[d] /\ base'[d] = base[d]
    BY <1>1, <1>a DEF PushAccepted, Commit
  <2>2. merge'[c].theirs = NoVault /\ \A d \in Clone \ {c} : merge'[d].theirs = merge[d].theirs
    BY <1>1, <1>a DEF PushAccepted, NoMerge, Merge
  <2> QED
    BY <1>b, <1>c, <1>d, <1>g, <2>1, <2>2
<1>2. CASE PushFails(c)
  <2>1. /\ work'[c] = Rewrapped(c) /\ head'[c] = Rewrapped(c) /\ remote' = remote
        /\ \A d \in Clone \ {c} : work'[d] = work[d] /\ head'[d] = head[d]
    BY <1>2, <1>a DEF PushFails, Commit
  <2>2. /\ base'[c] \in {base[c], merge[c].theirs} /\ merge'[c].theirs \in {NoVault, merge[c].theirs}
        /\ \A d \in Clone \ {c} : base'[d] = base[d] /\ merge'[d] = merge[d]
    <3>1. CASE Concludes(c)
      BY <1>2, <1>a, <3>1 DEF PushFails, NoMerge
    <3>2. CASE ~Concludes(c)
      BY <1>2, <1>a, <3>2 DEF PushFails, Merge
    <3> QED
      BY <3>1, <3>2
  <2> QED
    BY <1>b, <1>c, <1>d, <1>g, <2>1, <2>2
(* Concluding a merge of what is in circulation.                           *)
<1>i. ASSUME NEW t \in Vault, Holdings(t) \subseteq C, NEW v, Holdings(v) \subseteq C,
             Conclude(c, t, v), remote' = remote,
             merge'[c].theirs \in {NoVault, merge[c].theirs},
             \A d \in Clone \ {c} : merge'[d] = merge[d]
      PROVE  Circulating' \subseteq C
  <2>1. /\ head'[c] = v /\ base'[c] = t
        /\ work'[c].store \in {v.store, Cleaned(c).store}
        /\ \A d \in Clone \ {c} : work'[d] = work[d] /\ head'[d] = head[d] /\ base'[d] = base[d]
    BY <1>a, <1>i DEF Conclude
  <2>2. Holdings(work'[c]) \in {Holdings(v), Holdings(Cleaned(c))}
    BY <1>h, <2>1
  <2> QED
    BY <1>b, <1>c, <1>e, <1>g, <1>i, <2>1, <2>2
<1>j. \A v : v.store = Broken => Holdings(v) = {}
  BY DEF Holdings, AsStore, Present, EmptyStore
<1>3. CASE PullMerges(c)
  <2>1. Holdings(Merged(c, remote)) \subseteq C
    BY <1>a, <1>b, <1>f
  <2> QED
    BY <1>a, <1>b, <1>i, <1>3, <2>1 DEF PullMerges
<1>7. CASE PullCorrupts(c)
  <2> DEFINE v == [Merged(c, remote) EXCEPT !.store = Broken]
  <2>1. v.store = Broken
    BY DEF Merged
  <2>2. Holdings(v) \subseteq C
    BY <1>j, <2>1
  <2>3. Conclude(c, remote, v) /\ UNCHANGED <<merge, remote>>
    BY <1>7 DEF PullCorrupts
  <2> HIDE DEF v
  <2> QED
    BY <1>a, <1>b, <1>i, <2>2, <2>3
<1>4. CASE MergeStops(c)
  <2>1. PICK tree \in {Cleaned(c), work[c]}, u \in SUBSET File :
          \E s \in {head[c].store, Broken, Merged(c, remote).store, tree.store} :
            LeaveMerge(c, tree, u, s)
    BY <1>4, WhatStops
  <2>2. PICK s \in {head[c].store, Broken, Merged(c, remote).store, tree.store} :
          LeaveMerge(c, tree, u, s)
    BY <2>1
  <2>3. /\ UNCHANGED <<head, base, remote>> /\ merge'[c].theirs = remote
        /\ \A d \in Clone \ {c} : merge'[d] = merge[d] /\ work'[d] = work[d]
        /\ work'[c].store = s
    BY <1>a, <2>2 DEF LeaveMerge
  <2>4. \/ Holdings(work'[c]) \in {Holdings(head[c]), Holdings(Merged(c, remote)), Holdings(tree)}
        \/ Holdings(work'[c]) = {}
    BY <1>h, <1>j, <2>3
  <2>5. Holdings(tree) \subseteq C
    BY <1>b, <1>e
  <2>6. Holdings(work'[c]) \subseteq C
    BY <1>a, <1>b, <1>f, <2>4, <2>5
  <2> QED
    BY <1>b, <1>c, <2>3, <2>6
<1>5. CASE PullOverMerge(c)
  <2> DEFINE t == merge[c].theirs
  <2>1. t \in Vault /\ Holdings(t) \subseteq C /\ remote' = remote
    BY <1>5, <1>a, <1>b DEF PullOverMerge, Merge
  <2>2. CASE merge[c].unmerged = {}
    <3>1. work' = [work EXCEPT ![c] = Cleaned(c)] /\ UNCHANGED <<head, base, merge>>
      BY <1>5, <2>2 DEF PullOverMerge
    <3> QED
      BY <1>a, <1>b, <1>c, <1>e, <2>1, <3>1
  <2>3. CASE merge[c].unmerged = {"store"} /\ StoreConflicts(c, t) = {}
    <3>1. Conclude(c, t, Merged(c, t)) /\ merge' = [merge EXCEPT ![c] = NoMerge]
      BY <1>5, <2>3 DEF PullOverMerge
    <3>2. merge'[c].theirs = NoVault /\ \A d \in Clone \ {c} : merge'[d] = merge[d]
      BY <1>a, <3>1 DEF NoMerge
    <3>3. Holdings(Merged(c, t)) \subseteq C
      BY <1>f, <2>1
    <3> QED
      BY <1>i, <2>1, <3>1, <3>2, <3>3
  <2>4. CASE /\ merge[c].unmerged # {}
             /\ ~(merge[c].unmerged = {"store"} /\ StoreConflicts(c, t) = {})
    <3>1. Abort(c) /\ UNCHANGED <<head, base>>
      BY <1>5, <2>4 DEF PullOverMerge
    <3>2. /\ work'[c].store \in {head[c].store, Cleaned(c).store}
          /\ \A d \in Clone \ {c} : work'[d] = work[d] /\ merge'[d] = merge[d]
          /\ merge'[c] \in {NoMerge, merge[c]}
      BY <1>a, <3>1 DEF Abort
    <3>3. Holdings(work'[c]) \in {Holdings(head[c]), Holdings(Cleaned(c))}
      BY <1>h, <3>2
    <3> QED
      BY <1>b, <1>c, <1>e, <1>g, <2>1, <3>1, <3>2, <3>3 DEF NoMerge
  <2> QED
    BY <2>2, <2>3, <2>4
<1>6. CASE OnlyEdits(c)
  <2>1. /\ UNCHANGED <<head, base, merge, remote>>
        /\ \A d \in Clone \ {c} : work'[d] = work[d]
        /\ Holdings(work'[c]) \subseteq Holdings(work[c]) \cup SealedNow(c)
    BY <1>6, EditHoldings DEF git
  <2> QED
    BY <1>b, <1>c, <2>1
<1> QED
  BY <1>1, <1>2, <1>3, <1>4, <1>5, <1>6, <1>7 DEF OnlyEdits

LEMMA OneEntryPerStampKept == Spec => []OneEntryPerStamp
<1>1. Init => OneEntryPerStamp
  <2> SUFFICES ASSUME Init PROVE Circulating = {}
    BY DEF OneEntryPerStamp
  <2>1. /\ remote.store = NoFile
        /\ \A c \in Clone : /\ work[c].store = NoFile /\ head[c].store = NoFile
                            /\ base[c].store = NoFile /\ merge[c].theirs.store = NoFile
    BY DEF Init, InitWith, NoVault, NoMerge
  <2>2. \A c \in Clone : InUse(c) = {}
    BY <2>1, NothingHeld DEF InUse
  <2> QED
    BY <2>1, <2>2, NothingHeld DEF Circulating
<1>2. TypeOK /\ OneEntryPerStamp /\ [Next]_vars => OneEntryPerStamp'
  <2> SUFFICES ASSUME TypeOK, OneEntryPerStamp, [Next]_vars PROVE OneEntryPerStamp'
    OBVIOUS
  <2>1. CASE UNCHANGED vars
    <3>1. Circulating' = Circulating
      BY <2>1 DEF vars, git, Circulating, InUse, Holdings
    <3> QED
      BY <3>1 DEF OneEntryPerStamp
  <2>2. ASSUME NEW c \in Clone, Command(c) PROVE OneEntryPerStamp'
    <3>1. Circulating' \subseteq Circulating \cup SealedNow(c)
      BY <2>2, CirculatingGrows
    <3>2. \A h \in Circulating : h[2].stamp \in 1..clock
      BY CirculatingIsPast
    <3>3. \A h \in SealedNow(c) : /\ h[2] = SealEntry(clock + 1, AsRoster(work[c].roster))
                                  /\ h[2].stamp = clock + 1
      BY DEF SealedNow, SealEntry
    <3>4. clock \in Nat
      BY DEF TypeOK
    <3> SUFFICES ASSUME NEW g \in Circulating', NEW h \in Circulating', g[2].stamp = h[2].stamp
                 PROVE  g[2] = h[2]
      BY DEF OneEntryPerStamp
    <3> QED
      BY <3>1, <3>2, <3>3, <3>4 DEF OneEntryPerStamp
  <2> QED
    BY <2>1, <2>2 DEF Next
<1> QED
  BY <1>1, <1>2, TypeOKThm, PTL DEF Spec

(* Then a merge without conflict takes whichever side's change there is.   *)
LEMMA ChangeWins ==
  ASSUME NEW b, NEW o, NEW t, MergeEntry(b, o, t) # Conflict,
         \A x, y \in {b, o, t} \ {Absent} : SameEntry(x, y) => x = y
  PROVE  /\ t # b => MergeEntry(b, o, t) = t
         /\ o # b => MergeEntry(b, o, t) = o
<1>1. CASE b = Absent
  BY <1>1 DEF MergeEntry
<1>2. CASE b # Absent /\ (o = Absent \/ t = Absent)
  BY <1>2 DEF MergeEntry
<1>3. CASE b # Absent /\ o # Absent /\ t # Absent
  <2>1. /\ SameEntry(b, o) <=> b = o
        /\ SameEntry(b, t) <=> b = t
        /\ SameEntry(o, t) <=> o = t
    BY <1>3 DEF SameEntry
  <2> QED
    BY <1>3, <2>1 DEF MergeEntry
<1> QED
  BY <1>1, <1>2, <1>3

(* What a pull commits, secret by secret, from HEAD's side.                *)
LEMMA PulledEntry ==
  ASSUME TypeOK, OneEntryPerStamp, NEW c \in Clone, PullMerges(c), NEW n \in Name
  PROVE  LET was  == AsStore(base[c].store)[n]
             mine == AsStore(head[c].store)[n]
             new  == AsStore(remote.store)[n]
             got  == AsStore(Merged(c, remote).store)[n]
         IN /\ new # was => got = new
            /\ mine # was => got = mine
            /\ ~Touched(c, "store", remote) => got = mine
<1> DEFINE B == AsStore(base[c].store)
           O == AsStore(head[c].store)
           T == AsStore(remote.store)
           M == AsStore(Merged(c, remote).store)
<1>1. CASE ~Touched(c, "store", remote)
  <2>1. /\ Merged(c, remote).store = head[c].store
        /\ remote.store = base[c].store \/ remote.store = head[c].store
    BY <1>1 DEF Merged, BothChanged, Touched
  <2> QED
    BY <2>1
<1>2. CASE Touched(c, "store", remote) /\ ~BothChanged(c, "store", remote)
  <2>1. Merged(c, remote).store = remote.store /\ head[c].store = base[c].store
    BY <1>2 DEF Merged, BothChanged
  <2> QED
    BY <1>2, <2>1
<1>3. CASE BothChanged(c, "store", remote)
  <2>1. M = MergeStores(B, O, T)
    <3>1. MergeStores(B, O, T) \in Sealed /\ clock \in Nat
      BY ReadTypes, MergeStoresType DEF TypeOK
    <3> QED
      BY <1>3, <3>1, Markers DEF Merged, MergedStore, AsStore
  <2>2. MergeEntry(B[n], O[n], T[n]) # Conflict
    BY <1>3 DEF PullMerges, Mergeable, StoreConflicts, Conflicts
  <2>3. M[n] = MergeEntry(B[n], O[n], T[n])
    BY <2>1, <2>2 DEF MergeStores, Conflicts
  <2>4. \A e \in {B[n], O[n], T[n]} \ {Absent} : <<n, e>> \in Circulating
    BY DEF Circulating, InUse, Holdings, Present
  <2>5. \A x, y \in {B[n], O[n], T[n]} \ {Absent} : SameEntry(x, y) => x = y
    BY <2>4 DEF OneEntryPerStamp, SameEntry
  <2>6. /\ T[n] # B[n] => M[n] = T[n]
        /\ O[n] # B[n] => M[n] = O[n]
    BY <2>2, <2>3, <2>5, ChangeWins
  <2> QED
    BY <1>3, <2>6 DEF BothChanged
<1> QED
  BY <1>1, <1>2, <1>3

(* Where HEAD already has the remote's change, so has the working tree:    *)
(* the version the change replaced cannot have come back into it.          *)
LEMMA ChangeNotUndone ==
  ASSUME TypeOK, OneEntryPerStamp, NEW c \in Clone, Untainted(c), NEW n \in Name,
         AsStore(head[c].store)[n] = AsStore(remote.store)[n],
         AsStore(remote.store)[n] # AsStore(base[c].store)[n]
  PROVE  AsStore(work[c].store)[n] # AsStore(base[c].store)[n]
<1> DEFINE B == AsStore(base[c].store)
           O == AsStore(head[c].store)
           T == AsStore(remote.store)
           W == AsStore(work[c].store)
<1>1. ASSUME T[n] # Absent PROVE B[n] # Absent /\ B[n].stamp = T[n].stamp
  <2>1. <<n, T[n].stamp>> \in Versions(head[c]) \cap Known
    BY <1>1 DEF Versions, Present, Known
  <2>2. <<n, T[n].stamp>> \in Versions(base[c])
    BY <2>1 DEF Untainted
  <2> QED
    BY <2>2 DEF Versions, Present
<1>2. ASSUME NEW x \in {B[n], O[n], T[n]}, NEW y \in {B[n], O[n], T[n]},
             x # Absent, y # Absent, x.stamp = y.stamp
      PROVE  x = y
  <2>1. <<n, x>> \in Circulating /\ <<n, y>> \in Circulating
    BY <1>2 DEF Circulating, InUse, Holdings, Present
  <2> QED
    BY <1>2, <2>1 DEF OneEntryPerStamp
<1>3. T[n] = Absent /\ B[n] # Absent
  BY <1>1, <1>2
<1>4. SUFFICES ASSUME W[n] = B[n] PROVE FALSE
  OBVIOUS
<1>5. <<n, B[n].stamp>> \in Versions(work[c]) \cap Versions(base[c])
  BY <1>3, <1>4 DEF Versions, Present
<1>6. <<n, B[n].stamp>> \in Versions(head[c])
  BY <1>5 DEF Untainted
<1>7. O[n] # Absent
  BY <1>6 DEF Versions, Present
<1> QED
  BY <1>3, <1>7

(* A pull that merges loses no change of either side, provided no merge    *)
(* was left half-way.                                                      *)
THEOREM PullMergesBothSidesThm ==
  ASSUME MaxStops = 0
  PROVE  Spec => PullMergesBothSides
<1> DEFINE Bothsides(c, n) ==
             LET was  == AsStore(base[c].store)[n]
                 mine == AsStore(work[c].store)[n]
                 new  == AsStore(remote.store)[n]
                 now  == AsStore(work[c].store)'[n]
             IN /\ new # was => AsStore(head[c].store)'[n] = new
                /\ new # was /\ mine = was => now = new
                /\ LocalChange(c, n) /\ head[c].store # NoFile => now = mine
           IInv == OneEntryPerStamp /\ \A c \in Clone : Untainted(c)
<1>1. TypeOK /\ IInv /\ [Next]_vars =>
        [\A c \in Clone : PullMerges(c) => \A n \in Name : Bothsides(c, n)]_vars
  <2> SUFFICES ASSUME TypeOK, OneEntryPerStamp, NEW c \in Clone, Untainted(c), PullMerges(c),
                      NEW n \in Name
               PROVE  Bothsides(c, n)
    OBVIOUS
  <2> DEFINE was  == AsStore(base[c].store)[n]
             mine == AsStore(work[c].store)[n]
             new  == AsStore(remote.store)[n]
             old  == AsStore(head[c].store)[n]
             got  == AsStore(Merged(c, remote).store)[n]
             now  == AsStore(work'[c].store)[n]
  <2>1. /\ new # was => got = new
        /\ old # was => got = old
        /\ ~Touched(c, "store", remote) => got = old
    BY PulledEntry
  <2>2. AsStore(head[c].store)'[n] = got
    BY DEF PullMerges, Conclude, TypeOK, AsStore
  <2>3. AsStore(work[c].store)'[n] = now
    BY DEF AsStore
  <2>4. head[c].store # NoFile => Cleaned(c).store = work[c].store
    BY DEF Cleaned, Tracked
  <2>5. CASE Touched(c, "store", remote)
    <3>1. now = got
      BY <2>5 DEF PullMerges, Conclude, TypeOK
    <3>2. head[c].store # NoFile => mine = old
      BY <2>4, <2>5 DEF PullMerges, Mergeable, Refused, RefusedIn, File
    <3> QED
      BY <2>1, <2>2, <2>3, <3>1, <3>2 DEF LocalChange
  <2>6. CASE ~Touched(c, "store", remote)
    <3>1. now = AsStore(Cleaned(c).store)[n]
      BY <2>6 DEF PullMerges, Conclude, TypeOK
    <3>2. head[c].store # NoFile => now = mine
      BY <2>4, <3>1
    <3>3. ~(new # was /\ mine = was)
      BY <2>1, <2>6, ChangeNotUndone
    <3> QED
      BY <2>1, <2>2, <2>3, <3>2, <3>3
  <2> QED
    BY <2>5, <2>6
<1> QED
  BY <1>1, TypeOKThm, OneEntryPerStampKept, RemoteHistory, PTL DEF Spec, PullMergesBothSides
=============================================================================
