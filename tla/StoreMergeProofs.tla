-------------------------- MODULE StoreMergeProofs --------------------------
(***************************************************************************)
(* The merge of secrets stores (internal/vault/merge.go) for every set of  *)
(* names, stamps, rosters and recipients.                                  *)
(*                                                                         *)
(* Everything follows from one fact about the code's table of rules: on    *)
(* entries of which no two share an UpdatedAt without being the same, it   *)
(* is the three-way merge (EntryRule).  The invariant that makes the fact  *)
(* apply is Consistent: all the stores in play are drawn from one set of   *)
(* sealed versions, and a merge adds none.                                 *)
(***************************************************************************)
EXTENDS StoreMerge, TLAPS

OneVersionPerStamp(V) == \A e, f \in V : e.stamp = f.stamp => e = f

DrawnFrom(V) == [Name -> V \cup {Absent}]

Consistent ==
  \E V \in SUBSET Entry :
    /\ OneVersionPerStamp(V)
    /\ base \in DrawnFrom(V) /\ ours \in DrawnFrom(V)
    /\ theirs \in DrawnFrom(V) /\ third \in DrawnFrom(V)

(* The thirteen rules of mergeEntry on versions told apart by their stamp. *)
LEMMA EntryRule ==
  ASSUME NEW V \in SUBSET Entry, OneVersionPerStamp(V),
         NEW b \in V \cup {Absent}, NEW o \in V \cup {Absent},
         NEW t \in V \cup {Absent}
  PROVE  MergeEntry(b, o, t) =
           IF o # b /\ t # b /\ o # t THEN Conflict
           ELSE IF t # b THEN t ELSE o
<1>1. Absent \notin V
  BY MarkersAssumption
<1>2. \A e, f \in V : SameEntry(e, f) <=> e = f
  BY DEF OneVersionPerStamp, SameEntry
<1>3. CASE b = Absent
  BY <1>1, <1>2, <1>3 DEF MergeEntry
<1>4. CASE b # Absent /\ (o = Absent \/ t = Absent)
  BY <1>1, <1>2, <1>4 DEF MergeEntry
<1>5. CASE b # Absent /\ o # Absent /\ t # Absent
  BY <1>1, <1>2, <1>5 DEF MergeEntry
<1> QED
  BY <1>3, <1>4, <1>5

(* MergeStores name by name.                                               *)
LEMMA StoreRule ==
  ASSUME NEW V \in SUBSET Entry, OneVersionPerStamp(V),
         NEW b \in DrawnFrom(V), NEW o \in DrawnFrom(V), NEW t \in DrawnFrom(V)
  PROVE  /\ Conflicts(b, o, t) =
              {n \in Name : o[n] # b[n] /\ t[n] # b[n] /\ o[n] # t[n]}
         /\ MergeStores(b, o, t) =
              [n \in Name |->
                 IF o[n] # b[n] /\ t[n] # b[n] /\ o[n] # t[n] THEN Absent
                 ELSE IF t[n] # b[n] THEN t[n] ELSE o[n]]
         /\ MergeStores(b, o, t) \in DrawnFrom(V)
<1>1. \A n \in Name :
        MergeEntry(b[n], o[n], t[n]) =
          IF o[n] # b[n] /\ t[n] # b[n] /\ o[n] # t[n] THEN Conflict
          ELSE IF t[n] # b[n] THEN t[n] ELSE o[n]
  <2> SUFFICES ASSUME NEW n \in Name
               PROVE  MergeEntry(b[n], o[n], t[n]) =
                        IF o[n] # b[n] /\ t[n] # b[n] /\ o[n] # t[n] THEN Conflict
                        ELSE IF t[n] # b[n] THEN t[n] ELSE o[n]
    OBVIOUS
  <2>1. b[n] \in V \cup {Absent} /\ o[n] \in V \cup {Absent} /\ t[n] \in V \cup {Absent}
    BY DEF DrawnFrom
  <2> QED
    BY <2>1, EntryRule
<1>2. \A n \in Name : o[n] # Conflict /\ t[n] # Conflict
  BY MarkersAssumption DEF DrawnFrom
<1>3. Conflicts(b, o, t) = {n \in Name : o[n] # b[n] /\ t[n] # b[n] /\ o[n] # t[n]}
  BY <1>1, <1>2 DEF Conflicts
<1>4. MergeStores(b, o, t) =
        [n \in Name |-> IF o[n] # b[n] /\ t[n] # b[n] /\ o[n] # t[n] THEN Absent
                        ELSE IF t[n] # b[n] THEN t[n] ELSE o[n]]
  BY <1>1, <1>3 DEF MergeStores
<1>5. MergeStores(b, o, t) \in DrawnFrom(V)
  BY <1>4 DEF DrawnFrom
<1> QED
  BY <1>3, <1>4, <1>5

-----------------------------------------------------------------------------
(* All the stores a behaviour of pulls meets are drawn from the versions   *)
(* that were sealed before it: a merge invents no entry.                   *)
THEOREM ConsistentThm == Spec => []Consistent
<1>1. Init => Consistent
  <2> SUFFICES ASSUME Init PROVE Consistent
    OBVIOUS
  <2>1. PICK readers \in [Stamp -> Readers] :
          LET sealed == [s \in Stamp |-> SealEntry(s, readers[s])]
          IN /\ base \in StoresOf(sealed) /\ ours \in StoresOf(sealed)
             /\ theirs \in StoresOf(sealed) /\ third \in StoresOf(sealed)
    BY DEF Init
  <2> DEFINE sealed == [s \in Stamp |-> SealEntry(s, readers[s])]
             V == {sealed[s] : s \in Stamp}
  <2>2. V \in SUBSET Entry
    BY InputsAssumption DEF SealEntry, Entry
  <2>3. OneVersionPerStamp(V)
    BY DEF OneVersionPerStamp, SealEntry
  <2>4. StoresOf(sealed) = DrawnFrom(V)
    BY DEF StoresOf, DrawnFrom
  <2> QED
    BY <2>1, <2>2, <2>3, <2>4 DEF Consistent
<1>2. Consistent /\ [Next]_vars => Consistent'
  <2> SUFFICES ASSUME Consistent, [Next]_vars PROVE Consistent'
    OBVIOUS
  <2>1. PICK V \in SUBSET Entry :
          /\ OneVersionPerStamp(V)
          /\ base \in DrawnFrom(V) /\ ours \in DrawnFrom(V)
          /\ theirs \in DrawnFrom(V) /\ third \in DrawnFrom(V)
    BY DEF Consistent
  <2>2. CASE Pull
    <3>1. MergeStores(base, ours, theirs) \in DrawnFrom(V)
      BY <2>1, StoreRule
    <3>2. /\ base' \in DrawnFrom(V) /\ ours' \in DrawnFrom(V)
          /\ theirs' \in DrawnFrom(V) /\ third' \in DrawnFrom(V)
      BY <2>1, <2>2, <3>1 DEF Pull
    <3> QED
      BY <2>1, <3>2 DEF Consistent
  <2>3. CASE UNCHANGED vars
    BY <2>1, <2>3 DEF Consistent, vars
  <2> QED
    BY <2>2, <2>3 DEF Next
<1> QED
  BY <1>1, <1>2, PTL DEF Spec

-----------------------------------------------------------------------------
(* The rules of MergeStores are the three-way merge of the two branches:   *)
(* no addition, update or deletion of either side is lost or invented.     *)
THEOREM MergeIsThreeWayThm == Spec => []MergeIsThreeWay
<1>1. Consistent => MergeIsThreeWay
  <2> SUFFICES ASSUME NEW V \in SUBSET Entry, OneVersionPerStamp(V),
                      base \in DrawnFrom(V), ours \in DrawnFrom(V),
                      theirs \in DrawnFrom(V)
               PROVE  MergeIsThreeWay
    BY DEF Consistent
  <2>1. Conflicts(base, ours, theirs) = Clash(base, ours, theirs)
    BY StoreRule DEF Clash, Changed
  <2>2. ASSUME Conflicts(base, ours, theirs) = {}
        PROVE  MergeStores(base, ours, theirs) = ThreeWay(base, ours, theirs)
    BY <2>2, StoreRule DEF ThreeWay, Changed
  <2> QED
    BY <2>1, <2>2 DEF MergeIsThreeWay
<1> QED
  BY <1>1, ConsistentThm, PTL

(* Whoever pulls from whom, the merge is the same.                         *)
THEOREM MergeIsSymmetricThm == Spec => []MergeIsSymmetric
<1>1. Consistent => MergeIsSymmetric
  <2> SUFFICES ASSUME NEW V \in SUBSET Entry, OneVersionPerStamp(V),
                      base \in DrawnFrom(V), ours \in DrawnFrom(V),
                      theirs \in DrawnFrom(V)
               PROVE  MergeIsSymmetric
    BY DEF Consistent
  <2>1. Conflicts(base, ours, theirs) = Conflicts(base, theirs, ours)
    BY StoreRule
  <2>2. MergeStores(base, ours, theirs) = MergeStores(base, theirs, ours)
    <3> DEFINE either(o, t, n) ==
          IF o[n] # base[n] /\ t[n] # base[n] /\ o[n] # t[n] THEN Absent
          ELSE IF t[n] # base[n] THEN t[n] ELSE o[n]
    <3>1. \A n \in Name : either(ours, theirs, n) = either(theirs, ours, n)
      OBVIOUS
    <3>2. /\ MergeStores(base, ours, theirs) = [n \in Name |-> either(ours, theirs, n)]
          /\ MergeStores(base, theirs, ours) = [n \in Name |-> either(theirs, ours, n)]
      BY StoreRule
    <3> HIDE DEF either
    <3> QED
      BY <3>1, <3>2
  <2> QED
    BY <2>1, <2>2 DEF MergeIsSymmetric
<1> QED
  BY <1>1, ConsistentThm, PTL

(* Merging two branches into a third, one after the other, gives the same  *)
(* store in either order when no two of the three clash.                   *)
THEOREM MergeOrderIrrelevantThm == Spec => []MergeOrderIrrelevant
<1>1. Consistent => MergeOrderIrrelevant
  <2> SUFFICES ASSUME NEW V \in SUBSET Entry, OneVersionPerStamp(V),
                      base \in DrawnFrom(V), ours \in DrawnFrom(V),
                      theirs \in DrawnFrom(V), third \in DrawnFrom(V),
                      Conflicts(base, ours, theirs) = {},
                      Conflicts(base, ours, third) = {},
                      Conflicts(base, theirs, third) = {}
               PROVE  LET first  == MergeStores(base, theirs, ours)
                          second == MergeStores(base, third, ours)
                      IN /\ Conflicts(base, third, first) = {}
                         /\ Conflicts(base, theirs, second) = {}
                         /\ MergeStores(base, third, first) = MergeStores(base, theirs, second)
    BY DEF Consistent, MergeOrderIrrelevant
  <2> DEFINE first  == MergeStores(base, theirs, ours)
             second == MergeStores(base, third, ours)
  <2>1. \A n \in Name : /\ ours[n] # base[n] /\ theirs[n] # base[n] => ours[n] = theirs[n]
                        /\ ours[n] # base[n] /\ third[n] # base[n] => ours[n] = third[n]
                        /\ theirs[n] # base[n] /\ third[n] # base[n] => theirs[n] = third[n]
    BY StoreRule
  <2>2. /\ first \in DrawnFrom(V) /\ second \in DrawnFrom(V)
        /\ \A n \in Name : first[n] = IF ours[n] # base[n] THEN ours[n] ELSE theirs[n]
        /\ \A n \in Name : second[n] = IF ours[n] # base[n] THEN ours[n] ELSE third[n]
    BY <2>1, StoreRule
  <2> HIDE DEF first, second
  <2>3. Conflicts(base, third, first) = {} /\ Conflicts(base, theirs, second) = {}
    BY <2>1, <2>2, StoreRule
  <2>4. \A n \in Name : MergeStores(base, third, first)[n] = MergeStores(base, theirs, second)[n]
    BY <2>1, <2>2, StoreRule
  <2>5. MergeStores(base, third, first) \in DrawnFrom(V) /\ MergeStores(base, theirs, second) \in DrawnFrom(V)
    BY <2>2, StoreRule
  <2>6. MergeStores(base, third, first) = MergeStores(base, theirs, second)
    BY <2>4, <2>5 DEF DrawnFrom
  <2> QED
    BY <2>3, <2>6 DEF first, second
<1> QED
  BY <1>1, ConsistentThm, PTL

(* A reader a merge takes an entry away from is named in a warning.        *)
THEOREM LostReadersAreWarnedThm == Spec => []LostReadersAreWarned
<1>1. Consistent => LostReadersAreWarned
  <2> SUFFICES ASSUME NEW V \in SUBSET Entry, OneVersionPerStamp(V),
                      base \in DrawnFrom(V), ours \in DrawnFrom(V),
                      theirs \in DrawnFrom(V),
                      Conflicts(base, ours, theirs) = {},
                      NEW n \in Present(MergeStores(base, ours, theirs)) \cap Present(base),
                      NEW side \in {ours, theirs}, side[n] # Absent,
                      NEW i \in Recipients(side[n])
                                  \ Recipients(MergeStores(base, ours, theirs)[n])
               PROVE  <<n, i>> \in DropWarnings(base, ours, theirs)
    BY DEF Consistent, LostReadersAreWarned
  <2> DEFINE merged == MergeStores(base, ours, theirs)
  <2>1. n \in Name /\ i \in ID /\ base[n] # Absent /\ merged[n] # Absent
    BY DEF Present, Recipients, Ids
  <2>2. /\ ours[n] # base[n] /\ theirs[n] # base[n] => ours[n] = theirs[n]
        /\ merged[n] = IF theirs[n] # base[n] THEN theirs[n] ELSE ours[n]
    BY <2>1, StoreRule
  <2> HIDE DEF merged
  <2>3. i \notin Recipients(merged[n]) /\ i \in Recipients(side[n])
    BY DEF merged
  <2>4. base[n] \in V /\ ours[n] \in V /\ theirs[n] \in V
    BY <2>1, <2>2 DEF DrawnFrom
  <2>5. /\ SameEntry(base[n], ours[n]) <=> base[n] = ours[n]
        /\ SameEntry(base[n], theirs[n]) <=> base[n] = theirs[n]
    BY <2>4 DEF OneVersionPerStamp, SameEntry
  <2>6. CASE ours[n] = base[n] /\ theirs[n] # base[n]
    <3>1. i \in LostReaders(base[n], theirs[n])
      BY <2>2, <2>3, <2>6 DEF LostReaders
    <3>2. Absent \notin {base[n], ours[n], theirs[n]}
      BY <2>1, <2>2, <2>6
    <3> QED
      BY <2>1, <2>5, <2>6, <3>1, <3>2 DEF DropWarnings
  <2>7. CASE ours[n] # base[n] /\ theirs[n] = base[n]
    <3>1. i \in LostReaders(base[n], ours[n])
      BY <2>2, <2>3, <2>7 DEF LostReaders
    <3>2. Absent \notin {base[n], ours[n], theirs[n]}
      BY <2>1, <2>2, <2>7
    <3> QED
      BY <2>1, <2>5, <2>7, <3>1, <3>2 DEF DropWarnings
  <2>8. CASE ours[n] = theirs[n]
    BY <2>2, <2>3, <2>8
  <2> QED
    BY <2>2, <2>6, <2>7, <2>8
<1> QED
  BY <1>1, ConsistentThm, PTL
=============================================================================
