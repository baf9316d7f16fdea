----------------------------- MODULE StoreMerge -----------------------------
(***************************************************************************)
(* The secret-level merge of VaultStore over every triple of small stores. *)
(* A behaviour starts from a common ancestor and three branches of it; one *)
(* step is what `cifra pull` does with the merge: the local branch becomes *)
(* the merged store and the remote tip the new ancestor.                   *)
(***************************************************************************)
EXTENDS VaultStore

CONSTANTS Stamp,    \* the UpdatedAt values in play
          Readers   \* the recipient rosters an entry may be sealed for

VARIABLES base, ours, theirs, third

vars == <<base, ours, theirs, third>>

ASSUME InputsAssumption == Stamp \subseteq Nat /\ Readers \subseteq Roster

(* Two copies of an entry with one UpdatedAt are copies of one sealed      *)
(* version: every seal and every re-wrap takes time.Now() afresh.          *)
StoresOf(sealed) == [Name -> {sealed[s] : s \in Stamp} \cup {Absent}]

Init ==
  \E readers \in [Stamp -> Readers] :
    LET sealed == [s \in Stamp |-> SealEntry(s, readers[s])]
    IN /\ base \in StoresOf(sealed)
       /\ ours \in StoresOf(sealed)
       /\ theirs \in StoresOf(sealed)
       /\ third \in StoresOf(sealed)

(* A pull whose merge has no conflicting entry.                            *)
Pull ==
  /\ Conflicts(base, ours, theirs) = {}
  /\ ours' = MergeStores(base, ours, theirs)
  /\ base' = theirs
  /\ UNCHANGED <<theirs, third>>

Next == Pull

Spec == Init /\ [][Next]_vars

-----------------------------------------------------------------------------
(* The reference: a three-way merge by full equality of what the branches  *)
(* hold, in two rules.                                                     *)
Changed(x, b) == {n \in Name : x[n] # b[n]}
Clash(b, o, t) == {n \in Changed(o, b) \cap Changed(t, b) : o[n] # t[n]}
ThreeWay(b, o, t) == [n \in Name |-> IF n \in Changed(t, b) THEN t[n] ELSE o[n]]

(* The thirteen merge rules, which compare UpdatedAt only, agree with the  *)
(* reference: an entry is reported as a conflict exactly when both sides   *)
(* changed it differently, and otherwise the result carries the change of  *)
(* whichever side made one, a deletion included.                           *)
MergeIsThreeWay ==
  /\ Conflicts(base, ours, theirs) = Clash(base, ours, theirs)
  /\ Conflicts(base, ours, theirs) = {}
       => MergeStores(base, ours, theirs) = ThreeWay(base, ours, theirs)

(* It does not matter who pulls: the two sides of a merge find the same    *)
(* conflicts and, without one, the same store.                             *)
MergeIsSymmetric ==
  /\ Conflicts(base, ours, theirs) = Conflicts(base, theirs, ours)
  /\ MergeStores(base, ours, theirs) = MergeStores(base, theirs, ours)

(* Three branches that clash nowhere end in one store whichever of them is *)
(* merged last, and the second merge finds no conflict the first pairing   *)
(* did not have: the vault a team ends with does not depend on the order   *)
(* of their pulls.                                                         *)
MergeOrderIrrelevant ==
  (/\ Conflicts(base, ours, theirs) = {}
   /\ Conflicts(base, ours, third) = {}
   /\ Conflicts(base, theirs, third) = {}) =>
     LET first  == MergeStores(base, theirs, ours)
         second == MergeStores(base, third, ours)
     IN /\ Conflicts(base, third, first) = {}
        /\ Conflicts(base, theirs, second) = {}
        /\ MergeStores(base, third, first) = MergeStores(base, theirs, second)

(* No reader of an entry that survives the merge disappears from it        *)
(* without a warning: each ID that one of the two sides wrapped the entry  *)
(* for and that the merged entry is not wrapped for is named to the user.  *)
LostReadersAreWarned ==
  Conflicts(base, ours, theirs) = {} =>
    LET merged == MergeStores(base, ours, theirs)
    IN \A n \in Present(merged) \cap Present(base) : \A side \in {ours, theirs} :
         side[n] # Absent =>
           \A i \in Recipients(side[n]) \ Recipients(merged[n]) :
             <<n, i>> \in DropWarnings(base, ours, theirs)
=============================================================================
