---------------------------- MODULE MCStoreMerge ----------------------------
(* StoreMerge on two names, three stamps and two rosters: an entry sealed  *)
(* for a alone, or for everyone.                                           *)
EXTENDS StoreMerge

CONSTANTS a, b

MCStamp   == 1..3
MCReaders == {[i \in ID |-> 1], [i \in ID |-> IF i = a THEN 1 ELSE 0]}
=============================================================================
