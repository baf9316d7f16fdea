------------------------------ MODULE AuditLog ------------------------------
(***************************************************************************)
(* The lines of .cifra/ai-secure.log and the hash chain through them       *)
(* (internal/audit).  A hash is the tuple of what it digests: two entries  *)
(* with one hash are one entry.                                            *)
(***************************************************************************)
EXTENDS Naturals, Sequences

(* A line that does not parse as an entry, whatever is in it.              *)
Garbage == [parses |-> FALSE]

NoHash == <<>>         \* the "prev" of the first entry

(* computeHash digests every other field; "what" stands for the time, the  *)
(* tool, the action, the target and the pattern.                           *)
ComputeHash(e) == <<e.what, e.prev>>

NewEntry(what, prev) ==
  [what |-> what, prev |-> prev,
   hash |-> ComputeHash([what |-> what, prev |-> prev])]

(* lastHash skips the lines at the end that do not parse.                  *)
EntriesOf(log) == {i \in DOMAIN log : log[i] # Garbage}
LastHashOfFirst(log) == IF EntriesOf(log) = {} THEN NoHash ELSE log[1].hash
LastHash(log) ==
  IF EntriesOf(log) = {} THEN NoHash
  ELSE log[CHOOSE i \in EntriesOf(log) : \A j \in EntriesOf(log) : j <= i].hash

(* LoadEntries fails on the first line that does not parse.                *)
Parses(log) == \A i \in DOMAIN log : log[i] # Garbage

VerifyChain(log) ==
  \A i \in DOMAIN log :
    /\ log[i].prev = IF i = 1 THEN NoHash ELSE log[i - 1].hash
    /\ log[i].hash = ComputeHash(log[i])

(* One write(2) to a file opened with O_APPEND.  What comes after a line   *)
(* that lost its newline joins that line.                                  *)
AddLine(log, ragged, line) ==
  IF ragged THEN [log EXCEPT ![Len(log)] = Garbage] ELSE Append(log, line)
=============================================================================
