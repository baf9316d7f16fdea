CONSTANTS
  Name = {x, y}
  a = a
  b = b
  ID = {a, b}
  Absent = Absent
  Conflict = Conflict
  Stamp <- MCStamp
  Readers <- MCReaders
SPECIFICATION Spec
INVARIANTS
  MergeIsThreeWay
  MergeIsSymmetric
  MergeOrderIrrelevant
  LostReadersAreWarned
CHECK_DEADLOCK FALSE
