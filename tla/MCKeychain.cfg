CONSTANTS
  Process = {p1, p2}
  Pass = {w1, w2}
  Temp = {t1, t2}
  None = None
  Raw = Raw
  Newer = Newer
  Backend = "macos"
  Careful = TRUE
  MaxKeys = 3
SPECIFICATION Spec
INVARIANTS
  TypeOK
  KeyKept
CHECK_DEADLOCK FALSE
