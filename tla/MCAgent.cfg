CONSTANTS
  Client = {c1, c2}
  Process = {p1, p2}
  Nobody = Nobody
  Watched = {"lock"}
  Uses <- MCUses
  c1 = c1
  c2 = c2
  MaxUnlocks = 1
SPECIFICATION FairSpec
INVARIANTS
  TypeOK
  LockIsFinal
PROPERTIES
  CallsReturn
  ExpiredKeysErased
