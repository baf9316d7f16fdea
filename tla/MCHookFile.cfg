CONSTANTS
  Line = {"npm test", "make lint"}
  me = me
  bob = bob
  Id = {me, bob}
  Listed <- MCListed
  Backend = "linux"
  MaxLines = 2
  MaxTears = 1
SPECIFICATION Spec
INVARIANTS
  TypeOK
  ComesOff
  KeysGoFirst
PROPERTIES
  BlockStandsAlone
  UserLinesKept
  RestoredExactly
