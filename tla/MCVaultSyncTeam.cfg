CONSTANTS
  Name = {x, y}
  x = x
  y = y
  alice = alice
  bob = bob
  a = a
  b = b
  ID = {a, b}
  Clone = {alice, bob}
  Home <- MCHome
  Declaring = {}
  Upgraded = {alice, bob}
  Members = {a, b}
  Movers = {}
  Absent = Absent
  Conflict = Conflict
  NoFile = NoFile
  Broken = Broken
  MaxStamp = 2
  MaxGen = 1
  MaxStops = 0
SPECIFICATION SyncingSpec
INVARIANTS
  NoResurrection
PROPERTIES
  NoBlindOverwrite
  PullMergesBothSides
  TeamConverges
