CONSTANTS
  Name = {x}
  x = x
  y = y
  alice = alice
  bob = bob
  a = a
  b = b
  ID = {a, b}
  Clone = {alice, bob}
  Home <- MCHome
  Declaring = {alice}
  Upgraded = {}
  Members = {a}
  Movers = {b}
  Absent = Absent
  Conflict = Conflict
  NoFile = NoFile
  Broken = Broken
  MaxStamp = 2
  MaxGen = 1
  MaxStops = 1
SPECIFICATION Spec
INVARIANTS
  TypeOK
  RemoteAligned
  NoMarkersCommitted
