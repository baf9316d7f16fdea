CONSTANTS
  Name = {x}
  x = x
  y = y
  alice = alice
  bob = bob
  a = a
  b = b
  ID = {a, b}
  Clone = {alice, bob}
  Home <- MCHome
  Declaring = {}
  Upgraded = {alice}
  Members = {a}
  Movers = {b}
  Absent = Absent
  Conflict = Conflict
  NoFile = NoFile
  Broken = Broken
  MaxStamp = 3
  MaxGen = 1
  MaxStops = 1
SPECIFICATION Spec
PROPERTIES
  ConflictsStayOpen
