CONSTANTS
  Name = {x}
  x = x
  y = y
  alice = alice
  bob = bob
  a = a
  b = b
  ID = {a, b}
  Clone = {alice, bob}
  Home <- MCHome
  Declaring = {}
  Upgraded = {}
  Members = {a}
  Movers = {b}
  Absent = Absent
  Conflict = Conflict
  NoFile = NoFile
  Broken = Broken
  MaxStamp = 0
  MaxGen = 1
  MaxStops = 0
SPECIFICATION PullingSpec
PROPERTIES
  OnboardingCompletes
