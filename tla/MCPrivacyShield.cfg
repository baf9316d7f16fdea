CONSTANTS
  Backslash = Backslash
  read = read
  shell = shell
  src = src
  etc = etc
  short = short
  long = long
  quoted = quoted
  s = s
  t = t
  q = q
  z1 = z1
  z2 = z2
  z3 = z3
  alice = alice
  bob = bob
  Id = {alice, bob}
  Escape = {q}
  Token = {s, t, q, z1, z2, z3, Backslash}
  Secret = {short, long, quoted}
  Value <- MCValue
  Base64 <- MCBase64
  Call = {read, shell}
  Tool <- MCTool
  Words <- MCWords
  Pattern = {src, etc}
  Output <- MCOutput
  Names <- MCNames
  Recipients <- MCRecipients
  Wraps <- MCWraps
  MaxEdits = 2
  MaxFailures = 1
SPECIFICATION Spec
INVARIANTS
  TypeOK
  CoveredIsBlocked
  ReportsKept
  ChainHolds
  OutputMasked
CHECK_DEADLOCK FALSE
