CONSTANTS
  mcp = mcp
  term = term
  Proc = {mcp, term}
  me = me
  bob = bob
  Key = {me, bob}
  k1 = k1
  k2 = k2
  Env = {k1, k2}
  first = k1
  pem = pem
  Secret = pem
  v1 = v1
  v2 = v2
  Value = {v1, v2}
  Content = v2
  NoEntry = NoEntry
  MaxSeals = 3
  MaxSent = 2
  MaxTyped = 2
  Line <- MCLine
  Typed <- MCTyped
SPECIFICATION FairSpec
INVARIANTS
  TypeOK
  AnswersMatch
  ValuesKept
  PlaintextKept
  RevokedByRotation
PROPERTIES
  EveryRequestAnswered
CHECK_DEADLOCK FALSE
