SPECIFICATION Spec
CHECK_DEADLOCK FALSE
CONSTANTS
  Calls = {c1, c2}
  Conns = {k1, k2}
  MaxRetries = 1
  NoConn = NoConn
INVARIANT
  OwnAnswer
