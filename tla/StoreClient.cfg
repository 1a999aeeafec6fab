SPECIFICATION FairSpec
\* The calls are finitely many and end: the system stops when they have.
CHECK_DEADLOCK FALSE
CONSTANTS
  Calls = {c1, c2}
  Conns = {k1}
  MaxRetries = 2
  NoConn = NoConn
INVARIANTS
  ConnOwned
  LateByMissed
  ExecutedOnTries
PROPERTIES
  CallsEnd
  CloseCompletes
