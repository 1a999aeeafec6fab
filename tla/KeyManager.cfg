CONSTANTS
  Handlers = {h1, h2}
  Clients = {o1}
  Codes = {a1}
  Tokens = {t1, t2, t3}
  MaxStoreFailures = 1
  Keys = {k1, k2}
  Calls = {c1, c2}
  MaxFailures = 1
SYMMETRY Symmetry
SPECIFICATION ManagerSpec
INVARIANTS GrantBound RotatedRevoked DeletedBound StaleOnlyBy ReplacedRevoked ScopesLostByUse
PROPERTY RevokedForEver
