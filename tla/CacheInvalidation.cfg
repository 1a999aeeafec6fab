SPECIFICATION ISpec
CONSTANTS
  k1 = k1
  k2 = k2
  k3 = k3
  a1 = a1
  a2 = a2
  Handlers = {h1, h2}
  Apis = {a1, a2}
  Keys = {k1, k2, k3}
  ApiOf <- MCApiOf
  Sizes = {1, 4}
  MaxEntries = 2
  MaxSize = 3
  Nil = Nil
  Nobody = Nobody
  Cleaner = Cleaner
INVARIANT
  Invalidated
