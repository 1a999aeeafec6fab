CONSTANTS
  Ids = {a1, a2}
  Publishers = {r1, r2}
  MaxLate = 0
SPECIFICATION PublisherSpec
INVARIANT StatusKnown
CHECK_DEADLOCK FALSE
