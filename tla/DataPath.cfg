SPECIFICATION DataPathSpec
CONSTANTS
  Requests = {r1, r2, r3}
  FailureThreshold = 2
  SuccessThreshold = 2
  HalfOpenMaxCalls = 1
  RetryCount = 1
  None = None
  Check = {k1, k2}
  Handler = {h1}
  LoadLoop = l1
  AdminLoad = l2
  Route = {"r1", "r2"}
  Built <- Builds
  Path <- Paths
  BadSegments = {"bad"}
  Policy = {"p1", "p2", "p3"}
  Row <- Rows
  Request <- Evaluated
  TextMatches = {}
  Malformed = {"bad"}
  Reloader = {g1}
  PolicyLoader = {g2}
  Sender = {s1, s2}
  MaxEvents = 4
  BufferSize <- Sizes
  BatchSize <- Sizes
  MaxEdits = 2
  MaxPolicyEdits = 3
  MaxFailures = 1
INVARIANTS CountMatchesState ProbesLimited NeverWedged EventsAccounted
PROPERTIES Recovers LoopsCatchUp BestAnswers
CHECK_DEADLOCK FALSE
