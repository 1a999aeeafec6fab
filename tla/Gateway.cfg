CONSTANTS
  Keys = {k1}
  Calls = {c1}
  MaxFailures = 0
  Requests = {r1}
  Apis = {1, 2}
  Anonymously = {2}
  RetryCount = 1
  BodyLimited = TRUE
  CacheableStatusCodes = {200, 404}
VIEW GatewayView
SPECIFICATION Spec
INVARIANTS Entitled BodyOnce 
PROPERTY CachesEntitled
