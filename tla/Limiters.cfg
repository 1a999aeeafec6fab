CONSTANTS
  Nodes = {n1}
  Requests = {r1, r2}
  Buckets = {b1, b2, b3}
  GlobalLimit = 5
  BucketLimit = 2
  HourLimit = 2
  Window = 2
  IdleLimit = 2
  MaxTime = 3
  MaxFailures = 1
  Limit = 2
  Tries = 2
  None = None
  MaxTicks = 2
  MaxResets = 1
  QueueCap = 1
  BatchSize = 2
  MaxRequests = 3
  MaxSyncs = 1
  Burst = 2
  SpikeRate = 3
  MaxBuckets = 2
  Unlimited = 99
  MaxUsage = 4
  MinuteQuotas = {1, 2}
  HourQuotas = {2}
  DayQuotas = {3}
  SandboxKeys = {"k"}
  SandboxApps = {"app"}
  SandboxRates = {2}
  SandboxQuotas = {0, 2}
  Lifetimes = {1, None}
SYMMETRY Symmetry
SPECIFICATION LimitersSpec
INVARIANTS BucketBound SlidingBound EventsConserved NodeBound EntryBound QuotaBound
PROPERTIES RefusedExplained
CHECK_DEADLOCK FALSE
