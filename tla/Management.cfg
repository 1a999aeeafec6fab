CONSTANTS
  None = None
  Gone = Gone
  Caller = {c1, c2}
  Hook = {h1}
  EventType = {"published"}
  Subscribed <- Subscriptions
  MaxAttempts = 2
  MaxDeliveries = 2
  Check = {c1, c2}
  Scanner = c1
  Subscription = {"s1", "s2"}
  Address = {"a1", "a2"}
  owner <- AddressOf
  Rate = 10
  Usage = {8}
  MaxMinutes = 1
  BufferSize = 2
  PageSize = 1
  MaxEntries = 3
  MaxReads = 2
  Conn = {x1, x2}
  Pinger = pinger
  StoredKey = {"k1", "k2"}
  MaxRequests = 3
  Attribute = {p1, p2}
  MaxFailures = 1
  MaxWrites = 3
  Process = {p1, p2}
  Script <- Scripts
  MaxRuns = 3
  RowKey = {"k1", "k2"}
  Parent = {"p"}
  parentOf <- OneParent
  MaxCalls = 2
  Api = {"a1"}
  Id = {"i1", "i2"}
  Policy = {"p1"}
  Spelling = {"get", "POST", "TRACE"}
  Method = {"GET", "POST", "TRACE"}
  Path = {"/p", "/q", ""}
  Creation <- Requested
  Document <- Documents
  apiTemplates <- Templates
  Type = {"API", "weird", ""}
  upper <- Upper
  lower <- Lower
  MaxTasks = 3
  Writer = {w1, w2}
  Limit = {0, 1, 9}
  defaultLimit = 1
  maxLimit = 2
  MaxChanges = 4
  Metered = {"a", "b"}
  Event = {"e1", "e3"}
  apiOf <- ApiOf
  erroneous = {"e1"}
  Loop = {"l1"}
  Hour = 1
  Retention = 2
  Late = 1
  Tenant = {"t1", "t2"}
  Status = {"RETIRED"}
  Host <- Hosts
  Header <- Headers
  RootDomain <- Root
  MaxTime = 4
  Object = {o1}
  MaxTold = 3
  maxRetries = 1
  MaxFaults = 1
SPECIFICATION ManagementSpec
SYMMETRY Interchangeable
INVARIANTS ShutdownAccounts RowsTrue ReadsComplete ToldOnce
CHECK_DEADLOCK FALSE
