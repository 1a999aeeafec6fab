# VedaDB API Manager: a TLA+ model

TLA+ specifications of the parts of this repository that keep state and run
concurrently, the TLC configurations that check them on small instances, and
TLAPS proofs of what matters most for every instance. Paths are relative to the
repository; a definition bears the name of the Go function it stands for where
TLA+ allows it.

## The system

`cmd/apim/main.go` starts four HTTP servers in one process: the gateway, the
publisher, the key manager and the administration. All of them keep their data
in VedaDB through `pkg/store`; the gateway and the throttling engine keep some
of it in memory as well. Every HTTP request is a goroutine, so the handlers
below run concurrently, and nothing but the store and the mutexes of the
in-memory structures coordinates them.

| Part | State | Operations | What makes it hard | What makes it correct |
|---|---|---|---|---|
| Store client (`pkg/store/store.go`) | pool of connections, attempts of each call, the bytes under way; the rows of every table | exec with retries, acquire, release, Close; insert, update, upsert, delete, lists | deadlines, dropped connections, answers without identifier, Close during calls, statements sent twice or executed late | connections neither shared nor lost, calls end, rows are what calls that succeeded, by their own answers, made them |
| Key-value client (`pkg/store/vedadb.go`) | another pool, and records in namespaces | Set, Get, List, Delete, finds by attribute, Close, health checks | Close is not under a lock, finds fetch keys one by one, answers are not matched with requests | connections accounted for, finds miss nothing steady |
| Request pipeline (`internal/gateway/server.go`, `middleware.go`) | none of its own; reads tokens, APIs, subscriptions | authenticate, look up, subscription, throttle, cache, analytics, proxy | every stage reads the store at another moment | nothing reaches a backend that was not allowed at some point of the request; its body once |
| Proxy and breaker (`internal/gateway/proxy.go`) | breaker per API, upstreams, health of backends | Allow, RecordSuccess, RecordFailure, retry loop, selection, health checks | results recorded after the state changed, checks that overtake each other | probes limited, no wedge, recovery; health follows the server |
| Response cache (`internal/gateway/cache.go`) | map, doubly linked list, byte counter | Get, Set, Delete, Clear, clean-up, invalidation | pointers by hand, fills racing fills, eviction in a loop | the three structures agree and implement an LRU cache |
| Router (`internal/gateway/router.go`) | list of routes | LoadRoutes, refresh loop, Stop, Match | a snapshot read key by key, installed late; a first load that fails | the copy comes to hold the stored routes; the most important route answers |
| Throttling engine (`internal/traffic/throttle.go`) | buckets in memory, counters in the store | Evaluate over its levels, clean-up | read then increment, failing open, buckets dropped while held | overshoot bounded |
| Distributed limiter, quotas, policies (`internal/traffic/distributed.go`, `quota.go`, `policy.go`) | local counters, event queue, usage per period, compiled policies | Allow, SyncCounter, flush, track, reload, evaluate | overwritten counts, dropped events, counters incremented one by one, late reloads | events conserved, refusals explained, overshoot bounded, policies follow the table |
| Gateway limiters (`internal/gateway/ratelimit.go`) | buckets per node and key, a shared counter | Allow, Reset, clean-up, spike arrest | stale counts refill buckets, entries used after they were deleted, deletions repeated | overshoot bounded |
| Publisher (`internal/publisher`) | tables apis, resources, policies, change log | CRUD, transitions, versions, policies, import, templates, pages | check, then unconditional write of a whole row; several inserts per call; statements repeated or executed late | statuses follow the life cycle, RETIRED and deletion are final, what was answered is there |
| OAuth2 server (`internal/keymanager/oauth2.go`) | clients, codes, tokens | register, authorize, four grants, refresh, revoke, delete client, introspect | check, then use; errors ignored | one grant, one token; revoked stays revoked |
| API keys, JWT (`internal/keymanager/apikey.go`, `jwt.go`) | cache of keys, signing keys | generate, validate, revoke, rotate | cache against store | a revoked key is refused |
| Analytics (`internal/analytics`) | bounded queues, batches; events and summaries | collect, flush, Shutdown; aggregate, prune | accepting while stopping; windows that overlap | accepted events are published or accounted for; the last window is summarised |
| Webhooks (`internal/webhook`) | tables of webhooks and deliveries | register, unregister, deliver with retries, Shutdown | asynchronous retries whose records fail, posts whose answer is lost | a delivery ends and its record says how |
| Migrations (`internal/migrations`) | schema_migrations | Up, UpTo, Down | crash between statements and record, two instances, answers left on the connection | a recorded migration was executed |
| Audit (`internal/audit`) | a queue of entries, the table | LogAction, worker, Close, middleware, GET /audit-logs | the worker registers late; the middleware's goroutines drop their errors; entries arrive between two pages | entries accounted for, pages miss nothing |
| Notifications (`internal/notifications`) | time of the last alert | check, scan, notify | concurrent checks share a map; a mail that was accepted may be reported as failed | alerts within the cooldown bounded |
| Tenants, GraphQL (`internal/tenant`, `internal/graphql`) | rows of a tenant | resolve, mutations | read, change and announce in separate steps | what is announced was done, once, by its owner |
| Sandbox (`internal/sandbox`) | keys, a rate limiter, counts of uses | create, revoke, delete, middleware | the count of a key is checked, read and written without a lock | overshoot bounded |
| Portal, administration, roles, mocks, documentation, SDKs, command line | rows of the store | CRUD, text generation | little of their own | |

`PROJECT.json` lists every component with what is and is not modelled of it, and
every place of the code where something hard to test can go wrong.

## Modules

| Module | Models | Correspondence |
|---|---|---|
| `CircuitBreaker` | `CircuitBreaker` and `Proxy.Handler` | `breaker` variables are the fields; `elapsed` stands for "the timeout since lastFailureTime has passed"; `pc` is where a handler is between Allow, its attempts and the recording of its result |
| `StoreClient` | `VedaDBStore.exec` and its pool | one member of `Calls` per call; `wire[k]` is the order of statements whose answer is unread on connection `k`, the only thing that pairs answers with statements; `executed`, `answer` and `missed` are history. The database is external |
| `LruCache` | what a response cache promises | the abstract specification `ResponseCache` implements |
| `ResponseCache` | `InMemoryCache`, the middleware, the clean-up loop | `next` and `prev` are the pointers of `lruList`; `mu` is `c.mu` while Set or the clean-up hold it over several steps |
| `CacheInvalidation` | the same with a record of what should be gone | for the promise of `InvalidateCache` |
| `ApiPublisher` | every publisher handler that writes a row of `apis`, with the adapter of `cmd/apim/main.go` | `apiRow[a]` is the status, empty once the row was blanked, or `GONE`; `request[r].seen` the status a request read and `request[r].op` the statement it is about to send; `late` are statements that nobody waits for and that may still be executed, any number of times |
| `Throttling` | `ThrottlingEngine.Evaluate` and its clean-up | one level of each algorithm; a clock of ticks; buckets are objects of their own, since a request may hold one that is no longer in the map; `granted[n][i]`, the tokens of the last `i + 1` ticks, is history |
| `OAuth2` | the token endpoints over `OAuth2Store` | one action per call of the store; `req[h]` is where a handler is and the grant it loaded |
| `ApiKeys` | `APIKeyManager` over the table `api_keys` and the adapter of `cmd/apim/main.go` | `keys` is the map of the manager, `row[k]` the row; `call[c]` is between which statement and which access to the map a call is; `touched` are the goroutines that count usages; `overtaken`, `unsure`, `validated`, `parent` are history |
| `Gateway` | the chain of middleware of `server.go`, the retries of the proxy, and the filling of the cache, **composed with `ApiKeys`** and the statuses, subscriptions and tokens that others write | `req[r]` is the gin context of a request and the middleware it is in; `req[r].event` is the goroutine that reports the request; `held[r]`, `reached`, `whole` and `events` are history: what has been true since `r` arrived, and what was sent, with its body, and counted |
| `Upstream` | `Upstream`, the balancers and the health checker of `proxy.go` | `checks[c]` is a goroutine between its request and `SetHealthy`; `selecting[h]` the copy of healthy backends a handler selects from |
| `Router` | `Router`, `RouteBuilder` and the store of routes | paths are sequences of segments, matched as the regular expression of `pathToRegex` would; `load[l]` is a goroutine in LoadRoutes with the keys left and the routes got; `running` tells whether Start has got as far as the refresh loop |
| `ThrottlePolicies` | `PolicyEngine` and the handlers that change its table | `table` are rows, `policies` what is compiled in memory, `reload[r]` and `load[l]` what goroutines have read and not installed; the sort is the exchange sort of the code |
| `DistributedLimiter` | `DistributedRateLimiter` on several nodes, one key | `holder[n]` is the call that keeps the mutex while it reads the store; `admitted`, `published`, `dropped`, `failed` are history |
| `QuotaManager` | `QuotaManager` for one application, tier and its periods | `track[c]` is a call between its increments; ratios are compared as cross products |
| `DbRateLimiter`, `LocalRateLimiter` | the two limiters of `ratelimit.go`, the second behind `SpikeArrest` | time is a clock of ticks, a token is `Window` units so that refills are exact; a caller may hold an entry that is no longer in the map; `due[d]` are the DELETEs of a reset that may still be executed, `wiped` counts those that were |
| `Sandbox` | `SandboxManager`, its middleware and `RateLimiter` | `request[r].at` is where a request is, `read` the count it loaded; a key stays readable after it left the map; `passed`, `uses`, `overlapped` are history |
| `EventCollector` | `Collector`, its two processors and Shutdown | `sending[s]` is a handler between the flag and the channel; `late` are events accepted after the last look |
| `Aggregator` | `Aggregator`: loop, Run, Shutdown | `agg[x]` is an aggregation of the loop or of Shutdown, between its statements; a summary is its API, start and the events it counted; `recorded` is history, the time stamps of events that may be deleted by now |
| `KvPool`, `KvStore` | `VedaDBClient`: its connections; its records | as `StoreClient` above; `unread` says that some connection may hold an answer nobody has read, which any request may take for its own; `steady` is what matched during a whole search, `broken` are the searches that a failure or such an answer has disturbed |
| `SqlStore` | the statements of `VedaDBStore`'s methods, table by table | a call is a list of statements (`doing[c].todo`), `late` are statements whose deadline passed and which may still be executed, `behind` says that such an answer may be on a connection, where the next call takes it; `expect` and `unsure` are history |
| `PublisherTables`, `Changelog` | resources, policies, imports, templates; the change log and its pages | `task[c]` is a handler between its statements; `told` is what answers said was created, `doubtful` what was inserted by a statement that took another's answer; `browse.misled` a client of the change log to which that happened |
| `Migrations` | `Migrator`, run by several processes over one connection each | scripts are sequences of the characters that the splitting tells apart; `waiting[p]` the unread answers on a connection |
| `Webhooks` | `Manager` and `Deliverer` | `job[d]` is a delivery's goroutine, from the record on, `record[d]` its row; `received` and `acknowledged` are history |
| `Alerts` | `AlertManager` | `lastAlerted` is its map, `check[c]` a goroutine in CheckAndAlert; `alerts` and `misreported` are history |
| `AuditTrail` | `AuditLogger`, the audit middleware and `ListAuditLogs` | `buffer` is the channel, `reader` a client that reads page after page; `lost` and `unlogged` are history |
| `GraphQl` | the mutations of `Resolver`, behind the tenant resolvers | `call[c]` is a resolver between its statements, `told[o]` what was announced of a row |

The `MC` modules instantiate them for TLC: symmetry, and the API of each cache key;
`Gateway`, `StoreClient` and `AuditTrail` are checked as they are, and so is
`ApiPublisher` for the two promises that are violated.

The inputs of the modules they instantiate (rows, documents, scripts, hosts) are
constants of `MCManagement` and `MCDataPath`; the configurations choose each for the
branches it takes.

`Gateway` extends `ApiKeys` and runs all its actions between any two steps of a
request; what `ApiPublisher`, `OAuth2` and the portal do is reduced to the column
the middleware reads (published or not, revoked or not, subscribed or not), which
they may change at any moment, so that the composition admits every order of
their writes. `Throttling` and `CircuitBreaker` are reduced to "may refuse".

`MCApisAndCache`, `MCDataPath`, `MCLimiters`, `MCKeyManager` and `MCManagement`
check several components that share no state in the code. Composing them freely would multiply
their states and show nothing that each does not show alone; `subject` therefore
chooses at the start the one that moves, and the run is the disjoint union of
their state spaces. A property of the run that concerns one component is that
component's property; where a property is a conjunction, each conjunct concerns
one.

A definition whose comment begins with `Mutant:` is a plausible mistake;
substituting it for the definition after it must violate the property listed with
it in `PROJECT.json`, which has one for each property of each run. The conjuncts
of the properties of `management`, and of `LoopsCatchUp`, have mutants of their
own, which the same runs find: `Sandbox`
(`HasQuotaButOne`), `AuditTrail` (`HasMoreButOne`, `EndAtOnce`),
`Aggregator` (`FinalSkipped`), `KvPool` (`ReleaseForgets`), `Webhooks`
(`AgainMore`), `SqlStore` (`SetDefaultFirst`), `Migrations` (`AcceptedAlways`),
`PublisherTables` (`InsertAll`), `KvStore` (`FetchOrStop`), `Changelog`
(`PageButOne`), `GraphQl` (`DeleteUnasked`), `Alerts` (`RecordIfAll`), `Upstream`
(`TickHealthy`), `Router` (`InstallAdded`, `ByPriorityUp`), `ThrottlePolicies`
(`InstallMerged`, `Overwrite`).

## Runs

| Run | Instance | Shows |
|---|---|---|
| `store_client` | 2 calls, 1 connection, 3 attempts | connections are owned by one place, a missed deadline leaves exactly one unread answer, statements run at most once per try, calls and Close end |
| `store_client_answers` | 2 calls, 2 connections | **violated**: after a missed deadline the next statement on the connection gets the answer of another |
| `apis_and_cache` | `ApiPublisher`: 2 APIs, 2 requests, 1 statement left on a connection; `ResponseCache`: 2 handlers, 3 keys, room for 2 entries and 3 units, responses of 1 and 4 units (one larger than the cache) | only a statement from a stale read, or linking a version, leaves the life cycle; a deleted API returns only by a repetition of its own INSERT; a blanked row stays blank unless a request writes back what it read before; list, map and byte counter stay together, and the cache implements `LruCache` |
| `cache_invalidation` | the cache as in `apis_and_cache` | **violated**: `InvalidateCache` removes nothing, the keys being hashes |
| `api_retired` | 2 APIs, 2 requests | **violated**: a late transition takes an API out of RETIRED |
| `api_version` | 2 APIs, 2 requests | **violated**: creating a version blanks the row of the API it is made from |
| `gateway` | 1 request at a time, 2 APIs (one open to all), 1 key, 1 call of the key manager, 1 retry, bodies limited, 200 and 404 cacheable | only what was entitled while it was checked reaches a backend; a body reaches one at most once; a request is counted once or, if its goroutine fails, not at all; what enters the cache was the answer to an entitled request, or the gateway's own 404 |
| `key_manager` | `OAuth2`: 2 requests, 1 client, 1 code, 3 tokens, 1 failure of the store; `ApiKeys`: 2 keys, 2 overlapping calls, 1 failed statement | how many tokens one grant yields, which tokens survive a rotation and the deletion of their client; until when the map accepts a revoked key and through whose fault, that revocation is final and precedes replacement, and that scopes are lost only by use |
| `limiters` | `Throttling`: 1 node, 2 requests, 3 bucket objects, windows of 2 ticks, 1 failure; `DistributedLimiter`: 2 nodes, 3 requests, a queue of 1, batches of 2; `DbRateLimiter`: 2 nodes; `LocalRateLimiter`: 2 callers, 2 buckets; `QuotaManager`: 2 calls, quotas of a minute, an hour and a day; `Sandbox`: 1 key, 2 requests, with and without a quota and an expiry | how far each limiter can be exceeded and no further, where its events go, and that a refusal has a reason |
| `data_path` | `CircuitBreaker`: 3 handlers, 2 failures open, 2 successes close, 1 counted probe, 1 retry; `Upstream`: 2 backends, 2 overlapping checks; `Router`: 2 routes, the refresh and an administrator, 2 edits; `ThrottlePolicies`: 3 policies, 3 edits, 1 outage; `EventCollector`: 2 handlers, 4 events, channels and batches of 2 and 1 | the counters of the breaker agree with its state, probes stay limited, it recovers; copies come to follow what they copy although goroutines install in any order; the collector accounts for every event and its shutdown ends; the most important route and policy answer |
| `management` | 2 callers or requests, 2 keys or rows, 2 processes that migrate, up to 4 writes, 1 failure each | shutdowns account for what was under way; tables say what was done; what is read page by page or key by key, by answers of its own, misses nothing that was there all the time; deletions are announced once, alerts bounded, and summaries are of their hour |
| `audit_silent` | `AuditTrail` alone, 2 entries | **violated**: an entry of the middleware is lost and no log tells of it |

**Bounds.** Two concurrent requests are the least that interleave, and the
interleavings at issue (check against write, release against close, rotate
against rotate) are between two; the breaker has three handlers so that a late
result meets a half-open state with its admitted and its counted probe. Three
tokens are a token, its successor and the successor of an overlapping request;
three bucket objects are the one held, the one that replaced it and the one that
replaces that. Three policies are the least that an exchange sort can leave out of
order when one pass is missing. A channel of the collector holds as many events as
a batch, so that it is full while a batch is being published, and four events fill
one, form the other and come late. A queue of one and batches of two give the
cluster's limiter a full queue and an unfinished batch. The clock of the
aggregation covers an hour, its late events and the retention after it; pages of
one entry make every write fall between two pages.

`MaxTime`, `MaxTicks`, `MaxMinutes` bound clocks; `MaxFailures`,
`MaxStoreFailures`, `MaxFaults` the failures, any of which may happen at any call
(of `Alerts`, the mails of a cooldown that arrive and are reported as failed);
`MaxRetries`, `MaxAttempts` and `maxRetries` the attempts; `MaxEdits`, `MaxPolicyEdits`,
`MaxWrites`, `MaxChanges`, `MaxLate`, `MaxTasks`, `MaxRuns`, `MaxCalls`, `MaxRequests`,
`MaxDeliveries`, `MaxEntries`, `MaxReads`, `MaxSyncs`, `MaxResets`, `MaxBuckets`,
`MaxUsage`, `MaxEvents` and `MaxTold` what is written, asked, sent and counted.

Requests of the gateway meet only in the cache, which outlives them, and a
finished request makes room for another, so that `gateway` has one at a time; its
view leaves out what no guard of the composition reads (names and scopes,
pending counts of usages, the key manager's history), so that states that differ
in those only are explored once. `key_manager` checks the key manager without a
view. One statement left on a connection is enough for `ApiPublisher`: it may be
executed again and again, beside the repetitions of the two requests. The clock of `Throttling` covers two windows and a turn between them, and its
clean-up limit is one window as in the code (ten) relative to the window.

**Symmetry** is used in `apis_and_cache`, `key_manager`, `limiters` and `management`,
which check no liveness: their temporal properties, the refinement of `LruCache`
among them, are properties of single steps.

**Deadlock** is checked except where the system may stop: in `store_client*`, whose
calls are finitely many and end; in `apis_and_cache`, `api_retired`, `api_version`,
where every identifier of an API may be used up; in `data_path`, `limiters`, `management` and
`audit_silent`,
where a component stops for good once it was shut down, its process ended, or what
a bound limits is used up.

**Fairness.** In `data_path`, each component has its own, as long as it is the one
that moves. The breaker: weak fairness of each handler's steps (a goroutine that
can go on is scheduled) and of the passing of the timeout, nothing of clients or
backends: `Recovers` has "clients keep calling" and "the backend stays up from some
point on" as hypotheses. Health checks: a check that has been started ends (the
client has a timeout), and a ticker that fires again and again starts a check of
each backend again and again, for which strong fairness is needed because another
check may take the goroutine's place in the bounded set. Router and policies: the
refresh loop, once started, lists again and again, and a load that has begun goes
on; nobody need write, nor call `Start` once more after its first load failed, and
writes end by the bound. Collector: its two goroutines run, and a
Shutdown that began closes the channel. `store_client` assumes weak fairness
of each call's own steps: its waits end at a deadline at the latest, and nothing
is assumed of the database. The other runs check safety only and assume none.

### Disagreements found

Each is a run that TLC finishes with the counterexample, and a finding in
`PROJECT.json` with the line of the repository it contradicts.

1. A statement that misses its read deadline returns its connection to the pool
   with the answer still to come (`pkg/store/store.go:389`).
2. `DeleteByAPI` compares hashes with a prefix of the text they were made of
   (`internal/gateway/cache.go:231`).
3. RETIRED is terminal only for requests that read the row afterwards
   (`internal/publisher/lifecycle.go:301`).
4. `CreateVersion` writes an empty structure over both rows
   (`internal/publisher/version.go:129`).
5. Audit entries are "never silently dropped", except those of the HTTP servers
   (`internal/audit/middleware.go:243`).

### Observations

Behaviour that the models keep as the code has it, and that a reader of the code
may not expect.

Gateway and key manager:

- The count of a sandbox key is kept without a lock, so that concurrent requests
  exceed its quota and lose counts (`internal/sandbox/sandbox.go:84`); watermark
  headers are set after the handler has answered (`sandbox.go:502`).
- The goroutine that counts the usage of an API key sets name and scopes of its
  row to empty (`cmd/apim/main.go:498` over `internal/keymanager/apikey.go:126`), so
  that a key regenerated later starts without them.
- The identifier in a JWT API key is not that of its row
  (`internal/keymanager/jwt.go:387`), so that validating one never finds the row.
- The cache middleware reads `api_context` from the gin context, which nothing
  sets; all APIs share the key prefix `default`.
- The first attempt of the proxy consumes the body. Behind `http.MaxBytesReader`
  (`internal/gateway/middleware.go:713-717`), whose end of file stays, a retry reads
  an empty body without an error and is sent, so that a POST may reach a backend
  once for every attempt, with its body the first time only, and the answer to a
  request without its body is the client's, although the handler "forwards the
  request to the backend" (`internal/gateway/proxy.go:434-436`). If
  `max_request_body_size` is not positive there is no such reader, and the retry
  fails before it sends anything.
- "Only cache successful responses" (`internal/gateway/cache.go:540`) is a list of
  statuses that holds 404 as shipped (`configs/config.yaml:247`). What the cache
  stores under a path is whatever the rest of the chain answered with such a status: the gateway's own 404 (`internal/gateway/proxy.go:449-467`),
  which then outlives the publication of the API until it expires, answers to a GET
  that had a body, and the answers of GET `/health` and `/metrics` and of the GET
  routes below `/admin`, which are registered behind the same chain.
- The analytics middleware sees only requests that were neither refused nor
  answered from the cache, including those that the proxy refuses itself; its
  goroutine's error is only logged, and a shutdown does not wait for it. The
  proxy's own events name the API by its context.
- If the first listing of the routes fails, `Start` returns before it has started
  the refresh loop (`internal/gateway/router.go:208-210`): the router stays empty
  unless an administrator reloads it or somebody calls `Start` again.
- The DELETE of a reset of `DBRateLimiter` may be executed several times, while
  requests count (`pkg/store/store.go:1403`), and each time gives the bucket what the
  emptied counter leaves of the burst.
- Without the CORS middleware, or from an origin it does not allow, a preflight
  request is neither authenticated nor marked as anonymous.
- `checkBackendHealth` assigns the error of its GET request to a variable of an
  inner block, so that a backend that only answers GET never counts as healthy;
  `WeightedRoundRobin.current` never changes, and `LeastConnections` is random.
- A throttling policy that blocks or throttles matches as soon as its conditions do;
  its tier is compared only afterwards (`internal/traffic/policy.go:168`).
- The clean-up of `DBRateLimiter` drops buckets whose window began ten minutes ago
  (`internal/gateway/ratelimit.go:207`), the current one too if an API's window is
  longer than that; the model assumes that it is not.
- `pathToRegex` does not escape the literal parts of a path.

Store, publisher and management:

- `exec` repeats statements that the database refused, not only those that did
  not arrive, and a statement that missed its deadline may be executed after the
  one that repeats it. So an INSERT repeated or late brings a deleted API back.
- The key-value client has the same gap as the store client: it gives every request
  an identifier and never compares it (`pkg/store/vedadb.go:743-778`), and
  `releaseConn` keeps a connection with an unread answer.
- `SetDefaultVersion` ignores an error of its first UPDATE, and two callers at
  once can leave two defaults.
- `SaveResource` inserts one row per method under one identifier, which the
  primary key refuses from the second on: creating a resource with several methods
  answers 500 and leaves its first row (`cmd/apim/main.go:691`). `UpdateResource`
  stores no methods.
- The periodic scan for alerts lists the APIs of the empty tenant, "which the store
  layer treats as cross-tenant" (`internal/notifications/alerts.go:179`); the store
  selects by `tenant_id = ?` (`pkg/store/store.go:581`), so the scan finds none.
- Attaching a policy rewrites the row of the API as it was read and stores the
  policy nowhere: no list shows it, and detaching one answers 404.
- Imported documents and templates never ask for authentication on a resource, and
  `ListPolicies` validates a type in lower case but filters by it as it came.
- `AlertAPIDeprecation` notifies subscribers whatever the status of their
  subscription (`internal/notifications/alerts.go` speaks of active ones).
- A mail that the server has accepted may be reported as failed
  (`internal/notifications/email.go:161`); if all seem to have failed no cooldown
  starts, and the next check sends them again.
- A webhook delivery is counted after its record was created
  (`internal/webhook/deliverer.go:84,92`), and `Run` of the aggregation sets its flag
  before it counts its loop, so that a shutdown between the two does not wait.
- The audit worker joins its wait group in its own goroutine, so that a shutdown may
  wait for nobody; pages of the audit log count and read in two statements.
- The windows of the aggregation overlap at every minute, summaries of one second
  share their identifier, and `Run` after `Shutdown` runs on a closed channel.
- The GraphQL resolvers read a row, delete it and announce that in a goroutine
  each: announcements may come in any order, and a webhook's deletion is announced
  by everybody who asked for it. The tenant resolver takes the first label of any
  host, also of one outside the root domain that is configured.
- `store.GetMock` does not select the status that `internal/mock/engine.go:217`
  compares with `active`, so that no mock is ever found, and `UpdateMock` sets a
  column that `api_mocks` lacks, so that it is always refused.
- The sync of the cluster's limiter writes one increment a tick and overwrites the
  local count with what it read before (`internal/traffic/distributed.go:144`).

Some of this code is not reached as wired: `cmd/apim/main.go` constructs no
`Migrator`, `VedaDBClient`, `PolicyEngine`, `DistributedRateLimiter`, `Collector`,
`AlertManager`, `SandboxManager` or `Aggregator`, and registers no upstream. The models take these
components as their tests and their exported functions use them.

## Proofs

| Module | Theorems | Argument |
|---|---|---|
| `DataPath_proofs`: breaker | `TypeCorrect`, `CountsAgree`, `FewProbes`, `NoWedge` | The inductive invariant relates each handler in flight to the counters: the probes in flight of a half-open period number at most its counted calls and the one that opened it, and every call of the period was answered by a counted success or is still under way |
| `DataPath_proofs`: collector | `Accounted` | Counts are conserved by every step; what is in the channel of a goroutine that has seen it empty came late (`LeftBehind`), and one that is done has published its batch (`Finished`) |
| `DataPath_proofs`: router, policy engine | `AnswersAreBest` | see *The router and the policy engine* below |
| `StoreClient_proofs` | `TypeCorrect`, `ConnsOwned`, `LateForEver`, `RunsOnTries` | Ownership alone is inductive with the types; the number of unread answers needs, besides, that the database answers only what was written. The executions of a call and its lines still unanswered number together at most the tries that have written (`Counted`); while no deadline was missed a connection carries only the line of its holder, so that the answer read was its own (`Tidy`, `Rewarded`) |
| `ApiPublisher_proofs` | `TypeCorrect`, `LeavesOnlyStale`, `DeletedForEver`, `NoMending` | What a statement carries, of a request or late, was true of the row when it was read and checked then (`PendingOK`); the action properties follow step by step |
| `Limiters_proofs` | `TypeCorrect`, `SlidingBounded`, `BucketBounded` of `Throttling`; `EventsAreConserved`, `RefusalsExplained`, `NodesBounded`, `EntriesBounded`, `QuotasBounded` of `MCLimiters` | see *The limiters* below |
| `OAuth2_proofs` | `TypeCorrect`, `GrantBounded`, `SurvivorsBounded`, `DeletedBounded` | While a grant is open, tokens issued for it and requests past marking it number at most the failures; once it is closed, tokens issued and requests waiting never grow. A token survives its rotation from the moment its revocation failed (`Survivors`), and no token is refreshed before it is saved. The live tokens of a deleted client and the requests that may still add one are bounded together by the requests other than the one that deleted it |
| `Gateway_proofs`: API keys | `TypeCorrect`, `StaleBounded`, `ReplacedAreRevoked`, `ScopesLost`, `RevokedStays` | What a call under way knows of the row of its key (`Sound`) stays true although others write that row, because rows only move from absent to active to revoked and never regain a name (`Later`) |
| `Gateway_proofs`: pipeline | `KeysUndisturbed`, `GatewayTypeCorrect`, `OnlyEntitled`, `BodySentOnce`, `CountedOnce`, `OnlyEntitledCached` | What each middleware found is handed on (`Entitlement`) and what holds now is part of what has held (`Observed`); how often a request was sent, with its body, and counted follows from its stage, its attempts and its event (`Accounts`); its answer keeps what it relies on until it is cached. `KeysUndisturbed` is the refinement: the composition implements `KeySpec` |
| `ResponseCache_proofs` | `ListIsWhole`, `StaysWithinBounds`, `ImplementsLruCache` | see *The response cache* below |
| `Management_proofs` | `ShutdownIsAccounted`, `RowsAreTrue`, `ToldOnlyOnce`, `ReadsAreComplete` of `MCManagement` | see *The management* below |

Assumed are only the named assumptions on constants: finiteness of the sets that
are counted, sentinels outside them, thresholds positive. TLC evaluates them in
every run. The invariants are stronger than the properties because a property
speaks of what is over (tokens issued, connections closed) and a step needs what
is still coming (requests past the check, calls that hold a connection). The types
of the modules with proofs are proved and not checked again by the runs.

**Model-checked only.** Liveness (`Recovers`, `LoopsCatchUp`, `CallsEnd`,
`CloseCompletes`), which needs ENABLED. Every other property of a run is a theorem.

### The router and the policy engine

The routes and the policies of the run are constants of `MCDataPath`, so that
`BestAnswers` is proved for any rows administrators may save, any patterns and paths,
and any requests.

- **Router** (`RouterInv`). Whatever a load fetched is a row with its identifier, and
  the copy is in order of priority from the moment it is installed (`Ranked`). The
  first route that matches therefore outranks every later one that does.
- **Policy engine** (`PolicyInv`). Only rows of the table get into memory, by any of
  the three ways. The order of an evaluation is what the two nested loops of
  `sortPoliciesByPriority` make of the order the map yielded: the inner one keeps every
  policy, brings the highest of what follows to its position and leaves the positions
  before it settled (`RaiseLeads`, `PassSettles`), so that after the outer one all are
  (`SortSettles`). Both loops are recursive functions; that they have a value, and that
  it has these properties, follows from the smallest position at which that would fail.

### The limiters

A behaviour of `MCLimiters` is a behaviour of each limiter (`Parts`): the one that
moves makes a step of its own, the others stutter. Each bound is then an invariant
of one limiter, stronger than the bound because a bound speaks of what was admitted
and a step needs what still can be.

- **Sliding window.** The counter of a window and the requests on their way to
  increment it are bounded together (`ComingBounded`): together they exceed the
  limit by at most the other requests and the failures.
- **Token bucket** (`BucketInv`). For every age, what a node granted in that many
  ticks, what its cached bucket would hold if refilled now, and one token for every
  request that holds a bucket that is no longer cached, are bounded together
  (`Fits`). Dropping a bucket is paid for by its idle time: nothing was taken from it
  within the window, so that what was granted there came from orphaned buckets,
  at most one token per other request. That a bucket is cached for one node
  (`Owned`) is needed besides.
- **Cluster.** Sums over nodes change by the term of the node that moves
  (`HeldStep`). Refusals: the shared counter, and everything read from it, is at
  most what was published and synchronised (`SeenInv`), which is what the property
  now says of a refusal; it said "admitted", which is weaker.
- **Database** (`DbInv`). Each stale value of the counter that a node can read
  refills its bucket by what that value leaves of the burst, once per run of the
  counter; a run ends with an executed deletion, of which a reset may make several
  (`Accounted`). The proof showed that the burst is given once and not once per
  deletion, so that `NodeBound` is tighter than it was.
- **Local.** What an entry granted and holds is covered by a full bucket for each
  window it has been reset in and by its refill (`Covers`), also for entries that are
  no longer in the map.
- **Quotas** (`QuotaInv`). Calls that may still be told that nothing is exceeded
  (`OpenCalls`), and among them those that the hour has not stopped (`LateCalls`), are
  counted with the calls that were told so. A call hides the hour's excess only if
  its minute stands exactly at a limit, and a count passes each limit once per run
  (`Reached`).
- **Sandbox** (`SandboxInv`). Uses counted alone are in the count and in every count
  that was read (`Counted`); a request counted alone leaves room for itself
  (`AloneFits`). What a key passed is paid by its bucket and the refill (`Rated`).

`BucketBound` did not survive the attempt to prove it. As it stood, with one token
for every concurrent request, it holds in the instance of the run and is false in
others: with a window of one tick, two requests each may take from a bucket that was
dropped before the window and again from one dropped within it. TLC finds that with
`Window = 1`, `BucketLimit = 2`, `IdleLimit = 1` and four ticks. The bound is now two tokens
for every concurrent request but one, which that instance reaches.

Finite sets need induction (sums, cardinalities): the provers have none that takes
an operator, but `LeastSubset`, a consequence of the library's theorem that inclusion
of finite sets is well-founded, gives the smallest set for which a statement fails,
and it is led to a contradiction.

### The response cache

- **List.** `Follows(l, o, S)` says that the pointers of the list `l` join the elements
  of `S` in the order `o`. `remove` takes an element out of the order
  (`RemovedFollows`), linking puts one in front (`LinkedFollows`); `moveToFront`,
  eviction and the clean-up are made of those two. The walk that `ListWhole` speaks of
  is a recursive function; that it meets the elements in their order
  (`WalkFollows`) needs no induction scheme: the order satisfies the equation of the
  walk, and two functions that satisfy it cannot differ, at a smallest position least
  of all.
- **Counter** (`Coherent`). It is the sum of the sizes over the keys of the map. That
  it may exceed the limit only for a single entry is inductive because removing any
  entry then leaves nothing.
- **Mutex** (`HandlersOK`). Whoever is between the steps of `Set` holds `c.mu`, its key
  is not in the map, and what the clean-up has still to remove is there.
- **Refinement.** The listing of the list is the abstract cache's sequence, the entry
  of the holder of the mutex its pending one. Removing the tail drops the least
  recently used entry (`ListingWithout`), a hit moves an entry to the front
  (`ListingMoved`) or, at the head already, is a stutter, and the abstract size, a sum
  over positions, is the counter, a sum over keys (`ListingWeighs`).

### The management

A behaviour of `MCManagement` is a behaviour of each component (`Parts`), so each has
an inductive invariant of its own, which holds at the start (`...Start`), is kept by
every step (`...Step`) and says what is promised (`...Kept`).

- **Pool of the key-value store** (`PoolInv`). A connection is held by one goroutine
  at most, and what is held is open and not in the pool; unless somebody panicked,
  which only `Close` makes possible, every open connection is in one of those places
  (`Placed`).
- **Webhooks** (`WebhookInv`). The counter of deliveries is the number of goroutines
  that were started, and those Shutdown found are among what it waits for; a
  delivery under way records what its last attempt met (`Delivering`), which was an
  acknowledgement only if the receiver has taken it.
- **Audit log** (`AuditInv`). The identifiers given out are those of the entries that
  are somewhere, each once; a worker that is done has left behind only what was
  queued late. For the pages: what is newer than the offset has been seen, unless
  entries came in between or a page was another's answer (`Reading`).
- **Aggregation** (`AggregatorInv`). A summary, and what an aggregation has read and
  not yet inserted, counts events of its API only, whose recorded time stamps lie
  within its hour, although aggregations overlap and delete what others have read
  (`Truthful`); and the last one's summaries and rows still to insert cover together
  what it has read (`Covering`).
- **Alerts** (`AlertsInv`). Before the cooldown every alert was sent by a check that is
  still under way (`Mailed`); within it the alerts sent and those that may still be
  sent (`MayMail`) are at most the checks and the mails that were reported as failed
  although they arrived.
- **GraphQL** (`GraphInv`). The announcements of a row match what became of it
  (`Announced`); a call that read no row, or one that is not its tenant's, finds none
  to delete, for a row never changes its kind or its tenant (`Calling`).
- **Key-value store** (`KvInv`). A search that neither a failure nor another's answer
  has disturbed has found what matched all the time, or has its key still before it (`Served`).
- **Change log** (`LogInv`). As for the pages of the audit log, unless misled.
- **Publisher's tables** (`TablesInv`). A request answers with what it inserted, which
  is there unless somebody asked for its deletion or an insertion of it was misread
  (`Kept`, `Tasked`); a resource
  belongs to an API that is there (`Belongs`), so that deleting an API takes them away.
- **Migrations** (`MigrationInv`). As long as no answer was left behind, each process
  has read the answers to what it asked, and the statements it is past have been
  executed (`Migrating`). The statements of the scripts are counted by the splitting
  itself, which is not unfolded: the proof holds for whatever number it gives.
- **SQL store** (`SqlInv`). A row without failed, late or overlapping calls is
  `Straight`: whoever is at it will make of it what its call means to, and only calls
  that count are at it together. What was left to a statement executed late, or
  answered by another's answer, is unsure.

### Assumptions

The numbers of the configuration are natural numbers (`BoundsAssumption`), and what it
names is of the kind its module asks for (`InputsAssumption`): routes and policies are
finitely many and their rows have integer priorities; a budget's owner has an address
or none, the keys of the store are finitely many, a script is a sequence of the
characters that splitting tells apart, a document describes finitely many resources,
the limits of a page are integers with a positive default and maximum, every event is
one of an API, the window and the retention are natural numbers. The sentinel `None` is
neither an integer, nor a stage, nor one of the records it stands in for
(`AbsenceAssumption`). The
checks and the callers of the management are finitely many, its attempts and the size
of a page at least one; nothing else is assumed of them.

## Abstractions

- Requests and responses are their size, their API or nothing at all; secrets,
  PKCE, redirect URIs and scopes only decide whether a request is refused, and a
  refusal may happen wherever the code refuses.
- A statement of the store is one step. `StoreClient` shows what lies beneath:
  a statement may fail after being executed, so writes that fail may have been
  applied, and calls whose errors are ignored may have done nothing (`OAuth2`,
  `Throttling`). It may also be executed several times or after its request has
  ended (`ApiPublisher`, `SqlStore`, and the DELETE of `DbRateLimiter`), and be told
  what another statement was (`SqlStore`, `KvStore`, `AuditTrail`, `Changelog`, the
  insertions of `PublisherTables`, and the answers left on a connection in
  `Migrations`). Where a module does not say so, each statement gets an answer of its own and is
  executed at most once: reads of the publisher, the key manager, the gateway and
  the limiters that take another's answer are not modelled, nor increments that do.
  What they promise presupposes that no connection they use has an answer left on it;
  `StoreClient` and `store_client_answers` show how it comes there. The GraphQL
  resolvers use `database/sql` and a driver of their own.
- A request of the key-value client that is executed after its deadline is one
  more request to the database, which its callers may make at any time.
- The repetition of a request by `net/http` itself, when a kept connection breaks,
  is not counted by `BodyOnce`.
- The gateway's built-in routes (`/health`, `/metrics`, `/admin`) are left out of
  `Gateway`: they have paths of their own, so that what they leave in the cache
  answers requests for these paths only.
- Times are order: expiry may come at any moment, the timeout of the breaker is
  a flag; the limiters and the aggregation have a clock because their arithmetic
  needs one.
- Of the six throttling levels, one of each algorithm: the others are the same
  functions on other keys.
- Paths are sequences of segments, scripts sequences of the characters that
  splitting tells apart, hosts sequences of labels; what the code does with the
  text (splitting, matching, upper and lower case) is done to those.
- As wired in `cmd/apim/main.go`, the key manager's adapter never enables the
  clients it reads and stores no refresh tokens, so that the token endpoint
  rejects every request. `OAuth2` models the handlers over the interface they
  are written and tested against.

## Not modelled

- Functions of their arguments, without shared state: transformation, validation
  and formats of requests, matching of resources and their statistics, the parsing
  of API documents, the diff of two versions, the payloads of events, signing and
  cryptography, mail and templates, mock answers, the watermarks of the sandbox,
  generated SDKs, documentation, the command line.
- Reads that change nothing and whose answer is one statement: lists, dashboards
  of the analytics, introspection of tokens, GraphQL queries.
- Rows that nobody else reads: applications, ratings, catalogue and try-out of the
  portal, whose server no non-test code starts; the tables behind the
  administration server.
- Wiring and configuration: start-up, health endpoints, the registration of routes
  with the HTTP engine.
- Code without callers: the burst variant of the throttling engine, the limiter
  middleware of `ratelimit.go`, `WatchRoutes`, the HTTP handlers of
  `internal/traffic/server.go` except where they change policies.

## Plan

In this order:

1. **Gateway**: the throttle levels and the breaker themselves in place of "may
   refuse", and the statuses of `ApiPublisher` in place of one column, as the
   state spaces allow.
2. **Throttling**: the burst variant and the levels a request passes before one
   refuses it, as soon as a handler calls them with more than one key.
