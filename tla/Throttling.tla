------------------------------ MODULE Throttling ------------------------------
(***************************************************************************)
(* The throttling engine (internal/traffic/throttle.go) that every gateway *)
(* node runs on each request: Evaluate walks a fixed list of levels, each  *)
(* with its own key and one of three algorithms, and stops at the first    *)
(* that throttles.  One level of each kind stands for the others, which    *)
(* are the same checks on other keys: a fixed window in the shared store   *)
(* (global, tenant, application per day), a token bucket in the node's     *)
(* memory (API, resource, application per minute, user) and a sliding      *)
(* window in the shared store (application per hour).                      *)
(*                                                                         *)
(* Time is a clock of ticks, Window of them to a window; one token is      *)
(* Window units, so that a bucket of BucketLimit tokens refills            *)
(* BucketLimit units per tick, exactly the rate of the code.  The counters *)
(* that syncCounter increments for the buckets are read by no check and    *)
(* left out.                                                               *)
(***************************************************************************)
EXTENDS Integers, FiniteSets

CONSTANTS Nodes,         \* gateway processes, each with its engine
          Requests,      \* requests evaluated at the same time
          Buckets,       \* token bucket objects in memory
          GlobalLimit,   \* requests per window, fixed window
          BucketLimit,   \* requests per window, token bucket
          HourLimit,     \* requests per window, sliding window
          Window,        \* ticks of a window
          IdleLimit,     \* ticks after which the cleanup drops an idle bucket
          MaxTime,       \* bound on the clock
          MaxFailures    \* bound on the failures of the store

ASSUME LimitsAssumption ==
  /\ GlobalLimit \in Nat \ {0} /\ BucketLimit \in Nat \ {0} /\ HourLimit \in Nat \ {0}
  /\ Window \in Nat \ {0} /\ MaxTime \in Nat /\ MaxFailures \in Nat

\* Ten minutes, where a window is one.
ASSUME IdleAssumption == IdleLimit \in Nat /\ IdleLimit >= Window

ASSUME RequestsAssumption == IsFiniteSet(Requests)

ASSUME NoneAssumption == "none" \notin Buckets

VARIABLES now,        \* the clock
          global,     \* the counter of the current fixed window
          cache,      \* cache[n]: the bucket in localCache of node n
          bucket,     \* bucket[b]: its tokens, in units, and its last refill
          hits,       \* hits[w]: the counter of sliding window w
          req,        \* req[r]: where Evaluate is for request r
          granted,    \* granted[n][i]: tokens node n granted in the last i + 1 ticks
          failures    \* failed calls of the store so far

vars == <<now, global, cache, bucket, hits, req, granted, failures>>

Capacity == BucketLimit * Window

Times == 0 .. MaxTime

\* The ticks of the window that ends now, by their age.
Ages == 0 .. Window - 1

WindowOf(t) == t \div Window

Windows == 0 .. WindowOf(MaxTime)

Idle == [at |-> "idle", node |-> "none", bucket |-> "none", window |-> 0,
         elapsed |-> 0, current |-> 0]

At(r, where) == req[r].at = where

Go(r, where) == req' = [req EXCEPT ![r].at = where]

Leave(r) == req' = [req EXCEPT ![r] = Idle]

StoreFails == failures < MaxFailures /\ failures' = failures + 1

-------------------------------------------------------------------------------
(* The checks, in the order of Evaluate *)

Start(r, n) ==
  /\ At(r, "idle")
  /\ req' = [req EXCEPT ![r].at = "global", ![r].node = n]
  /\ UNCHANGED <<now, global, cache, bucket, hits, granted, failures>>

\* IncrementCounter adds one and returns the sum in one call of the store.
\* Counts above the limit decide alike: the counter stops at GlobalLimit + 1.
CheckFixedWindow(r) ==
  /\ At(r, "global")
  /\ global' = IF global > GlobalLimit THEN global ELSE global + 1
  /\ IF global' > GlobalLimit THEN Leave(r) ELSE Go(r, "bucket")
  /\ UNCHANGED <<now, cache, bucket, hits, granted, failures>>

\* An error of the counter lets the request pass.
FixedWindowFails(r) ==
  /\ At(r, "global")
  /\ StoreFails
  /\ Go(r, "bucket")
  /\ UNCHANGED <<now, global, cache, bucket, hits, granted>>

InUse(b) ==
  \/ \E n \in Nodes : cache[n] = b
  \/ \E r \in Requests : req[r].bucket = b

\* getOrCreateBucket: the cached bucket, or a new full one.
GetBucket(r) ==
  LET n == req[r].node IN
  /\ At(r, "bucket")
  /\ \/ /\ cache[n] # "none"
        /\ req' = [req EXCEPT ![r].at = "take", ![r].bucket = cache[n]]
        /\ UNCHANGED <<cache, bucket>>
     \/ /\ cache[n] = "none"
        /\ \E b \in Buckets :
             /\ ~InUse(b)
             /\ cache' = [cache EXCEPT ![n] = b]
             /\ bucket' = [bucket EXCEPT ![b] = [tokens |-> Capacity, last |-> now]]
             /\ req' = [req EXCEPT ![r].at = "take", ![r].bucket = b]
  /\ UNCHANGED <<now, global, hits, granted, failures>>

\* The tokens of bucket b once refilled at the current time.
Refilled(b) ==
  LET full == bucket[b].tokens + (now - bucket[b].last) * BucketLimit
  IN  IF full > Capacity THEN Capacity ELSE full

\* A token granted now falls within every one of the last ticks.
OneMore(counts) == [i \in Ages |-> counts[i] + 1]

\* Mutant: lastRefill is not brought forward, and the same time refills again.
TakeTokenKeepingTime(r) ==
  LET b == req[r].bucket
      n == req[r].node
      enough == Refilled(b) >= Window IN
  /\ At(r, "take")
  /\ bucket' = [bucket EXCEPT ![b].tokens = IF enough THEN Refilled(b) - Window
                                                     ELSE Refilled(b)]
  /\ granted' = IF enough THEN [granted EXCEPT ![n] = OneMore(@)] ELSE granted
  /\ IF enough THEN req' = [req EXCEPT ![r].at = "hour", ![r].bucket = "none"]
               ELSE Leave(r)
  /\ UNCHANGED <<now, global, cache, hits, failures>>

\* checkTokenBucket under the bucket's own lock: refill, then take a token.
TakeToken(r) ==
  LET b == req[r].bucket
      n == req[r].node
      enough == Refilled(b) >= Window IN
  /\ At(r, "take")
  /\ bucket' = [bucket EXCEPT ![b] =
                  [tokens |-> IF enough THEN Refilled(b) - Window ELSE Refilled(b),
                   last |-> now]]
  /\ granted' = IF enough THEN [granted EXCEPT ![n] = OneMore(@)] ELSE granted
  /\ IF enough THEN req' = [req EXCEPT ![r].at = "hour", ![r].bucket = "none"]
               ELSE Leave(r)
  /\ UNCHANGED <<now, global, cache, hits, failures>>

\* checkSlidingWindow takes the time once and reads the counter of the current
\* window; a counter that cannot be read counts as zero.
Measured(r, count) ==
  req' = [req EXCEPT ![r].at = "previous", ![r].window = WindowOf(now),
                     ![r].elapsed = now % Window, ![r].current = count]

ReadCurrentWindow(r) ==
  /\ At(r, "hour")
  /\ \/ Measured(r, hits[WindowOf(now)]) /\ UNCHANGED failures
     \/ Measured(r, 0) /\ StoreFails
  /\ UNCHANGED <<now, global, cache, bucket, hits, granted>>

\* The estimate: the previous count, weighed by the part of its window that lies
\* in the last Window ticks, and the current one.
Estimated(r, previous) ==
  (previous * (Window - req[r].elapsed)) \div Window + req[r].current

Previous(w) == IF w = 0 THEN 0 ELSE hits[w - 1]

\* Mutant: a count that has reached the limit still passes.
DecideLate(r, previous) ==
  IF Estimated(r, previous) > HourLimit THEN Leave(r) ELSE Go(r, "count")

\* The second read, and the decision.
Decide(r, previous) ==
  IF Estimated(r, previous) >= HourLimit THEN Leave(r) ELSE Go(r, "count")

ReadPreviousWindow(r) ==
  /\ At(r, "previous")
  /\ \/ Decide(r, Previous(req[r].window)) /\ UNCHANGED failures
     \/ Decide(r, 0) /\ StoreFails
  /\ UNCHANGED <<now, global, cache, bucket, hits, granted>>

\* The increment, after which, worked or not, the request is let through.
CountSlidingWindow(r) ==
  /\ At(r, "count")
  /\ \/ /\ hits' = [hits EXCEPT ![req[r].window] = @ + 1]
        /\ UNCHANGED failures
     \/ /\ StoreFails
        /\ UNCHANGED hits
  /\ Leave(r)
  /\ UNCHANGED <<now, global, cache, bucket, granted>>

-------------------------------------------------------------------------------
(* The background cleanup, and time *)

\* cleanupLoop drops a bucket that was not touched for long, even if a request
\* got it from the cache and has not locked it yet.
Stale(b) == now - bucket[b].last > IdleLimit

CleanupBucket(n) ==
  /\ cache[n] # "none"
  /\ Stale(cache[n])
  /\ cache' = [cache EXCEPT ![n] = "none"]
  /\ UNCHANGED <<now, global, bucket, hits, req, granted, failures>>

Tick ==
  /\ now < MaxTime
  /\ now' = now + 1
  /\ global' = IF WindowOf(now') = WindowOf(now) THEN global ELSE 0
  /\ granted' = [n \in Nodes |-> [i \in Ages |-> IF i = 0 THEN 0 ELSE granted[n][i - 1]]]
  /\ UNCHANGED <<cache, bucket, hits, req, failures>>

Init ==
  /\ now = 0
  /\ global = 0
  /\ cache = [n \in Nodes |-> "none"]
  /\ bucket = [b \in Buckets |-> [tokens |-> Capacity, last |-> 0]]
  /\ hits = [w \in Windows |-> 0]
  /\ req = [r \in Requests |-> Idle]
  /\ granted = [n \in Nodes |-> [i \in Ages |-> 0]]
  /\ failures = 0

Evaluate(r) ==
  \/ \E n \in Nodes : Start(r, n)
  \/ CheckFixedWindow(r)
  \/ FixedWindowFails(r)
  \/ GetBucket(r)
  \/ TakeToken(r)
  \/ ReadCurrentWindow(r)
  \/ ReadPreviousWindow(r)
  \/ CountSlidingWindow(r)

Next ==
  \/ \E r \in Requests : Evaluate(r)
  \/ \E n \in Nodes : CleanupBucket(n)
  \/ Tick

Spec == Init /\ [][Next]_vars

-------------------------------------------------------------------------------
(* Properties *)

Places == {"idle", "global", "bucket", "take", "hour", "previous", "count"}

Evaluations == [at: Places, node: Nodes \cup {"none"}, bucket: Buckets \cup {"none"},
                window: Windows, elapsed: Ages, current: Nat]

TypeOK ==
  /\ now \in Times
  /\ global \in 0 .. GlobalLimit + 1
  /\ cache \in [Nodes -> Buckets \cup {"none"}]
  /\ bucket \in [Buckets -> [tokens: 0 .. Capacity, last: Times]]
  /\ hits \in [Windows -> Nat]
  /\ req \in [Requests -> Evaluations]
  /\ granted \in [Nodes -> [Ages -> Nat]]
  /\ failures \in 0 .. MaxFailures

\* The cleanup drops a bucket that requests still hold, and the next request gets
\* a new full one.  Even so a node never grants more in one window than a full
\* bucket, what is refilled meanwhile, and two tokens for every request evaluated
\* at the same time but one: a request may take from a bucket dropped before the
\* window, and again from the one dropped within it.
BucketBound ==
  \A n \in Nodes :
    granted[n][Window - 1] * Window <= Capacity + (Window - 1) * BucketLimit
                                         + Window * (2 * Cardinality(Requests) - 1)

\* The sliding window reads, then increments: concurrent requests overshoot the
\* limit of a window by at most one less than there are, and every failure of
\* the store by one more.
SlidingBound ==
  \A w \in Windows : hits[w] <= HourLimit + Cardinality(Requests) - 1 + failures
===============================================================================
