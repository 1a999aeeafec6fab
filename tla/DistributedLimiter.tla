------------------------- MODULE DistributedLimiter -------------------------
(***************************************************************************)
(* The cluster-wide rate limiter of internal/traffic/distributed.go: every *)
(* gateway node decides on a local counter, consults the shared counter    *)
(* when the local one is exhausted, queues an event per admitted request   *)
(* for its event processor to add to the shared counter, and at every tick *)
(* of the sync loop exchanges its local count for the shared one.          *)
(*                                                                         *)
(* One key and the requests of one window are followed.  Events of the key *)
(* carry a delta of one each, so that a queue of them is its length.       *)
(***************************************************************************)
EXTENDS Naturals, FiniteSets, Functions

CONSTANTS
    Node,         \* gateway nodes
    Limit,        \* requests per window
    QueueCap,     \* capacity of eventCh
    BatchSize,    \* events the processor collects before it flushes
    MaxRequests,  \* bound on requests
    MaxSyncs,     \* bound on synchronisations and resets
    None          \* no counter, or nothing read

VARIABLES
    store,      \* the counter all nodes share
    limit,      \* limit[n]: limit the local counter was created with, or None
    value,      \* value[n]: the local counter
    stale,      \* nodes whose window is over
    holder,     \* holder[n]: call that holds the mutex of the counter, while it reads the store
    seen,       \* seen[n]: what that call read
    syncing,    \* syncing[n]: result of a sync's increment, not yet written back
    resetting,  \* nodes that have reset the local counter and not yet the shared one
    queue,      \* queue[n]: events in eventCh
    batch,      \* batch[n]: events the processor holds
    flushing,   \* nodes whose processor is publishing
    requests,   \* requests that came
    syncs,      \* increments made by synchronisations
    controls,   \* resets, windows and cluster syncs so far
    admitted,   \* requests admitted with an event
    failedOpen, \* requests admitted because the store could not be read
    published, dropped, failed  \* what became of the events

counters == <<store, limit, value, stale>>
callers == <<holder, seen, syncing, resetting>>
events == <<queue, batch, flushing>>
bounds == <<requests, syncs, controls>>
tallies == <<admitted, failedOpen, published, dropped, failed>>
vars == <<counters, callers, events, bounds, tallies>>

Init ==
    /\ store = 0
    /\ limit = [n \in Node |-> None]
    /\ value = [n \in Node |-> 0]
    /\ stale = {}
    /\ holder = [n \in Node |-> "none"]
    /\ seen = [n \in Node |-> None]
    /\ syncing = [n \in Node |-> None]
    /\ resetting = {}
    /\ queue = [n \in Node |-> 0]
    /\ batch = [n \in Node |-> 0]
    /\ flushing = {}
    /\ requests = 0 /\ syncs = 0 /\ controls = 0
    /\ admitted = 0 /\ failedOpen = 0
    /\ published = 0 /\ dropped = 0 /\ failed = 0

-----------------------------------------------------------------------------
\* A counter keeps the limit of the call that created it; calls other than
\* Allow create it with limit zero.
getOrCreateCounter(n, l) ==
    limit' = IF limit[n] = None THEN [limit EXCEPT ![n] = l] ELSE limit

Unlocked(n) == holder[n] = "none"

\* The event of an admitted request is queued, or dropped if the queue is full.
publishEvent(n) ==
    IF queue[n] < QueueCap
      THEN queue' = [queue EXCEPT ![n] = @ + 1] /\ UNCHANGED dropped
      ELSE dropped' = dropped + 1 /\ UNCHANGED queue

Admit(n, before) ==
    /\ value' = [value EXCEPT ![n] = before + 1]
    /\ admitted' = admitted + 1
    /\ publishEvent(n)
    /\ UNCHANGED <<batch, flushing, failedOpen, published, failed>>

\* Allow, under the mutex of the counter: reset the window if it is over,
\* then admit on the local count or go and read the shared one.
Allow(n) ==
    LET l == IF limit[n] = None THEN Limit ELSE limit[n]
        v == IF n \in stale THEN 0 ELSE value[n]
    IN  /\ requests < MaxRequests
        /\ Unlocked(n)
        /\ requests' = requests + 1
        /\ getOrCreateCounter(n, Limit)
        /\ stale' = stale \ {n}
        /\ \/ /\ v < l
              /\ Admit(n, v)
              /\ UNCHANGED holder
           \/ /\ v >= l
              /\ value' = [value EXCEPT ![n] = v]
              /\ holder' = [holder EXCEPT ![n] = "allow"]
              /\ UNCHANGED <<events, tallies>>
        /\ UNCHANGED <<store, seen, syncing, resetting, syncs, controls>>

\* GetCounter of a call that holds the mutex: the answer is the count of this
\* moment and is used at the next step, or the store fails.
GetCounter(n) ==
    /\ holder[n] # "none" /\ seen[n] = None
    /\ seen' = [seen EXCEPT ![n] = store]
    /\ UNCHANGED <<counters, holder, syncing, resetting, events, bounds, tallies>>

\* A store that cannot be read admits the request, without an event.
GetCounterFails(n) ==
    /\ holder[n] # "none" /\ seen[n] = None
    /\ holder' = [holder EXCEPT ![n] = "none"]
    /\ IF holder[n] = "allow"
         THEN /\ value' = [value EXCEPT ![n] = @ + 1]
              /\ failedOpen' = failedOpen + 1
         ELSE UNCHANGED <<value, failedOpen>>
    /\ UNCHANGED <<store, limit, stale, seen, syncing, resetting, events, bounds,
                   admitted, published, dropped, failed>>

Refuses(n) == holder[n] = "allow" /\ seen[n] # None /\ seen[n] >= Limit

\* Allow with the answer of the store: refuse, or take over its count and admit.
Decide(n) ==
    /\ holder[n] = "allow" /\ seen[n] # None
    /\ holder' = [holder EXCEPT ![n] = "none"]
    /\ seen' = [seen EXCEPT ![n] = None]
    /\ \/ /\ Refuses(n)
          /\ UNCHANGED <<value, events, tallies>>
       \/ /\ seen[n] < Limit
          /\ Admit(n, seen[n])
    /\ UNCHANGED <<store, limit, stale, syncing, resetting, bounds>>

-----------------------------------------------------------------------------
\* Mutant: a synchronisation adds the local count to the shared one.
SyncIncrementAll(n) ==
    /\ limit[n] # None
    /\ syncing[n] = None /\ Unlocked(n)
    /\ syncs < MaxSyncs
    /\ syncs' = syncs + 1
    /\ store' = store + value[n]
    /\ syncing' = [syncing EXCEPT ![n] = store + value[n]]
    /\ UNCHANGED <<limit, value, stale, holder, seen, resetting, events, requests, controls, tallies>>

\* SyncCounter, called for every local counter at every tick of the sync loop:
\* increment the shared counter by one, whatever was admitted, ...
SyncIncrement(n) ==
    /\ limit[n] # None
    /\ syncing[n] = None /\ Unlocked(n)
    /\ syncs < MaxSyncs
    /\ syncs' = syncs + 1
    /\ store' = store + 1
    /\ syncing' = [syncing EXCEPT ![n] = store + 1]
    /\ UNCHANGED <<limit, value, stale, holder, seen, resetting, events, requests, controls, tallies>>

\* ... and later overwrite the local count, with what was admitted meanwhile.
SyncOverwrite(n) ==
    /\ syncing[n] # None /\ Unlocked(n)
    /\ value' = [value EXCEPT ![n] = syncing[n]]
    /\ syncing' = [syncing EXCEPT ![n] = None]
    /\ UNCHANGED <<store, limit, stale, holder, seen, resetting, events, bounds, tallies>>

\* ClusterSync reads the shared counter under the mutex of the local one ...
ClusterSync(n) ==
    /\ controls < MaxSyncs
    /\ limit[n] # None /\ Unlocked(n)
    /\ controls' = controls + 1
    /\ holder' = [holder EXCEPT ![n] = "cluster"]
    /\ UNCHANGED <<counters, seen, syncing, resetting, events, requests, syncs, tallies>>

\* ... and takes it over.
ClusterTake(n) ==
    /\ holder[n] = "cluster" /\ seen[n] # None
    /\ value' = [value EXCEPT ![n] = seen[n]]
    /\ holder' = [holder EXCEPT ![n] = "none"]
    /\ seen' = [seen EXCEPT ![n] = None]
    /\ UNCHANGED <<store, limit, stale, syncing, resetting, events, bounds, tallies>>

\* ResetCounter: the local counter first, the shared one afterwards, or never.
ResetLocal(n) ==
    /\ controls < MaxSyncs
    /\ Unlocked(n) /\ n \notin resetting
    /\ controls' = controls + 1
    /\ getOrCreateCounter(n, 0)
    /\ value' = [value EXCEPT ![n] = 0]
    /\ stale' = stale \ {n}
    /\ resetting' = resetting \cup {n}
    /\ UNCHANGED <<store, holder, seen, syncing, events, requests, syncs, tallies>>

ResetShared(n) ==
    /\ n \in resetting
    /\ store' \in {0, store}
    /\ resetting' = resetting \ {n}
    /\ UNCHANGED <<limit, value, stale, holder, seen, syncing, events, bounds, tallies>>

\* GetClusterUsage leaves a counter with limit zero behind on a node that had none.
GetClusterUsage(n) ==
    /\ limit[n] = None
    /\ getOrCreateCounter(n, 0)
    /\ UNCHANGED <<store, value, stale, callers, events, bounds, tallies>>

\* The window of a node's counter ends, at its own clock; Allow notices it.
WindowEnds(n) ==
    /\ controls < MaxSyncs
    /\ controls' = controls + 1
    /\ limit[n] # None
    /\ stale' = stale \cup {n}
    /\ UNCHANGED <<store, limit, value, callers, events, requests, syncs, tallies>>

-----------------------------------------------------------------------------
\* eventProcessor: collect an event, and flush a full batch before the next ...
Collect(n) ==
    /\ n \notin flushing /\ queue[n] > 0
    /\ queue' = [queue EXCEPT ![n] = @ - 1]
    /\ batch' = [batch EXCEPT ![n] = @ + 1]
    /\ flushing' = IF batch[n] + 1 >= BatchSize THEN flushing \cup {n} ELSE flushing
    /\ UNCHANGED <<counters, callers, bounds, tallies>>

\* ... or flush what there is at a tick.
FlushTick(n) ==
    /\ n \notin flushing /\ batch[n] > 0
    /\ flushing' = flushing \cup {n}
    /\ UNCHANGED <<counters, callers, queue, batch, bounds, tallies>>

\* Mutant: a batch that could not be published is kept and counted as lost.
flushBatchKeeps(n) ==
    /\ n \in flushing
    /\ \/ /\ store' = store + batch[n] /\ published' = published + batch[n]
          /\ batch' = [batch EXCEPT ![n] = 0]
          /\ UNCHANGED failed
       \/ failed' = failed + batch[n] /\ UNCHANGED <<store, published, batch>>
    /\ flushing' = flushing \ {n}
    /\ UNCHANGED <<limit, value, stale, callers, queue, bounds, admitted, failedOpen, dropped>>

\* flushBatch publishes one event with the sum of the deltas; an error is
\* logged, and the batch is emptied either way.
flushBatch(n) ==
    /\ n \in flushing
    /\ \/ store' = store + batch[n] /\ published' = published + batch[n] /\ UNCHANGED failed
       \/ failed' = failed + batch[n] /\ UNCHANGED <<store, published>>
    /\ batch' = [batch EXCEPT ![n] = 0]
    /\ flushing' = flushing \ {n}
    /\ UNCHANGED <<limit, value, stale, callers, queue, bounds, admitted, failedOpen, dropped>>

Next ==
    \E n \in Node :
        \/ Allow(n) \/ GetCounter(n) \/ GetCounterFails(n) \/ Decide(n)
        \/ SyncIncrement(n) \/ SyncOverwrite(n)
        \/ ClusterSync(n) \/ ClusterTake(n)
        \/ ResetLocal(n) \/ ResetShared(n)
        \/ GetClusterUsage(n) \/ WindowEnds(n)
        \/ Collect(n) \/ FlushTick(n) \/ flushBatch(n)

Spec == Init /\ [][Next]_vars

-----------------------------------------------------------------------------
\* Every event of an admitted request is in one place: queued, collected, added
\* to the shared counter, dropped at a full queue, or lost with a failed flush.
\* Hazard: a batch flushed twice, or an event neither published nor accounted for.
EventsConserved ==
    admitted = SumFunctionOnSet([n \in Node |-> queue[n] + batch[n]], Node)
                 + published + dropped + failed

\* A refusal is confirmed by the shared counter, and all that counts there are
\* published admissions and the ticks of the sync loop: together they reached
\* the limit, however late events are and whatever the local counts were.
RefusedExplained ==
    [][\A n \in Node : Refuses(n) /\ holder'[n] = "none" => published + syncs >= Limit]_vars
=============================================================================
