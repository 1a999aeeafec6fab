------------------------------ MODULE MCLimiters ------------------------------
(***************************************************************************)
(* The limiters, which share no state: the throttling engine, the cluster- *)
(* wide limiter and the quotas of the traffic manager, the two limiters of *)
(* the gateway, and the keys of the sandbox.  One of them is chosen at the *)
(* start and moves, so that their states add up instead of multiplying.    *)
(***************************************************************************)
EXTENDS Throttling, TLC

CONSTANTS
  Limit, Tries, None, MaxTicks, MaxResets,
  QueueCap, BatchSize, MaxRequests, MaxSyncs,   \* cluster
  Burst,                                        \* database
  SpikeRate, MaxBuckets,                        \* local
  Unlimited, MaxUsage,                          \* quotas
  MinuteQuotas, HourQuotas, DayQuotas,          \*   limits of the periods
  SandboxKeys, SandboxApps, SandboxRates, SandboxQuotas, Lifetimes

\* The limits and bounds of the configuration are numbers, ...
ASSUME BoundsAssumption ==
  /\ Limit \in Nat \ {0} /\ Burst \in Nat \ {0} /\ Tries \in Nat /\ MaxTicks \in Nat
  /\ MaxBuckets \in Nat
  /\ MinuteQuotas \subseteq Nat /\ HourQuotas \subseteq Nat /\ DayQuotas \subseteq Nat
  /\ \A quotas \in {MinuteQuotas, HourQuotas, DayQuotas} : quotas # {} /\ IsFiniteSet(quotas)
  /\ SandboxRates \subseteq Nat /\ SandboxQuotas \subseteq Nat
  /\ Lifetimes \subseteq Nat \cup {None}

\* ... and None is neither a number nor a record of any of the limiters.
ASSUME AbsenceAssumption ==
  /\ None \notin Nat
  /\ None \notin [tokens: Nat, last: Nat]
  /\ None \notin [tokens: Nat, last: Nat, reset: Nat]
  /\ None \notin [tokens: Nat, last: Nat, window: Nat]
  /\ None \notin [at: Nat, step: {"read", "increment"}, seen: Nat]
  /\ None \notin [app: SandboxApps, active: BOOLEAN, rate: Nat, quota: Nat, used: Nat,
                  until: Nat \cup {None}]
  /\ None \notin [key: SandboxKeys, at: {"valid", "rate", "quota", "load", "store"}, read: Nat,
                  alone: BOOLEAN]

VARIABLES
  store, limit, value, stale, holder, seen, syncing, resetting, queue, batch,
  flushing, requests, syncs, controls, admitted, failedOpen, published, dropped, failed,
  clock, count, state, call, spent, resets, due, wiped,
  tick, buckets, current, holds, born, given, spike,
  tier, usage, track, within, restarts, uncounted,
  mode, minute, keys, byApp, key, keyBuckets, request, passed, uses, overlapped,
  subject    \* the limiter that moves

\* In the run a quota smaller in the minute than in the hour, and one that is not.
Definition == [min: MinuteQuotas, hour: HourQuotas, day: DayQuotas]

\* A sandbox key is looked for in four places; a request may name none.
NamedKeys ==
  {<<None, None, None, None>>}
    \cup {<<None, k, None, "unknown">> : k \in SandboxKeys}
    \cup {<<None, None, None, k>> : k \in SandboxKeys}

\* Two of everything that moves at the same time: the requests of the engine stand
\* for nodes and calls as well, which are as interchangeable as they are.
Cluster == INSTANCE DistributedLimiter WITH Node <- Requests
Db == INSTANCE DbRateLimiter WITH DbNode <- Requests, MaxTime <- MaxTicks, StaleAge <- Window - 1
Local == INSTANCE LocalRateLimiter WITH Caller <- Requests, MaxTime <- MaxTicks
Quota == INSTANCE QuotaManager WITH Call <- Requests
Sandbox == INSTANCE Sandbox WITH Key <- SandboxKeys, App <- SandboxApps, Request <- Requests,
             Place <- NamedKeys, RateLimit <- SandboxRates, QuotaLimit <- SandboxQuotas,
             Lifetime <- Lifetimes,
             Minute <- Window, MaxTime <- MaxTicks, MaxUses <- MaxUsage,
             now <- minute, buckets <- keyBuckets

clusterVars == <<store, limit, value, stale, holder, seen, syncing, resetting, queue, batch,
                 flushing, requests, syncs, controls, admitted, failedOpen, published, dropped, failed>>
dbVars == <<clock, count, state, call, spent, resets, due, wiped>>
localVars == <<tick, buckets, current, holds, born, given, spike>>
quotaVars == <<tier, usage, track, within, restarts, uncounted>>
sandboxVars == <<mode, minute, keys, byApp, key, keyBuckets, request, passed, uses, overlapped>>

LimitersInit ==
  /\ subject \in {"engine", "cluster", "database", "local", "quota", "sandbox"}
  /\ Init /\ Cluster!Init /\ Db!Init /\ Local!Init /\ Quota!Init /\ Sandbox!Init
  /\ subject # "quota" => tier = CHOOSE d \in Definition : TRUE

\* The others keep their state.
Only(who) ==
  /\ subject = who /\ UNCHANGED subject
  /\ IF who = "engine" THEN TRUE ELSE UNCHANGED vars
  /\ IF who = "cluster" THEN TRUE ELSE UNCHANGED clusterVars
  /\ IF who = "database" THEN TRUE ELSE UNCHANGED dbVars
  /\ IF who = "local" THEN TRUE ELSE UNCHANGED localVars
  /\ IF who = "quota" THEN TRUE ELSE UNCHANGED quotaVars
  /\ IF who = "sandbox" THEN TRUE ELSE UNCHANGED sandboxVars

LimitersNext ==
  \/ Only("engine") /\ Next
  \/ Only("cluster") /\ Cluster!Next
  \/ Only("database") /\ Db!Next
  \/ Only("local") /\ Local!Next
  \/ Only("quota") /\ Quota!Next
  \/ Only("sandbox") /\ Sandbox!Next

LimitersSpec ==
  LimitersInit /\ [][LimitersNext]_<<vars, clusterVars, dbVars, localVars, quotaVars,
                                     sandboxVars, subject>>

Symmetry == Permutations(Requests) \cup Permutations(Buckets)

-------------------------------------------------------------------------------
\* Every event of an admitted request is queued, collected, published, dropped
\* at a full queue or lost with a failed flush: in one place only.
EventsConserved == Cluster!EventsConserved

\* The cluster limiter refuses only what published admissions and the sync loop
\* have brought to the limit.
RefusedExplained == Cluster!RefusedExplained

\* What one node admits in a window by the limiter that counts in the database.
NodeBound == Db!NodeBound

\* What one entry of the local limiter admits, however late it is used.
EntryBound == Local!EntryBound

\* The answers that no quota was exceeded, and the requests a sandbox key lets in.
QuotaBound == Quota!QuotaBound /\ Sandbox!UseBound
===============================================================================
