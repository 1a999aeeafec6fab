---------------------------- MODULE QuotaManager ----------------------------
(***************************************************************************)
(* The quotas of an application (internal/traffic/quota.go), for one tier, *)
(* with a key for every period.  TrackApplicationQuota increments          *)
(* the usage of the minute, the hour and the day one after the other,      *)
(* while other requests do the same, and answers with the status it takes  *)
(* for the most restrictive.  The reset loop logs and resets nothing:        *)
(* usage starts afresh only when an administrator resets a key.  An API is *)
(* tracked in the same way for the minute alone, a user in a tier without  *)
(* limits, which counts nothing.                                           *)
(*                                                                         *)
(* A usage ratio is capped at one; ratios are compared as cross products.  *)
(***************************************************************************)
EXTENDS Naturals, Sequences, FiniteSets

CONSTANTS
    Call,         \* requests tracked at the same time
    Definition,   \* quota definitions of the tier: limit of each period
    Unlimited,    \* the limit that is not tracked (math.MaxInt64)
    MaxUsage, MaxResets, MaxFailures  \* bounds

Periods == <<"min", "hour", "day">>
Period == {"min", "hour", "day"}

VARIABLES
    tier,      \* the definition of the tier
    usage,     \* usage[p]: the counter of the key of period p in the store
    track,     \* track[c]: statuses call c has collected
    within,    \* calls that were told that nothing was exceeded
    restarts,    \* restarts[p]: resets of the key of period p
    uncounted

vars == <<tier, usage, track, within, restarts, uncounted>>

Init ==
    /\ tier \in Definition
    /\ usage = [p \in Period |-> 0]
    /\ track = [c \in Call |-> <<>>]
    /\ within = 0
    /\ restarts = [p \in Period |-> 0]
    /\ uncounted = 0

-----------------------------------------------------------------------------
getLimitForPeriod(p) == tier[p]

\* The status of a key that is not tracked, or whose increment failed.
Untracked == [used |-> 0, limit |-> 1, exceeded |-> FALSE]

Status(used, limit) == [used |-> used, limit |-> limit, exceeded |-> used > limit]

\* trackQuota answers status: an unlimited period is not counted, and an error
\* of the store counts as no usage.
trackQuota(p, status) ==
    LET limit == getLimitForPeriod(p) IN
    \/ /\ limit = Unlimited
       /\ status = Untracked
       /\ UNCHANGED <<usage, uncounted>>
    \/ /\ limit # Unlimited
       /\ usage[p] < MaxUsage
       /\ usage' = [usage EXCEPT ![p] = @ + 1]
       /\ status = Status(usage[p] + 1, limit)
       /\ UNCHANGED uncounted
    \/ /\ limit # Unlimited
       /\ uncounted < MaxFailures
       /\ uncounted' = uncounted + 1
       /\ status = Untracked
       /\ UNCHANGED usage

\* UsageRatio is one, where it is capped; a limit of zero makes it infinite.
Full(s) == s.used >= s.limit

\* UsageRatio of s exceeds that of t.
Fuller(s, t) == ~Full(t) /\ (Full(s) \/ s.used * t.limit > t.used * s.limit)

\* Mutant: a later status with the same ratio wins.
MostRestrictiveLast(statuses) ==
    LET best[i \in 1 .. Len(statuses)] ==
            IF i > 1 /\ Fuller(best[i - 1], statuses[i]) THEN best[i - 1] ELSE statuses[i]
    IN  best[Len(statuses)]

\* The first of the statuses whose ratio no other exceeds.
MostRestrictive(statuses) ==
    LET best[i \in 1 .. Len(statuses)] ==
            IF i > 1 /\ ~Fuller(statuses[i], best[i - 1]) THEN best[i - 1] ELSE statuses[i]
    IN  best[Len(statuses)]

Count(status) == within' = IF status.exceeded THEN within ELSE within + 1

\* TrackApplicationQuota, one period at a time, and the answer after the last.
TrackApplicationQuota(c) ==
    LET p == Periods[Len(track[c]) + 1]
    IN  /\ \E status \in {Untracked, Status(usage[p] + 1, getLimitForPeriod(p))} :
              LET statuses == Append(track[c], status) IN
              /\ trackQuota(p, status)
              /\ IF Len(statuses) < Len(Periods)
                   THEN track' = [track EXCEPT ![c] = statuses] /\ UNCHANGED within
                   ELSE /\ track' = [track EXCEPT ![c] = <<>>]
                        /\ Count(MostRestrictive(statuses))
        /\ UNCHANGED <<tier, restarts>>

\* ResetUsage, by handleResetQuota.
ResetUsage(p) ==
    /\ usage[p] > 0
    /\ \A other \in Period : restarts[other] < MaxResets
    /\ restarts' = [restarts EXCEPT ![p] = @ + 1]
    /\ usage' = [usage EXCEPT ![p] = 0]
    /\ UNCHANGED <<tier, track, within, uncounted>>

RegisterTier(definition) ==
    /\ tier' = definition
    /\ UNCHANGED <<usage, track, within, restarts, uncounted>>

Next ==
    \/ \E c \in Call : TrackApplicationQuota(c)
    \/ \E p \in Period : ResetUsage(p)
    \/ \E definition \in Definition : RegisterTier(definition)

Spec == Init /\ [][Next]_vars

-----------------------------------------------------------------------------
\* The largest limit a period may have.
Ceiling(p) == CHOOSE n \in {d[p] : d \in Definition} : \A d \in Definition : d[p] <= n

\* The answers that nothing was exceeded are bounded by the quota of every
\* period, with two exceptions: a call whose increment failed, and a call that
\* brought an earlier period exactly to its limit, whose ratio of one hides that
\* the later period is exceeded.  Hazard: counters are incremented one by one by
\* concurrent calls, and only one of three statuses is looked at.
QuotaBound ==
    (\A d \in Definition, p \in Period : d[p] # Unlimited) =>
        /\ within <= Ceiling("min") * (1 + restarts["min"]) + uncounted
        /\ within <= Ceiling("hour") * (1 + restarts["hour"]) + uncounted
                             + Cardinality(Definition) * (1 + restarts["min"])
=============================================================================
