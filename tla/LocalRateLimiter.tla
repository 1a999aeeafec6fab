-------------------------- MODULE LocalRateLimiter --------------------------
(***************************************************************************)
(* LocalRateLimiter of internal/gateway/ratelimit.go, for one key, behind  *)
(* the spike arrest of ThrottleMiddleware.  A caller looks up the bucket   *)
(* entry of the key and uses it afterwards, when it may have been deleted  *)
(* from the map and replaced.                                              *)
(*                                                                         *)
(* Time is a count of ticks, Window of them to a window; a token is Window *)
(* units, a tick refills Limit units, so that the rate is exact.           *)
(***************************************************************************)
EXTENDS Naturals

CONSTANTS
    Caller,    \* concurrent requests
    Limit, Burst, Window,
    SpikeRate, \* capacity and rate per tick of SpikeArrest
    MaxTime, MaxBuckets,  \* bounds
    None

VARIABLES
    tick,
    buckets,  \* buckets[b]: the bucket entries ever made: [tokens, last, reset]
    current,  \* the entry stored under the key, or 0
    holds,    \* holds[c]: the entry a caller has looked up and when, or None
    born,     \* born[b]: when entry b was made
    given,    \* given[b]: requests entry b admitted
    spike     \* bucket of SpikeArrest: [tokens, last]

vars == <<tick, buckets, current, holds, born, given, spike>>

WindowOf(t) == t \div Window

Init ==
    /\ tick = 0
    /\ buckets = [b \in 1 .. MaxBuckets |-> None]
    /\ current = 0
    /\ holds = [c \in Caller |-> None]
    /\ born = [b \in 1 .. MaxBuckets |-> 0]
    /\ given = [b \in 1 .. MaxBuckets |-> 0]
    /\ spike = [tokens |-> SpikeRate, last |-> 0]

Lesser(a, b) == IF a <= b THEN a ELSE b

Tick == tick < MaxTime /\ tick' = tick + 1 /\ UNCHANGED <<buckets, current, holds, born, given, spike>>

ResetAt(t) == WindowOf(t) + 1

FullBucket(at) == [tokens |-> Burst * Window, last |-> tick, reset |-> ResetAt(at)]

\* Allow of a TokenBucket: refill, then take a token if there is one.
SpikeTokens == Lesser(SpikeRate, spike.tokens + (tick - spike.last) * SpikeRate)

\* ThrottleMiddleware refuses, or lets the request on to the limiter, which
\* loads the entry of the key or stores a new one.
Lookup(c) ==
    /\ holds[c] = None
    /\ \/ /\ SpikeTokens < 1
          /\ spike' = [tokens |-> SpikeTokens, last |-> tick]
          /\ UNCHANGED <<buckets, current, holds, born, given>>
       \/ /\ SpikeTokens >= 1
          /\ spike' = [tokens |-> SpikeTokens - 1, last |-> tick]
          /\ \/ /\ current # 0
                /\ holds' = [holds EXCEPT ![c] = [at |-> tick, entry |-> current]]
                /\ UNCHANGED <<buckets, current, born, given>>
             \/ /\ current = 0
                /\ \E b \in 1 .. MaxBuckets :
                      /\ buckets[b] = None
                      /\ \A a \in 1 .. b - 1 : buckets[a] # None
                      /\ buckets' = [buckets EXCEPT ![b] = FullBucket(tick)]
                      /\ born' = [born EXCEPT ![b] = tick]
                      /\ current' = b
                      /\ holds' = [holds EXCEPT ![c] = [at |-> tick, entry |-> b]]
                /\ UNCHANGED given
    /\ UNCHANGED tick

\* Mutant: any window but the entry's own renews the bucket.
FoundOther(c) ==
    LET e == buckets[holds[c].entry]
        base == IF ResetAt(holds[c].at) # e.reset THEN FullBucket(holds[c].at) ELSE e
    IN  [base EXCEPT !.tokens = Lesser(Burst * Window, @ + (tick - base.last) * Limit), !.last = tick]

\* The entry as its holder finds it under the entry's mutex: a new bucket if
\* the window of the holder's call is later than the entry's, then refilled.
Found(c) ==
    LET e == buckets[holds[c].entry]
        base == IF ResetAt(holds[c].at) > e.reset THEN FullBucket(holds[c].at) ELSE e
    IN  [base EXCEPT !.tokens = Lesser(Burst * Window, @ + (tick - base.last) * Limit), !.last = tick]

UseBucket(c) ==
    /\ holds[c] # None
    /\ LET b == holds[c].entry
           e == Found(c)
       IN  \/ /\ e.tokens >= Window
              /\ buckets' = [buckets EXCEPT ![b] = [e EXCEPT !.tokens = @ - Window]]
              /\ given' = [given EXCEPT ![b] = @ + 1]
           \/ /\ e.tokens < Window
              /\ buckets' = [buckets EXCEPT ![b] = e]
              /\ UNCHANGED given
    /\ holds' = [holds EXCEPT ![c] = None]
    /\ UNCHANGED <<tick, current, born, spike>>

\* Reset, and the clean-up of an entry long past its window, delete the entry
\* from the map; a caller that has it goes on using it.
ForgetBucket ==
    /\ current # 0
    /\ \E b \in 1 .. MaxBuckets : buckets[b] = None
    /\ current' = 0
    /\ UNCHANGED <<tick, buckets, holds, born, given, spike>>

-----------------------------------------------------------------------------
Next == Tick \/ ForgetBucket \/ \E c \in Caller : Lookup(c) \/ UseBucket(c)

Spec == Init /\ [][Next]_vars

-----------------------------------------------------------------------------
\* An entry admits no more than a full bucket for each window it has seen and
\* what is refilled since it was made.  Hazard: calls that took the time in an
\* older window use the entry late, and so do calls that hold a deleted entry.
EntryBound ==
    \A b \in 1 .. MaxBuckets :
        given[b] * Window <= Burst * Window * (1 + WindowOf(tick) - WindowOf(born[b]))
                               + Limit * (tick - born[b])
=============================================================================
