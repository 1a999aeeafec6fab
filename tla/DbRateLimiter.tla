--------------------------- MODULE DbRateLimiter ---------------------------
(***************************************************************************)
(* DBRateLimiter of internal/gateway/ratelimit.go, for one key: every node *)
(* keeps a token bucket in memory, and turns to the counter all nodes      *)
(* share (the table throttle_counters) when the bucket is empty.           *)
(*                                                                         *)
(* Time is a count of ticks, Window of them to a window.  Tokens are       *)
(* counted in units of 1/Window, so that refilling at Limit tokens per     *)
(* window is exact: a token is Window units, a tick refills Limit units.   *)
(***************************************************************************)
EXTENDS Integers, FiniteSets, Functions

CONSTANTS
    DbNode,    \* gateway nodes that share the counters
    Limit, Burst, Window,
    StaleAge,  \* the clean-up's ten minutes, here not less than a window
    Tries,     \* times the store client may execute an increment
    MaxTime, MaxResets,  \* bounds
    None

VARIABLES
    clock,    \* the time
    count,    \* count[w]: throttle_counters of window w
    state,    \* state[d]: bucketState of the key on d: [tokens, last, window] or None
    call,     \* call[d]: None, or the call that holds the mutex: [at, step, seen]
    spent,    \* spent[d]: requests d admitted in the window of its state
    resets,   \* resets of the key by an administrator
    due,      \* due[d]: DELETEs of d's resets that may still be executed
    wiped     \* history: DELETEs executed

vars == <<clock, count, state, call, spent, resets, due, wiped>>
wipes == <<due, wiped>>

Windows == 0 .. MaxTime \div Window
WindowOf(t) == t \div Window

Init ==
    /\ clock = 0
    /\ count = [w \in Windows |-> 0]
    /\ state = [d \in DbNode |-> None]
    /\ call = [d \in DbNode |-> None]
    /\ spent = [d \in DbNode |-> 0]
    /\ resets = 0
    /\ due = [d \in DbNode |-> 0]
    /\ wiped = 0

Lesser(a, b) == IF a <= b THEN a ELSE b
Greater(a, b) == IF a >= b THEN a ELSE b

\* Time passes between any two steps, also while a call waits for the database.
Tick ==
    clock < MaxTime /\ clock' = clock + 1 /\ UNCHANGED <<count, state, call, spent, resets, wipes>>

-----------------------------------------------------------------------------
\* The bucket at time t: a new one in a new window, refilled up to Burst.
Refreshed(d, t) ==
    IF state[d] = None \/ state[d].window < WindowOf(t)
      THEN [tokens |-> Burst * Window, last |-> t, window |-> WindowOf(t)]
      ELSE [state[d] EXCEPT !.tokens = Lesser(Burst * Window, @ + (t - state[d].last) * Limit),
                            !.last = t]

\* Requests admitted in the window of the bucket, a new window starting afresh.
SpentAt(d, t) ==
    IF state[d] = None \/ state[d].window < WindowOf(t) THEN 0 ELSE spent[d]

\* AllowWithBurst takes the mutex, refreshes the bucket, and takes a token of
\* it, or keeps the mutex and turns to the database.
AllowWithBurst(d) ==
    LET s == Refreshed(d, clock)
    IN  /\ call[d] = None
        /\ \/ /\ s.tokens >= Window
              /\ state' = [state EXCEPT ![d] = [s EXCEPT !.tokens = @ - Window]]
              /\ spent' = [spent EXCEPT ![d] = SpentAt(d, clock) + 1]
              /\ UNCHANGED call
           \/ /\ s.tokens < Window
              /\ state' = [state EXCEPT ![d] = s]
              /\ spent' = [spent EXCEPT ![d] = SpentAt(d, clock)]
              /\ call' = [call EXCEPT ![d] = [at |-> clock, step |-> "read", seen |-> 0]]
        /\ UNCHANGED <<clock, count, resets, wipes>>

\* GetThrottleCounter: a count below the limit is to be incremented; an error
\* or a count at the limit refuses the request.
ReadCounter(d) ==
    /\ call[d] # None /\ call[d].step = "read"
    /\ LET seen == count[WindowOf(call[d].at)]
       IN  call' = [call EXCEPT ![d] =
               IF seen < Limit THEN [@ EXCEPT !.step = "increment", !.seen = seen] ELSE None]
    /\ UNCHANGED <<clock, count, state, spent, resets, wipes>>

ReadFails(d) ==
    /\ call[d] # None /\ call[d].step = "read"
    /\ call' = [call EXCEPT ![d] = None]
    /\ UNCHANGED <<clock, count, state, spent, resets, wipes>>

\* Mutant: the bucket is filled again whatever the counter leaves of Burst.
IncrementCounterFills(d) ==
    /\ call[d] # None /\ call[d].step = "increment"
    /\ call' = [call EXCEPT ![d] = None]
    /\ \E times \in 0 .. Tries, ok \in BOOLEAN :
          /\ ok => times > 0
          /\ count' = [count EXCEPT ![WindowOf(call[d].at)] = @ + times]
          /\ IF ok
               THEN /\ state' = [state EXCEPT ![d].tokens = Window * Burst,
                                              ![d].last = call[d].at]
                    /\ spent' = [spent EXCEPT ![d] = @ + 1]
               ELSE UNCHANGED <<state, spent>>
    /\ UNCHANGED <<clock, resets, wipes>>

\* IncrementThrottleCounter, which the store client executes up to Tries times
\* and may report as failed although it was.  After a success the bucket is
\* filled again with what the counter leaves of Burst.
IncrementCounter(d) ==
    /\ call[d] # None /\ call[d].step = "increment"
    /\ call' = [call EXCEPT ![d] = None]
    /\ \E times \in 0 .. Tries, ok \in BOOLEAN :
          /\ ok => times > 0
          /\ count' = [count EXCEPT ![WindowOf(call[d].at)] = @ + times]
          /\ IF ok
               THEN /\ state' = [state EXCEPT ![d].tokens =
                                   Window * Greater(0, Burst - (call[d].seen + 1)),
                                              ![d].last = call[d].at]
                    /\ spent' = [spent EXCEPT ![d] = @ + 1]
               ELSE UNCHANGED <<state, spent>>
    /\ UNCHANGED <<clock, resets, wipes>>

\* Reset forgets the bucket under the mutex, and then deletes the counters of the
\* key without it.
ResetDb(d) ==
    /\ call[d] = None
    /\ resets < MaxResets
    /\ resets' = resets + 1
    /\ state' = [state EXCEPT ![d] = None]
    /\ due' = [due EXCEPT ![d] = @ + Tries]
    /\ UNCHANGED <<clock, count, call, spent, wiped>>

\* ResetThrottleCounter, which the store client executes up to Tries times, at
\* moments of its own, or never.
ResetThrottleCounter(d) ==
    /\ due[d] > 0
    /\ due' = [due EXCEPT ![d] = @ - 1]
    /\ count' = [w \in Windows |-> 0]
    /\ wiped' = wiped + 1
    /\ UNCHANGED <<clock, state, call, spent, resets>>

\* The clean-up drops buckets whose window began long ago.
CleanupDb(d) ==
    /\ call[d] = None
    /\ state[d] # None /\ state[d].window * Window + StaleAge < clock
    /\ state' = [state EXCEPT ![d] = None]
    /\ UNCHANGED <<clock, count, call, spent, resets, wipes>>

-----------------------------------------------------------------------------
Next == Tick \/ \E d \in DbNode :
    AllowWithBurst(d) \/ ReadCounter(d) \/ ReadFails(d) \/ IncrementCounter(d)
    \/ ResetDb(d) \/ ResetThrottleCounter(d) \/ CleanupDb(d)

Spec == Init /\ [][Next]_vars

-----------------------------------------------------------------------------
\* Every admission by the database gives the bucket back what the counter
\* leaves of Burst, so that a node admits in one window far more than Limit:
\* its burst, its refill, and once for every value of the counter below Limit
\* the request itself and the refilled tokens.  It never admits more than that
\* between two executed deletions of the counters, of which a reset that is
\* repeated makes several.  Hazard: the stale count a node read is written to its
\* bucket after other nodes have moved the counter, or a reset has deleted it.
Regrants(k) ==
    SumFunctionOnSet([i \in 1 .. Limit |-> 1 + Greater(0, Burst - i)], 1 .. k)

NodeBound ==
    \A d \in DbNode : spent[d] <= Limit + Burst + (1 + wiped) * Regrants(Limit)
=============================================================================
