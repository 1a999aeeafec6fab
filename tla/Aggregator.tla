----------------------------- MODULE Aggregator -----------------------------
(***************************************************************************)
(* The analytics aggregator (internal/analytics/aggregator.go).  A loop,   *)
(* and Shutdown once more at the end, read the events of the last hour in  *)
(* one statement, insert one summary per API and delete events that are    *)
(* too old.  The identifier of a summary is its API and the second at      *)
(* which its window starts, so a second summary of a second is refused.    *)
(***************************************************************************)
EXTENDS Naturals, FiniteSets

CONSTANTS
    Api, Event,
    apiOf,       \* apiOf[e]: the API event e is about
    erroneous,   \* events with a status of 400 or more
    Loop,        \* goroutines of Run
    Hour,        \* the window, in seconds of the model
    Retention,
    Late,        \* an event is stored at most this long after its time stamp
    MaxTime,     \* bound on the clock
    MaxFaults,   \* bound on statements that fail
    MaxRuns,     \* bound on calls of Run
    None

VARIABLES
    now,
    events,     \* events[e]: the time stamp of e in the table, or None
    recorded,   \* recorded[e]: the time stamp e was stored with, whatever was deleted since
    summaries,  \* [api, start, counted, errors]
    agg,        \* agg[x]: the aggregation x is in
    running,    \* the field of that name
    stopCh,     \* whether it is closed
    crashed,    \* it was closed twice
    refused,    \* <<api, start>> of insertions that failed
    faults, runs

vars == <<now, events, recorded, summaries, agg, running, stopCh, crashed, refused, faults, runs>>

\* Shutdown aggregates itself.
Actor == Loop \cup {"Shutdown"}

Away == [at |-> "off", start |-> 0, rows |-> {}, seen |-> {}]

Init ==
    /\ now = Hour + Retention
    /\ events = [e \in Event |-> None]
    /\ recorded = events /\ summaries = {}
    /\ agg = [x \in Actor |-> Away]
    /\ running = FALSE /\ stopCh = FALSE /\ crashed = FALSE
    /\ refused = {}
    /\ faults = 0 /\ runs = 0

Fault == faults < MaxFaults /\ faults' = faults + 1

-----------------------------------------------------------------------------
\* The collector stores events, some time after they happened.
InsertEvent(e) ==
    /\ recorded[e] = None
    /\ \E t \in now - Late .. now :
          events' = [events EXCEPT ![e] = t] /\ recorded' = [recorded EXCEPT ![e] = t]
    /\ UNCHANGED <<now, summaries, agg, running, stopCh, crashed, refused, faults, runs>>

Tick ==
    /\ now < MaxTime /\ now' = now + 1
    /\ UNCHANGED <<events, recorded, summaries, agg, running, stopCh, crashed, refused, faults, runs>>

-----------------------------------------------------------------------------
(* RunAggregation                                                          *)

Between(start, end) == {e \in Event : events[e] # None /\ events[e] \in start .. end}

\* What is counted of an API between two times.
AggregateByAPI(a, start, end) ==
    LET counted == {e \in Between(start, end) : apiOf[e] = a}
    IN  [api |-> a, start |-> start, counted |-> counted, errors |-> counted \cap erroneous]

\* The query, of all APIs that have events, or its failure, which ends it.
ReadEvents(x) ==
    /\ agg[x].at = "query"
    /\ LET start == now - Hour
           rows == {r \in {AggregateByAPI(a, start, now) : a \in Api} : r.counted # {}}
       IN  \/ /\ agg' = [agg EXCEPT ![x] = [at |-> "insert", start |-> start, rows |-> rows,
                                           seen |-> Between(start, now)]]
              /\ UNCHANGED faults
           \/ Fault /\ agg' = [agg EXCEPT ![x].at = "end"]
    /\ UNCHANGED <<now, events, recorded, summaries, running, stopCh, crashed, refused, runs>>

\* One summary after the other; one that is refused or fails is passed over.
InsertSummary(x) ==
    /\ agg[x].at = "insert"
    /\ \E row \in agg[x].rows :
          /\ agg' = [agg EXCEPT ![x].rows = @ \ {row}]
          /\ LET there == \E s \in summaries : s.api = row.api /\ s.start = row.start
             IN  \/ /\ ~there
                    /\ summaries' = summaries \cup {row}
                    /\ UNCHANGED <<refused, faults>>
                 \/ there /\ UNCHANGED <<summaries, refused, faults>>
                 \/ /\ Fault
                    /\ refused' = refused \cup {<<row.api, row.start>>}
                    /\ UNCHANGED summaries
    /\ UNCHANGED <<now, events, recorded, running, stopCh, crashed, runs>>

\* Old events go, measured from when the aggregation began.
Prune(x) ==
    /\ agg[x].at = "insert" /\ agg[x].rows = {}
    /\ agg' = [agg EXCEPT ![x].at = "end"]
    /\ \/ /\ events' = [e \in Event |->
                IF events[e] # None /\ events[e] < agg[x].start + Hour - Retention THEN None ELSE events[e]]
          /\ UNCHANGED faults
       \/ Fault /\ UNCHANGED events
    /\ UNCHANGED <<now, recorded, summaries, running, stopCh, crashed, refused, runs>>

-----------------------------------------------------------------------------
(* Run, its loop, and Shutdown                                             *)

\* Run does nothing while the aggregator runs; it sets the field under the mutex ...
Run(l) ==
    /\ runs < MaxRuns /\ runs' = runs + 1
    /\ ~running /\ agg[l].at = "off"
    /\ running' = TRUE
    /\ agg' = [agg EXCEPT ![l].at = "starting"]
    /\ UNCHANGED <<now, events, recorded, summaries, stopCh, crashed, refused, faults>>

\* ... and then counts the loop for the wait group and starts it; the loop
\* aggregates first.
StartLoop(l) ==
    /\ agg[l].at = "starting"
    /\ agg' = [agg EXCEPT ![l].at = "query"]
    /\ UNCHANGED <<now, events, recorded, summaries, running, stopCh, crashed, refused, faults, runs>>

\* The ticker, or the closed channel.
aggregationLoop(l) ==
    /\ agg[l].at = "end"
    /\ agg' = [agg EXCEPT ![l].at = "select"]
    /\ UNCHANGED <<now, events, recorded, summaries, running, stopCh, crashed, refused, faults, runs>>

SelectCase(l) ==
    /\ agg[l].at = "select"
    /\ \/ agg' = [agg EXCEPT ![l].at = "query"]
       \/ stopCh /\ agg' = [agg EXCEPT ![l] = Away]
    /\ UNCHANGED <<now, events, recorded, summaries, running, stopCh, crashed, refused, faults, runs>>

\* Closing the channel a second time, after a second Run, ends the program.
Shutdown ==
    /\ agg["Shutdown"].at \in {"off", "returned", "timeout"}
    /\ running /\ running' = FALSE
    /\ stopCh' = TRUE
    /\ crashed' = stopCh
    /\ agg' = [agg EXCEPT !["Shutdown"] = [Away EXCEPT !.at = "wait"]]
    /\ UNCHANGED <<now, events, recorded, summaries, refused, faults, runs>>

\* Mutant: the loops are not waited for, and nothing is aggregated any more.
FinalSkipped ==
    /\ agg["Shutdown"].at = "wait"
    /\ agg' = [agg EXCEPT !["Shutdown"] = [@ EXCEPT !.at = "end", !.seen = Between(now - Hour, now),
                                                    !.start = now - Hour]]
    /\ UNCHANGED <<now, events, recorded, summaries, running, stopCh, crashed, refused, faults, runs>>

\* A last aggregation once every loop that was counted has ended, unless the
\* caller gives up; one that is still to be started is not waited for.
Final ==
    /\ agg["Shutdown"].at = "wait"
    /\ \/ /\ \A l \in Loop : agg[l].at \in {"off", "starting"}
          /\ agg' = [agg EXCEPT !["Shutdown"].at = "query"]
       \/ agg' = [agg EXCEPT !["Shutdown"].at = "timeout"]
    /\ UNCHANGED <<now, events, recorded, summaries, running, stopCh, crashed, refused, faults, runs>>

Return ==
    /\ agg["Shutdown"].at = "end"
    /\ agg' = [agg EXCEPT !["Shutdown"].at = "returned"]
    /\ UNCHANGED <<now, events, recorded, summaries, running, stopCh, crashed, refused, faults, runs>>

-----------------------------------------------------------------------------
Step ==
    \/ \E e \in Event : InsertEvent(e)
    \/ Tick
    \/ \E x \in Actor : ReadEvents(x) \/ InsertSummary(x) \/ Prune(x)
    \/ \E l \in Loop : Run(l) \/ StartLoop(l) \/ aggregationLoop(l) \/ SelectCase(l)
    \/ Shutdown \/ Final \/ Return

Next == ~crashed /\ Step

AggregatorSpec == Init /\ [][Next]_vars

-----------------------------------------------------------------------------
\* Once Shutdown has returned, every event that its last query found has been
\* summarised, unless the insertion failed or another aggregation already has
\* the summary of that API and second.  Hazard: the final aggregation runs
\* beside a loop that was not counted when Shutdown waited.
FinalCovers ==
    agg["Shutdown"].at = "returned" =>
        \A e \in agg["Shutdown"].seen :
            \/ \E s \in summaries : e \in s.counted
            \/ \E s \in summaries : s.api = apiOf[e] /\ s.start = agg["Shutdown"].start
            \/ <<apiOf[e], agg["Shutdown"].start>> \in refused

\* A summary counts only events of its API whose time stamps are within its
\* hour, also when they were deleted since, and summaries of one API with the
\* same start never differ.  Hazard: aggregations overlap, and delete events
\* that others have read.
SummariesTrue ==
    \A s \in summaries :
        /\ s.errors = s.counted \cap erroneous
        /\ \A e \in s.counted : apiOf[e] = s.api /\ recorded[e] \in s.start .. s.start + Hour
        /\ \A t \in summaries : t.api = s.api /\ t.start = s.start => t = s
=============================================================================
