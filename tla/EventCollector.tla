--------------------------- MODULE EventCollector ---------------------------
(***************************************************************************)
(* The collector of analytics events (internal/analytics/collector.go).    *)
(* Handlers put events into buffered channels; one goroutine per channel   *)
(* publishes them, those of requests in batches and those of throttled     *)
(* requests one by one, until Shutdown closes stopCh, after which it       *)
(* drains its channel once and ends.  The two goroutines differ only in    *)
(* the size of the batch and in the ticker that flushes an unfinished one. *)
(*                                                                         *)
(* Events are counted; what the collector's own unsynchronised counters    *)
(* show is not followed.                                                   *)
(***************************************************************************)
EXTENDS Naturals

CONSTANTS
    Sender,      \* handlers that report events
    BufferSize,  \* BufferSize[ch]: capacity of channel ch
    BatchSize,   \* BatchSize[ch]: events published at once
    MaxEvents,   \* bound on events
    None

Channel == {"event", "throttle"}

VARIABLES
    stopped, closed,  \* the flag under the mutex, and stopCh
    sending,    \* sending[s]: channel handler s is about to send to, or None
    buffered,   \* buffered[ch]: events in the channel
    batch,      \* batch[ch]: events its goroutine holds
    phase,      \* phase[ch]: "run", "drain", "last" or "done"
    flushing,   \* channels whose goroutine is publishing
    shutdown,   \* "no", "closing", "waiting", "graceful" or "timeout"
    reported, accepted, delivered, lost,  \* tallies of events, by channel
    late        \* late[ch]: events accepted after the goroutine had seen its channel empty

collectorVars == <<stopped, closed, sending, buffered, batch, phase, flushing, shutdown,
                   reported, accepted, delivered, lost, late>>

processors == <<batch, phase, flushing, delivered, lost>>

Zero == [ch \in Channel |-> 0]

CollectorInit ==
    /\ stopped = FALSE /\ closed = FALSE
    /\ sending = [s \in Sender |-> None]
    /\ buffered = Zero /\ batch = Zero
    /\ phase = [ch \in Channel |-> "run"]
    /\ flushing = {}
    /\ shutdown = "no"
    /\ reported = 0
    /\ accepted = Zero /\ delivered = Zero /\ lost = Zero /\ late = Zero

-----------------------------------------------------------------------------
\* CollectRequestEvent and CollectThrottleEvent look at the flag under the
\* mutex.  CollectResponseEvent, CollectFaultEvent and RecordInvocation end in
\* the former, which marks every event as one of a request.
CheckStopped(s, ch) ==
    /\ sending[s] = None
    /\ reported < MaxEvents
    /\ reported' = reported + 1
    /\ sending' = IF stopped THEN sending ELSE [sending EXCEPT ![s] = ch]
    /\ UNCHANGED <<stopped, closed, buffered, shutdown, accepted, late, processors>>

\* They send afterwards, without the mutex, or drop the event if it is full.
Send(s) ==
    LET ch == sending[s] IN
    /\ ch # None
    /\ sending' = [sending EXCEPT ![s] = None]
    /\ \/ /\ buffered[ch] < BufferSize[ch]
          /\ buffered' = [buffered EXCEPT ![ch] = @ + 1]
          /\ accepted' = [accepted EXCEPT ![ch] = @ + 1]
          /\ late' = IF phase[ch] \in {"last", "done"} THEN [late EXCEPT ![ch] = @ + 1] ELSE late
       \/ /\ buffered[ch] >= BufferSize[ch]
          /\ UNCHANGED <<buffered, accepted, late>>
    /\ UNCHANGED <<stopped, closed, shutdown, reported, processors>>

-----------------------------------------------------------------------------
(* eventProcessor and throttleProcessor                                    *)

others == <<stopped, closed, sending, shutdown, reported, accepted, late>>

Take(ch) ==
    /\ phase[ch] \in {"run", "drain"} /\ ch \notin flushing
    /\ buffered[ch] > 0
    /\ buffered' = [buffered EXCEPT ![ch] = @ - 1]
    /\ batch' = [batch EXCEPT ![ch] = @ + 1]
    /\ flushing' = IF batch'[ch] >= BatchSize[ch] THEN flushing \cup {ch} ELSE flushing
    /\ UNCHANGED <<phase, delivered, lost, others>>

\* The ticker, which only the processor of request events has.
FlushTick ==
    /\ phase["event"] = "run" /\ "event" \notin flushing
    /\ batch["event"] > 0
    /\ flushing' = flushing \cup {"event"}
    /\ UNCHANGED <<buffered, batch, phase, delivered, lost, others>>

\* PublishEvents or PublishThrottleEvent; the events are gone if it fails.
Publish(ch) ==
    /\ ch \in flushing
    /\ \/ delivered' = [delivered EXCEPT ![ch] = @ + batch[ch]] /\ UNCHANGED lost
       \/ lost' = [lost EXCEPT ![ch] = @ + batch[ch]] /\ UNCHANGED delivered
    /\ batch' = [batch EXCEPT ![ch] = 0]
    /\ flushing' = flushing \ {ch}
    /\ phase' = IF phase[ch] = "last" THEN [phase EXCEPT ![ch] = "done"] ELSE phase
    /\ UNCHANGED <<buffered, others>>

\* select takes any ready case: the close may be seen before buffered events.
SeeStop(ch) ==
    /\ closed
    /\ phase[ch] = "run" /\ ch \notin flushing
    /\ phase' = [phase EXCEPT ![ch] = "drain"]
    /\ UNCHANGED <<buffered, batch, flushing, delivered, lost, others>>

\* Mutant: the goroutine ends without the final flush.
EndWithoutFlush(ch) ==
    /\ phase[ch] = "drain" /\ ch \notin flushing
    /\ buffered[ch] = 0
    /\ phase' = [phase EXCEPT ![ch] = "done"]
    /\ UNCHANGED <<buffered, batch, flushing, delivered, lost, others>>

\* The drain ends at an empty channel, and a last flush publishes the rest.
EndDrain(ch) ==
    /\ phase[ch] = "drain" /\ ch \notin flushing
    /\ buffered[ch] = 0
    /\ phase' = [phase EXCEPT ![ch] = IF batch[ch] > 0 THEN "last" ELSE "done"]
    /\ flushing' = IF batch[ch] > 0 THEN flushing \cup {ch} ELSE flushing
    /\ UNCHANGED <<buffered, batch, delivered, lost, others>>

Processor(ch) == Take(ch) \/ Publish(ch) \/ SeeStop(ch) \/ EndDrain(ch)

-----------------------------------------------------------------------------
(* Shutdown, of which only the first call does anything                    *)

Shutdown ==
    /\ ~stopped
    /\ stopped' = TRUE
    /\ shutdown' = "closing"
    /\ UNCHANGED <<closed, sending, buffered, reported, accepted, late, processors>>

CloseStop ==
    /\ shutdown = "closing"
    /\ closed' = TRUE
    /\ shutdown' = "waiting"
    /\ UNCHANGED <<stopped, sending, buffered, reported, accepted, late, processors>>

WaitEnds ==
    /\ shutdown = "waiting"
    /\ \A ch \in Channel : phase[ch] = "done"
    /\ shutdown' = "graceful"
    /\ UNCHANGED <<stopped, closed, sending, buffered, reported, accepted, late, processors>>

WaitTimesOut ==
    /\ shutdown = "waiting"
    /\ shutdown' = "timeout"
    /\ UNCHANGED <<stopped, closed, sending, buffered, reported, accepted, late, processors>>

CollectorNext ==
    \/ \E s \in Sender : Send(s) \/ \E ch \in Channel : CheckStopped(s, ch)
    \/ \E ch \in Channel : Processor(ch)
    \/ FlushTick
    \/ Shutdown \/ CloseStop \/ WaitEnds \/ WaitTimesOut

\* The goroutines run as long as the program does, and a call of Shutdown or
\* of a handler goes on; nobody need call them.
CollectorFairness ==
    /\ \A ch \in Channel : WF_collectorVars(Processor(ch))
    /\ WF_collectorVars(CloseStop) /\ WF_collectorVars(WaitEnds)

CollectorSpec == CollectorInit /\ [][CollectorNext]_collectorVars /\ CollectorFairness

-----------------------------------------------------------------------------
\* Every accepted event is buffered, in a batch, published or lost with its
\* batch, and once Shutdown has returned gracefully, what is left in a channel
\* was put there after its drain.  Hazard: handlers send without the mutex that
\* guards the flag, so that an event is accepted which nobody will take.
EventsAccounted ==
    \A ch \in Channel :
        /\ accepted[ch] = buffered[ch] + batch[ch] + delivered[ch] + lost[ch]
        /\ shutdown = "graceful" => batch[ch] = 0 /\ buffered[ch] = late[ch]

\* A shutdown ends without the help of its timeout.  Hazard: a goroutine stuck
\* in its loop would make every shutdown wait for its deadline.
ShutdownEnds == stopped ~> shutdown \in {"graceful", "timeout"}
=============================================================================
