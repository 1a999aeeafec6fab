------------------------------ MODULE Webhooks ------------------------------
(***************************************************************************)
(* Webhooks of one API (internal/webhook): Manager registers them and      *)
(* hands an event to the Deliverer once per hook that is active and wants  *)
(* its type; the Deliverer records the delivery, counts it, and starts a   *)
(* goroutine that posts it up to maxRetries times and updates the record.  *)
(*                                                                         *)
(* Hooks and events are model values; the payload, its signature and the   *)
(* length of the back-off are left out.                                    *)
(***************************************************************************)
EXTENDS Naturals, FiniteSets

CONSTANTS
    Hook,
    EventType,     \* the types of events that are published
    Subscribed,    \* sets of types a hook may be registered for
    maxRetries,    \* attempts of a delivery
    MaxDeliveries, \* bound on deliveries
    None, Gone

Delivery == 1 .. MaxDeliveries

VARIABLES
    hook,       \* hook[h]: the row of a webhook: [events, url], None, or Gone
    dispatch,   \* rows Manager.Deliver has fetched and not looked at yet
    event,      \* the event it delivers
    job,        \* job[d]: goroutine of delivery d: [url, at, attempt, status] or None
    record,     \* record[d]: the row of webhook_deliveries: [status, attempts] or None
    wg,         \* deliveries Shutdown waits for
    waiting,    \* Shutdown: "no", "waiting" or "done"
    received,   \* deliveries the receiver has taken
    acknowledged, \* deliveries of which a 2xx answer has come back
    awaited     \* deliveries whose goroutine had been started when Shutdown was called

vars == <<hook, dispatch, event, job, record, wg, waiting, received, acknowledged, awaited>>

Init ==
    /\ hook = [h \in Hook |-> None]
    /\ dispatch = {} /\ event = None
    /\ job = [d \in Delivery |-> None]
    /\ record = [d \in Delivery |-> None]
    /\ wg = 0 /\ waiting = "no"
    /\ received = {} /\ acknowledged = {}
    /\ awaited = {}

-----------------------------------------------------------------------------
(* Manager                                                                 *)

Registered(h) == hook[h] \notin {None, Gone}

\* Register asks for at least one type of event, and not for an address to
\* which a request can be built; the webhook has a new identifier.
Register(h, events, url) ==
    /\ hook[h] = None
    /\ events # {}
    /\ hook' = [hook EXCEPT ![h] = [events |-> events, url |-> url]]
    /\ UNCHANGED <<dispatch, event, job, record, wg, waiting, received, acknowledged, awaited>>

Unregister(h) ==
    /\ Registered(h)
    /\ hook' = [hook EXCEPT ![h] = Gone]
    /\ UNCHANGED <<dispatch, event, job, record, wg, waiting, received, acknowledged, awaited>>

\* Deliver fetches the hooks of the API, and goes through what it fetched.
Fetch(e) ==
    /\ dispatch = {}
    /\ \E d \in Delivery : job[d] = None
    /\ event' = e
    /\ dispatch' = {[id |-> h, events |-> hook[h].events, url |-> hook[h].url] :
                       h \in {g \in Hook : Registered(g)}}
    /\ UNCHANGED <<hook, job, record, wg, waiting, received, acknowledged, awaited>>

shouldDeliver(h) == h.events = {} \/ event \in h.events \/ "*" \in h.events

\* The Deliverer creates the record, an error of which is only logged ...
Dispatch(h, d) ==
    /\ h \in dispatch
    /\ shouldDeliver(h)
    /\ job[d] = None /\ \A e \in 1 .. d - 1 : job[e] # None
    /\ record' \in {record, [record EXCEPT ![d] = [status |-> "pending", attempts |-> 0]]}
    /\ job' = [job EXCEPT ![d] = [url |-> h.url, at |-> "created", attempt |-> 1, status |-> "pending"]]
    /\ dispatch' = dispatch \ {h}
    /\ UNCHANGED <<hook, event, wg, waiting, received, acknowledged, awaited>>

\* ... and only then counts the delivery and starts its goroutine.
Launch(d) ==
    /\ job[d] # None /\ job[d].at = "created"
    /\ wg' = wg + 1
    /\ job' = [job EXCEPT ![d].at = "post"]
    /\ UNCHANGED <<hook, dispatch, event, record, waiting, received, acknowledged, awaited>>

Skip(h) ==
    /\ h \in dispatch
    /\ ~shouldDeliver(h)
    /\ dispatch' = dispatch \ {h}
    /\ UNCHANGED <<hook, event, job, record, wg, waiting, received, acknowledged, awaited>>

-----------------------------------------------------------------------------
(* deliverWithRetry                                                        *)

Goes(d, at, status) == job' = [job EXCEPT ![d].at = at, ![d].status = status]

\* One post: the receiver takes the event and answers with 2xx; or it answers
\* with another status or the transport fails, either perhaps after it has
\* taken the event.
Post(d) ==
    /\ job[d] # None /\ job[d].at = "post" /\ job[d].url # "malformed"
    /\ \/ /\ received' = received \cup {d}
          /\ acknowledged' = acknowledged \cup {d}
          /\ Goes(d, "close", "delivered")
       \/ /\ received' \in {received, received \cup {d}}
          /\ UNCHANGED acknowledged
          /\ Goes(d, "again", job[d].status) \/ Goes(d, "note", "retrying")
    /\ UNCHANGED <<hook, dispatch, event, record, wg, waiting, awaited>>

\* No request can be built to a malformed address: the attempts pass at once,
\* and none of them is counted in the record.
CannotBuild(d) ==
    /\ job[d] # None /\ job[d].at = "post" /\ job[d].url = "malformed"
    /\ job' = [job EXCEPT ![d].at = "close", ![d].status = "failed", ![d].attempt = 0]
    /\ UNCHANGED <<hook, dispatch, event, record, wg, waiting, received, acknowledged, awaited>>

\* UpdateWebhookDelivery, whose error is only logged, and which changes nothing
\* if the record was never created.
Update(d) ==
    \/ UNCHANGED record
    \/ /\ record[d] # None
       /\ record' = [record EXCEPT ![d] = [status |-> job[d].status, attempts |-> job[d].attempt]]

\* A failed transport is noted in the record, a refusal is not.
Note(d) ==
    /\ job[d] # None /\ job[d].at = "note"
    /\ Update(d)
    /\ Goes(d, "again", job[d].status)
    /\ UNCHANGED <<hook, dispatch, event, wg, waiting, received, acknowledged, awaited>>

\* Mutant: the last attempt is followed by one more.
AgainMore(d) ==
    /\ job[d] # None /\ job[d].at = "again"
    /\ IF job[d].attempt <= maxRetries
         THEN job' = [job EXCEPT ![d].at = "post", ![d].attempt = @ + 1]
         ELSE Goes(d, "close", "failed")
    /\ UNCHANGED <<hook, dispatch, event, record, wg, waiting, received, acknowledged, awaited>>

\* After the back-off the next attempt, or the end of a delivery that failed.
Again(d) ==
    /\ job[d] # None /\ job[d].at = "again"
    /\ IF job[d].attempt < maxRetries
         THEN job' = [job EXCEPT ![d].at = "post", ![d].attempt = @ + 1]
         ELSE Goes(d, "close", "failed")
    /\ UNCHANGED <<hook, dispatch, event, record, wg, waiting, received, acknowledged, awaited>>

\* The last update, and the end of the goroutine.
Close(d) ==
    /\ job[d] # None /\ job[d].at = "close"
    /\ Update(d)
    /\ Goes(d, "done", job[d].status)
    /\ wg' = wg - 1
    /\ UNCHANGED <<hook, dispatch, event, waiting, received, acknowledged, awaited>>

Running(d) == job[d] # None /\ job[d].at \notin {"created", "done"}

\* Shutdown waits for the deliveries that are counted, while others may still
\* be dispatched, or be between their record and their goroutine.
Shutdown ==
    /\ waiting = "no"
    /\ waiting' = "waiting"
    /\ awaited' = {d \in Delivery : Running(d)}
    /\ UNCHANGED <<hook, dispatch, event, job, record, wg, received, acknowledged>>

WaitEnds ==
    /\ waiting = "waiting" /\ wg = 0
    /\ waiting' = "done"
    /\ UNCHANGED <<hook, dispatch, event, job, record, wg, received, acknowledged, awaited>>

Next ==
    \/ \E h \in Hook :
          Unregister(h) \/ \E events \in Subscribed, url \in {"good", "malformed"} : Register(h, events, url)
    \/ \E e \in EventType : Fetch(e)
    \/ \E h \in dispatch : Skip(h) \/ \E d \in Delivery : Dispatch(h, d)
    \/ \E d \in Delivery : Launch(d) \/ Post(d) \/ CannotBuild(d) \/ Note(d) \/ Again(d) \/ Close(d)
    \/ Shutdown \/ WaitEnds

Spec == Init /\ [][Next]_vars

-----------------------------------------------------------------------------
\* A record says "delivered" only of an event whose receiver has taken it and
\* said so, and "failed" only of one no attempt of which was acknowledged, after
\* as many attempts as there are; the receiver may have taken that one all the
\* same.  Hazard: updates of the record fail or are skipped between attempts, and
\* a post that was accepted may look like one that was not.
RecordsTrue ==
    \A d \in Delivery : record[d] # None =>
        /\ record[d].attempts <= maxRetries
        /\ record[d].status = "delivered" => d \in received \cap acknowledged
        /\ record[d].status = "failed" =>
              /\ d \notin acknowledged
              /\ record[d].attempts = IF job[d].url = "malformed" THEN 0 ELSE maxRetries

\* Shutdown returns only when every delivery whose goroutine had been started
\* when it was called has ended.  Hazard: the deliveries are counted in the
\* caller, after their record, and uncounted in goroutines.
ShutdownWaits == waiting = "done" => \A d \in awaited : ~Running(d)
=============================================================================
