--------------------------- MODULE CircuitBreaker ---------------------------
(***************************************************************************)
(* One API's circuit breaker and the proxy handlers that run through it    *)
(* (internal/gateway/proxy.go).  Each member of Requests is a slot for one *)
(* handler goroutine at a time: the handler starts, asks the breaker for   *)
(* admission, tries the backend up to RetryCount + 1 times and records one *)
(* result.  A result is recorded in whatever state the breaker is in then, *)
(* not in the one that admitted the request.                               *)
(***************************************************************************)
EXTENDS Naturals, FiniteSets

CONSTANTS Requests,          \* handler goroutines that can be under way at once
          FailureThreshold,  \* failures in a row that open the breaker
          SuccessThreshold,  \* successes that close it again
          HalfOpenMaxCalls,  \* counted admissions of a half-open period
          RetryCount         \* retries of one request (attempts - 1)

ASSUME RequestsAssumption == IsFiniteSet(Requests)
ASSUME ThresholdAssumption ==
         /\ FailureThreshold \in Nat \ {0}
         /\ SuccessThreshold \in Nat \ {0}
         /\ HalfOpenMaxCalls \in Nat
         /\ RetryCount \in Nat

VARIABLES state,          \* cb.state
          failureCount,   \* cb.failureCount
          successCount,   \* cb.successCount
          halfOpenCalls,  \* cb.halfOpenCalls
          elapsed,        \* time.Since(cb.lastFailureTime) > cb.timeout
          pc,             \* where each handler is
          attempt,        \* each handler's loop counter
          backendUp,      \* environment: an exchange with the backend succeeds
          probes          \* history: in-flight requests admitted since this half-open period began

breaker == <<state, failureCount, successCount, halfOpenCalls, elapsed>>
vars == <<state, failureCount, successCount, halfOpenCalls, elapsed,
          pc, attempt, backendUp, probes>>

CircuitState == {"Closed", "Open", "HalfOpen"}
Steps == {"idle", "arrived", "proxying", "succeeded", "exhausted"}

\* The requests the breaker has admitted and that have not recorded a result.
InFlight == {r \in Requests : pc[r] \in {"proxying", "succeeded", "exhausted"}}

-----------------------------------------------------------------------------
(* NewCircuitBreaker: closed, every counter zero. *)
Init ==
  /\ state = "Closed"
  /\ failureCount = 0 /\ successCount = 0 /\ halfOpenCalls = 0
  /\ elapsed = FALSE
  /\ pc = [r \in Requests |-> "idle"]
  /\ attempt = [r \in Requests |-> 0]
  /\ backendUp = TRUE
  /\ probes = {}

\* A handler starts and has resolved the endpoint (Handler, up to Allow).
Arrive(r) ==
  /\ pc[r] = "idle"
  /\ pc' = [pc EXCEPT ![r] = "arrived"]
  /\ UNCHANGED <<breaker, attempt, backendUp, probes>>

-----------------------------------------------------------------------------
(* Allow: its three answers and the changes that go with each. *)
AllowClosed ==
  /\ state = "Closed"
  /\ UNCHANGED breaker

\* Mutant: a new half-open period keeps the calls of the last one.
AllowFirstProbeNoReset ==
  /\ state = "Open" /\ elapsed
  /\ state' = "HalfOpen"
  /\ UNCHANGED <<failureCount, successCount, halfOpenCalls, elapsed>>

\* The first request after the timeout opens the period and is not counted.
AllowFirstProbe ==
  /\ state = "Open" /\ elapsed
  /\ state' = "HalfOpen"
  /\ halfOpenCalls' = 0
  /\ UNCHANGED <<failureCount, successCount, elapsed>>

\* Mutant: a probe is admitted without being counted.
AllowProbeUncounted ==
  /\ state = "HalfOpen" /\ halfOpenCalls < HalfOpenMaxCalls
  /\ UNCHANGED breaker

AllowProbe ==
  /\ state = "HalfOpen" /\ halfOpenCalls < HalfOpenMaxCalls
  /\ halfOpenCalls' = halfOpenCalls + 1
  /\ UNCHANGED <<state, failureCount, successCount, elapsed>>

AllowRefuses ==
  \/ state = "Open" /\ ~elapsed
  \/ state = "HalfOpen" /\ halfOpenCalls >= HalfOpenMaxCalls

Admit(r) ==
  /\ pc[r] = "arrived"
  /\ AllowClosed \/ AllowFirstProbe \/ AllowProbe
  /\ pc' = [pc EXCEPT ![r] = "proxying"]
  /\ attempt' = [attempt EXCEPT ![r] = 0]
  /\ probes' = IF state = "HalfOpen" THEN probes \cup {r} ELSE {r}
  /\ UNCHANGED backendUp

\* 503, APIM.CIRCUIT_OPEN.
Reject(r) ==
  /\ pc[r] = "arrived"
  /\ AllowRefuses
  /\ pc' = [pc EXCEPT ![r] = "idle"]
  /\ UNCHANGED <<breaker, attempt, backendUp, probes>>

-----------------------------------------------------------------------------
(* The retry loop around proxyRequest. *)
AttemptSucceeds(r) ==
  /\ pc[r] = "proxying" /\ backendUp
  /\ pc' = [pc EXCEPT ![r] = "succeeded"]
  /\ UNCHANGED <<breaker, attempt, backendUp, probes>>

AttemptFails(r) ==
  /\ pc[r] = "proxying" /\ ~backendUp
  /\ IF attempt[r] < RetryCount
       THEN /\ attempt' = [attempt EXCEPT ![r] = @ + 1]
            /\ UNCHANGED pc
       ELSE /\ pc' = [pc EXCEPT ![r] = "exhausted"]
            /\ UNCHANGED attempt
  /\ UNCHANGED <<breaker, backendUp, probes>>

-----------------------------------------------------------------------------
(* RecordSuccess and RecordFailure, each under cb.mu. *)

\* Mutant: closing leaves the old failures counted.
CountSuccessKeepsFailures ==
  \/ /\ state = "HalfOpen"
     /\ IF successCount + 1 >= SuccessThreshold
          THEN state' = "Closed" /\ successCount' = 0
          ELSE successCount' = successCount + 1 /\ UNCHANGED state
     /\ UNCHANGED <<failureCount, halfOpenCalls, elapsed>>
  \/ /\ state = "Closed"
     /\ failureCount' = 0
     /\ UNCHANGED <<state, successCount, halfOpenCalls, elapsed>>
  \/ state = "Open" /\ UNCHANGED breaker

CountSuccess ==
  \/ /\ state = "HalfOpen"
     /\ IF successCount + 1 >= SuccessThreshold
          THEN /\ state' = "Closed"
               /\ failureCount' = 0 /\ successCount' = 0
          ELSE /\ successCount' = successCount + 1
               /\ UNCHANGED <<state, failureCount>>
     /\ UNCHANGED <<halfOpenCalls, elapsed>>
  \/ /\ state = "Closed"
     /\ failureCount' = 0
     /\ UNCHANGED <<state, successCount, halfOpenCalls, elapsed>>
  \/ state = "Open" /\ UNCHANGED breaker

\* Mutant: a failed probe is forgotten.
CountFailureForgotten ==
  \/ state = "HalfOpen" /\ UNCHANGED breaker
  \/ /\ state = "Closed"
     /\ failureCount' = failureCount + 1
     /\ IF failureCount + 1 >= FailureThreshold
          THEN state' = "Open" /\ elapsed' = FALSE
          ELSE UNCHANGED <<state, elapsed>>
     /\ UNCHANGED <<successCount, halfOpenCalls>>
  \/ state = "Open" /\ UNCHANGED breaker

\* A failure of a half-open period reopens the breaker; successCount stays.
CountFailure ==
  \/ /\ state = "HalfOpen"
     /\ state' = "Open" /\ elapsed' = FALSE
     /\ UNCHANGED <<failureCount, successCount, halfOpenCalls>>
  \/ /\ state = "Closed"
     /\ failureCount' = failureCount + 1
     /\ IF failureCount + 1 >= FailureThreshold
          THEN state' = "Open" /\ elapsed' = FALSE
          ELSE UNCHANGED <<state, elapsed>>
     /\ UNCHANGED <<successCount, halfOpenCalls>>
  \/ state = "Open" /\ UNCHANGED breaker

RecordSuccess(r) ==
  /\ pc[r] = "succeeded"
  /\ CountSuccess
  /\ pc' = [pc EXCEPT ![r] = "idle"]
  /\ probes' = probes \ {r}
  /\ UNCHANGED <<attempt, backendUp>>

RecordFailure(r) ==
  /\ pc[r] = "exhausted"
  /\ CountFailure
  /\ pc' = [pc EXCEPT ![r] = "idle"]
  /\ probes' = probes \ {r}
  /\ UNCHANGED <<attempt, backendUp>>

-----------------------------------------------------------------------------
(* The clock and the backend. *)
TimeoutElapses ==
  /\ state = "Open" /\ ~elapsed
  /\ elapsed' = TRUE
  /\ UNCHANGED <<state, failureCount, successCount, halfOpenCalls,
                 pc, attempt, backendUp, probes>>

BackendChanges ==
  /\ backendUp' = ~backendUp
  /\ UNCHANGED <<breaker, pc, attempt, probes>>

HandlerStep(r) ==
  \/ Admit(r) \/ Reject(r)
  \/ AttemptSucceeds(r) \/ AttemptFails(r)
  \/ RecordSuccess(r) \/ RecordFailure(r)

Next ==
  \/ \E r \in Requests : Arrive(r) \/ HandlerStep(r)
  \/ TimeoutElapses
  \/ BackendChanges

\* Goroutines are scheduled and time passes; nothing is assumed of the clients
\* or of the backend.
Fairness ==
  /\ \A r \in Requests : WF_vars(HandlerStep(r))
  /\ WF_vars(TimeoutElapses)

Spec == Init /\ [][Next]_vars
FairSpec == Spec /\ Fairness

-----------------------------------------------------------------------------
TypeOK ==
  /\ state \in CircuitState
  /\ failureCount \in Nat /\ successCount \in Nat /\ halfOpenCalls \in Nat
  /\ elapsed \in BOOLEAN /\ backendUp \in BOOLEAN
  /\ pc \in [Requests -> Steps]
  /\ attempt \in [Requests -> 0 .. RetryCount]
  /\ probes \in SUBSET Requests

\* The failure counter and the state always agree, across every path through
\* half-open: it is below the threshold exactly while the breaker is closed
\* (RecordFailure opens at the threshold, only closing clears it).
CountMatchesState ==
  /\ state = "Closed" => failureCount < FailureThreshold
  /\ state # "Closed" => failureCount = FailureThreshold

\* The comment on CircuitHalfOpen promises a limited number of requests: at
\* most HalfOpenMaxCalls + 1 requests admitted in one half-open period are ever
\* at the backend together (the one that ends the open state is not counted).
ProbesLimited ==
  state = "HalfOpen" => Cardinality(probes) <= HalfOpenMaxCalls + 1

\* A half-open breaker that has used up its calls refuses everybody, and only
\* the result of an admitted request can move it on: if one can always come to
\* decide, the API is not blocked for ever.
EnoughCalls == SuccessThreshold <= HalfOpenMaxCalls + 1
NeverWedged ==
  EnoughCalls /\ state = "HalfOpen" /\ halfOpenCalls >= HalfOpenMaxCalls
    => InFlight # {}

\* With clients that keep calling and a backend that stays up from some point
\* on, the breaker closes and stays closed.
ClientsKeepCalling == []<>(\E r \in Requests : pc[r] = "arrived")
Recovers ==
  EnoughCalls /\ ClientsKeepCalling /\ <>[]backendUp => <>[](state = "Closed")
=============================================================================
