--------------------------- MODULE DataPath_proofs ---------------------------
(***************************************************************************)
(* Safety of what runs behind the gateway: the circuit breaker, for any    *)
(* number of handlers and any thresholds; the analytics collector, for any *)
(* number of handlers and events, any capacities and sizes of batches; and *)
(* the router and the policy engine, for any rows, paths and requests.     *)
(*                                                                         *)
(* The loops of the sort of policies are recursive functions.  The provers *)
(* have no induction: the smallest position at which a loop's equation has *)
(* no solution, or at which its invariant fails, leads to a contradiction. *)
(***************************************************************************)
EXTENDS MCDataPath, FiniteSetTheorems, TLAPS

USE RequestsAssumption, ThresholdAssumption DEF RequestsAssumption, ThresholdAssumption

\* A half-open period has room for its counted calls; its in-flight probes are
\* among the calls it let in.
ProbesCounted ==
  state = "HalfOpen" => /\ halfOpenCalls <= HalfOpenMaxCalls
                        /\ Cardinality(probes) <= halfOpenCalls + 1

\* Every call of the half-open period has been answered by a counted success
\* or is still under way: a failure would have ended the period.
CallsAccounted ==
  /\ successCount < SuccessThreshold
  /\ state = "HalfOpen" => halfOpenCalls + 1 <= successCount + Cardinality(InFlight)

\* How the set of requests in flight changes with one handler's pc.
LEMMA InFlightFinite == IsFiniteSet(InFlight) /\ Cardinality(InFlight) \in Nat
<1>1. InFlight \subseteq Requests
  BY DEF InFlight
<1> QED
  BY <1>1, FS_Subset, FS_CardinalityType

\* Type correctness: every reachable value of the breaker and of its handlers
\* has the shape the Go struct and the retry loop allow; in particular the
\* attempt counter stays within the configured retries (Handler's for loop).
THEOREM TypeCorrect == Spec => []TypeOK
<1>1. Init => TypeOK
  <2> SUFFICES ASSUME Init PROVE TypeOK
    OBVIOUS
  <2>1. elapsed \in BOOLEAN /\ backendUp \in BOOLEAN
    BY Zenon DEF Init
  <2>2. attempt \in [Requests -> 0 .. RetryCount]
    BY DEF Init
  <2> QED
    BY <2>1, <2>2 DEF Init, TypeOK, CircuitState, Steps
<1>2. TypeOK /\ [Next]_vars => TypeOK'
  <2> SUFFICES ASSUME TypeOK, [Next]_vars PROVE TypeOK'
    OBVIOUS
  <2> USE DEF TypeOK, CircuitState, Steps, breaker
  <2>1. ASSUME NEW r \in Requests, Arrive(r) PROVE TypeOK'
    BY <2>1 DEF Arrive
  <2>2. ASSUME NEW r \in Requests, Admit(r) PROVE TypeOK'
    <3>1. (AllowClosed \/ AllowFirstProbe \/ AllowProbe) =>
            /\ state' \in CircuitState /\ halfOpenCalls' \in Nat
            /\ UNCHANGED <<failureCount, successCount, elapsed>>
      BY DEF AllowClosed, AllowFirstProbe, AllowProbe
    <3> QED
      BY <2>2, <3>1 DEF Admit
  <2>3. ASSUME NEW r \in Requests, Reject(r) PROVE TypeOK'
    BY <2>3 DEF Reject
  <2>4. ASSUME NEW r \in Requests, AttemptSucceeds(r) PROVE TypeOK'
    BY <2>4 DEF AttemptSucceeds
  <2>5. ASSUME NEW r \in Requests, AttemptFails(r) PROVE TypeOK'
    BY <2>5 DEF AttemptFails
  <2>6. ASSUME NEW r \in Requests, RecordSuccess(r) PROVE TypeOK'
    <3>1. CountSuccess => /\ state' \in CircuitState /\ failureCount' \in Nat
                          /\ successCount' \in Nat
                          /\ UNCHANGED <<halfOpenCalls, elapsed>>
      BY DEF CountSuccess
    <3> QED
      BY <2>6, <3>1 DEF RecordSuccess
  <2>7. ASSUME NEW r \in Requests, RecordFailure(r) PROVE TypeOK'
    <3>1. CountFailure => /\ state' \in CircuitState /\ failureCount' \in Nat
                          /\ UNCHANGED <<halfOpenCalls, successCount>>
      BY DEF CountFailure
    <3>2. CountFailure => elapsed' = FALSE \/ elapsed' = elapsed
      BY Zenon DEF CountFailure
    <3> QED
      BY <2>7, <3>1, <3>2 DEF RecordFailure
  <2>8. CASE TimeoutElapses
    BY <2>8 DEF TimeoutElapses
  <2>9. CASE BackendChanges
    BY <2>9 DEF BackendChanges
  <2>10. CASE UNCHANGED vars
    BY <2>10 DEF vars
  <2> QED
    BY <2>1, <2>2, <2>3, <2>4, <2>5, <2>6, <2>7, <2>8, <2>9, <2>10 DEF Next, HandlerStep
<1> QED
  BY <1>1, <1>2, PTL DEF Spec

\* The failure counter is below the threshold exactly while the breaker is
\* closed, whatever order late results of earlier requests arrive in.
THEOREM CountsAgree == Spec => []CountMatchesState
<1>1. Init => CountMatchesState
  BY DEF Init, CountMatchesState
<1>2. TypeOK /\ CountMatchesState /\ [Next]_vars => CountMatchesState'
  <2> SUFFICES ASSUME TypeOK, CountMatchesState, [Next]_vars PROVE CountMatchesState'
    OBVIOUS
  <2> USE DEF TypeOK, CircuitState, CountMatchesState, breaker
  <2>1. ASSUME NEW r \in Requests, Admit(r) PROVE CountMatchesState'
    BY <2>1 DEF Admit, AllowClosed, AllowFirstProbe, AllowProbe
  <2>2. ASSUME NEW r \in Requests, RecordSuccess(r) PROVE CountMatchesState'
    BY <2>2 DEF RecordSuccess, CountSuccess
  <2>3. ASSUME NEW r \in Requests, RecordFailure(r) PROVE CountMatchesState'
    BY <2>3 DEF RecordFailure, CountFailure
  <2>4. ASSUME NEW r \in Requests,
               Arrive(r) \/ Reject(r) \/ AttemptSucceeds(r) \/ AttemptFails(r)
        PROVE  CountMatchesState'
    BY <2>4 DEF Arrive, Reject, AttemptSucceeds, AttemptFails
  <2>5. CASE TimeoutElapses \/ BackendChanges \/ UNCHANGED vars
    BY <2>5 DEF TimeoutElapses, BackendChanges, vars
  <2> QED
    BY <2>1, <2>2, <2>3, <2>4, <2>5 DEF Next, HandlerStep
<1> QED
  BY <1>1, <1>2, TypeCorrect, PTL DEF Spec

\* At most HalfOpenMaxCalls + 1 requests of one half-open period are at the
\* backend together.
THEOREM FewProbes == Spec => []ProbesLimited
<1>1. Init => ProbesCounted
  BY DEF Init, ProbesCounted
<1>2. TypeOK /\ ProbesCounted /\ [Next]_vars => ProbesCounted'
  <2> SUFFICES ASSUME TypeOK, ProbesCounted, [Next]_vars PROVE ProbesCounted'
    OBVIOUS
  <2> USE DEF TypeOK, CircuitState, ProbesCounted, breaker
  <2>f. /\ IsFiniteSet(probes) /\ Cardinality(probes) \in Nat
        /\ \A r \in Requests : /\ Cardinality(probes \cup {r}) \in Nat
                               /\ Cardinality(probes \cup {r}) <= Cardinality(probes) + 1
                               /\ Cardinality(probes \ {r}) \in Nat
                               /\ Cardinality(probes \ {r}) <= Cardinality(probes)
                               /\ Cardinality({r}) = 1
    <3>1. IsFiniteSet(probes) /\ Cardinality(probes) \in Nat
      BY FS_Subset, FS_CardinalityType
    <3> SUFFICES ASSUME NEW r \in Requests
                 PROVE  /\ Cardinality(probes \cup {r}) \in Nat
                        /\ Cardinality(probes \cup {r}) <= Cardinality(probes) + 1
                        /\ Cardinality(probes \ {r}) \in Nat
                        /\ Cardinality(probes \ {r}) <= Cardinality(probes)
                        /\ Cardinality({r}) = 1
      BY <3>1
    <3>2. Cardinality(probes \cup {r}) = IF r \in probes THEN Cardinality(probes)
                                                         ELSE Cardinality(probes) + 1
      BY <3>1, FS_AddElement
    <3>3. Cardinality(probes \ {r}) = IF r \in probes THEN Cardinality(probes) - 1
                                                      ELSE Cardinality(probes)
      BY <3>1, FS_RemoveElement
    <3>4. Cardinality(probes \ {r}) \in Nat
      <4>1. probes \ {r} \subseteq probes
        OBVIOUS
      <4> QED
        BY <3>1, <4>1, FS_Subset, FS_CardinalityType
    <3> QED
      BY <3>1, <3>2, <3>3, <3>4, FS_Singleton
  <2>1. ASSUME NEW r \in Requests, Admit(r) PROVE ProbesCounted'
    <3>1. CASE AllowClosed
      BY <2>1, <3>1 DEF Admit, AllowClosed
    <3>2. CASE AllowFirstProbe
      <4>1. probes' = {r} /\ halfOpenCalls' = 0
        BY <2>1, <3>2 DEF Admit, AllowFirstProbe
      <4>2. Cardinality(probes') = 1
        BY <4>1, <2>f
      <4> QED
        BY <4>1, <4>2
    <3>3. CASE AllowProbe
      <4>1. /\ probes' = probes \cup {r} /\ halfOpenCalls' = halfOpenCalls + 1
            /\ state = "HalfOpen" /\ halfOpenCalls < HalfOpenMaxCalls
        BY <2>1, <3>3 DEF Admit, AllowProbe
      <4>2. Cardinality(probes') \in Nat /\ Cardinality(probes') <= Cardinality(probes) + 1
        BY <4>1, <2>f
      <4> QED
        BY <4>1, <4>2, <2>f
    <3> QED
      BY <2>1, <3>1, <3>2, <3>3 DEF Admit
  <2>2. ASSUME NEW r \in Requests, RecordSuccess(r) PROVE ProbesCounted'
    <3>1. Cardinality(probes') \in Nat /\ Cardinality(probes') <= Cardinality(probes)
      BY <2>2, <2>f DEF RecordSuccess
    <3> QED
      BY <2>2, <2>f, <3>1 DEF RecordSuccess, CountSuccess
  <2>3. ASSUME NEW r \in Requests, RecordFailure(r) PROVE ProbesCounted'
    BY <2>3, <2>f DEF RecordFailure, CountFailure
  <2>4. ASSUME NEW r \in Requests,
               Arrive(r) \/ Reject(r) \/ AttemptSucceeds(r) \/ AttemptFails(r)
        PROVE  ProbesCounted'
    BY <2>4 DEF Arrive, Reject, AttemptSucceeds, AttemptFails
  <2>5. CASE TimeoutElapses \/ BackendChanges \/ UNCHANGED vars
    BY <2>5 DEF TimeoutElapses, BackendChanges, vars
  <2> QED
    BY <2>1, <2>2, <2>3, <2>4, <2>5 DEF Next, HandlerStep
<1>3. TypeOK /\ ProbesCounted => ProbesLimited
  <2> SUFFICES ASSUME TypeOK, ProbesCounted PROVE ProbesLimited
    OBVIOUS
  <2>1. Cardinality(probes) \in Nat
    BY FS_Subset, FS_CardinalityType DEF TypeOK
  <2> QED
    BY <2>1 DEF TypeOK, ProbesCounted, ProbesLimited
<1> QED
  BY <1>1, <1>2, <1>3, TypeCorrect, PTL DEF Spec

\* The number of requests in flight after a handler is admitted or records its
\* result.
LEMMA InFlightChanges ==
  ASSUME TypeOK, NEW r \in Requests
  PROVE  /\ pc[r] = "arrived" /\ pc' = [pc EXCEPT ![r] = "proxying"]
              => Cardinality(InFlight') = Cardinality(InFlight) + 1
         /\ pc[r] \in {"succeeded", "exhausted"} /\ pc' = [pc EXCEPT ![r] = "idle"]
              => Cardinality(InFlight') = Cardinality(InFlight) - 1
<1>1. ASSUME pc[r] = "arrived", pc' = [pc EXCEPT ![r] = "proxying"]
      PROVE  Cardinality(InFlight') = Cardinality(InFlight) + 1
  <2>1. InFlight' = InFlight \cup {r} /\ r \notin InFlight
    BY <1>1 DEF TypeOK, InFlight
  <2> QED
    BY <2>1, InFlightFinite, FS_AddElement
<1>2. ASSUME pc[r] \in {"succeeded", "exhausted"}, pc' = [pc EXCEPT ![r] = "idle"]
      PROVE  Cardinality(InFlight') = Cardinality(InFlight) - 1
  <2>1. InFlight' = InFlight \ {r} /\ r \in InFlight
    BY <1>2 DEF TypeOK, InFlight
  <2> QED
    BY <2>1, InFlightFinite, FS_RemoveElement
<1> QED
  BY <1>1, <1>2

\* With enough calls per half-open period, a breaker that refuses everybody is
\* always waiting for a request that will move it on: it never blocks the API
\* for ever.
THEOREM NoWedge == Spec => []NeverWedged
<1>1. Init => CallsAccounted
  BY DEF Init, CallsAccounted
<1>2. TypeOK /\ CallsAccounted /\ [Next]_vars => CallsAccounted'
  <2> SUFFICES ASSUME TypeOK, CallsAccounted, [Next]_vars PROVE CallsAccounted'
    OBVIOUS
  <2> USE DEF TypeOK, CircuitState, CallsAccounted, breaker
  <2>n. Cardinality(InFlight) \in Nat
    BY InFlightFinite
  <2>1. ASSUME NEW r \in Requests, Admit(r) PROVE CallsAccounted'
    <3>1. Cardinality(InFlight') = Cardinality(InFlight) + 1
      BY <2>1, InFlightChanges DEF Admit
    <3> QED
      BY <2>1, <2>n, <3>1 DEF Admit, AllowClosed, AllowFirstProbe, AllowProbe
  <2>2. ASSUME NEW r \in Requests, RecordSuccess(r) PROVE CallsAccounted'
    <3>1. Cardinality(InFlight') = Cardinality(InFlight) - 1
      BY <2>2, InFlightChanges DEF RecordSuccess
    <3> QED
      BY <2>2, <2>n, <3>1 DEF RecordSuccess, CountSuccess
  <2>3. ASSUME NEW r \in Requests, RecordFailure(r) PROVE CallsAccounted'
    BY <2>3, <2>n DEF RecordFailure, CountFailure
  <2>4. ASSUME NEW r \in Requests,
               Arrive(r) \/ Reject(r) \/ AttemptSucceeds(r) \/ AttemptFails(r)
        PROVE  CallsAccounted'
    <3>1. InFlight' = InFlight
      BY <2>4 DEF InFlight, Arrive, Reject, AttemptSucceeds, AttemptFails, Steps
    <3> QED
      BY <2>4, <3>1 DEF Arrive, Reject, AttemptSucceeds, AttemptFails
  <2>5. CASE TimeoutElapses \/ BackendChanges \/ UNCHANGED vars
    <3>1. InFlight' = InFlight
      BY <2>5 DEF InFlight, TimeoutElapses, BackendChanges, vars
    <3> QED
      BY <2>5, <3>1 DEF TimeoutElapses, BackendChanges, vars
  <2> QED
    BY <2>1, <2>2, <2>3, <2>4, <2>5 DEF Next, HandlerStep
<1>3. TypeOK /\ CallsAccounted => NeverWedged
  <2> SUFFICES ASSUME TypeOK, CallsAccounted, EnoughCalls, state = "HalfOpen",
                      halfOpenCalls >= HalfOpenMaxCalls
               PROVE  InFlight # {}
    BY DEF NeverWedged
  <2>1. Cardinality(InFlight) > 0
    BY InFlightFinite DEF TypeOK, CallsAccounted, EnoughCalls
  <2> QED
    BY <2>1, FS_EmptySet
<1> QED
  BY <1>1, <1>2, <1>3, TypeCorrect, PTL DEF Spec

-------------------------------------------------------------------------------
(* The collector *)

Tally == [Channel -> Nat]

\* The types of what is counted and of what decides where an event goes.
CollectorTypeOK ==
    /\ sending \in [Sender -> Channel \cup {None}]
    /\ buffered \in Tally /\ batch \in Tally
    /\ phase \in [Channel -> {"run", "drain", "last", "done"}]
    /\ flushing \subseteq Channel
    /\ shutdown \in {"no", "closing", "waiting", "graceful", "timeout"}
    /\ reported \in Nat
    /\ accepted \in Tally /\ delivered \in Tally /\ lost \in Tally /\ late \in Tally

\* Every event that entered a channel is somewhere.
Conserved(ch) == accepted[ch] = buffered[ch] + batch[ch] + delivered[ch] + lost[ch]

\* What a goroutine that has seen its channel empty leaves there came late.
LeftBehind(ch) ==
    IF phase[ch] \in {"last", "done"} THEN buffered[ch] = late[ch] ELSE late[ch] = 0

\* One that is done has published its batch, one about to end is publishing it.
Finished(ch) ==
    /\ phase[ch] = "done" => batch[ch] = 0 /\ ch \notin flushing
    /\ phase[ch] = "last" => ch \in flushing

CollectorInv ==
    /\ CollectorTypeOK
    /\ \A ch \in Channel : Conserved(ch) /\ LeftBehind(ch) /\ Finished(ch)
    /\ shutdown = "graceful" => \A ch \in Channel : phase[ch] = "done"

USE DEF Channel, Tally

LEMMA InitHolds == CollectorInit => CollectorInv
  BY DEF CollectorInit, CollectorInv, CollectorTypeOK, Zero, Conserved, LeftBehind, Finished

LEMMA CheckStoppedKeeps ==
  ASSUME CollectorInv, NEW s \in Sender, NEW ch \in Channel, CheckStopped(s, ch)
  PROVE  CollectorInv'
  BY DEF CollectorInv, CollectorTypeOK, Conserved, LeftBehind, Finished, CheckStopped, processors

LEMMA SendKeeps ==
  ASSUME CollectorInv, NEW s \in Sender, Send(s)
  PROVE  CollectorInv'
<1> DEFINE ch == sending[s]
<1>1. ch \in Channel
  BY DEF Send, CollectorInv, CollectorTypeOK
<1>2. /\ sending' \in [Sender -> Channel \cup {None}]
      /\ buffered' \in Tally /\ accepted' \in Tally
  BY <1>1 DEF Send, CollectorInv, CollectorTypeOK
<1>3. late' \in Tally
  BY <1>1 DEF Send, CollectorInv, CollectorTypeOK
<1>4. CollectorTypeOK'
  BY <1>2, <1>3 DEF Send, CollectorInv, CollectorTypeOK, processors
<1>5. ASSUME NEW d \in Channel PROVE (Conserved(d) /\ LeftBehind(d) /\ Finished(d))'
  <2>1. PICK c \in Channel : c = ch
    BY <1>1
  <2>2. UNCHANGED <<batch, phase, flushing, delivered, lost>>
    BY DEF Send, processors
  <2>3. \/ UNCHANGED <<buffered, accepted, late>>
        \/ /\ buffered' = [buffered EXCEPT ![c] = @ + 1]
           /\ accepted' = [accepted EXCEPT ![c] = @ + 1]
           /\ late' = IF phase[c] \in {"last", "done"} THEN [late EXCEPT ![c] = @ + 1] ELSE late
    BY <2>1 DEF Send
  <2>4. Finished(d)'
    BY <2>2 DEF CollectorInv, Finished
  <2>5. Conserved(d)'
    BY <2>2, <2>3 DEF CollectorInv, CollectorTypeOK, Conserved
  <2>6. LeftBehind(d)'
    BY <2>2, <2>3 DEF CollectorInv, CollectorTypeOK, LeftBehind
  <2> QED BY <2>4, <2>5, <2>6
<1> QED BY <1>4, <1>5 DEF Send, CollectorInv, processors

LEMMA TakeKeeps ==
  ASSUME CollectorInv, NEW ch \in Channel, Take(ch)
  PROVE  CollectorInv'
<1>1. CollectorTypeOK'
  BY DEF Take, CollectorInv, CollectorTypeOK, others
<1>2. ASSUME NEW d \in Channel PROVE (Conserved(d) /\ LeftBehind(d) /\ Finished(d))'
  BY DEF Take, CollectorInv, CollectorTypeOK, Conserved, LeftBehind, Finished, others
<1> QED BY <1>1, <1>2 DEF Take, CollectorInv, others

LEMMA PublishKeeps ==
  ASSUME CollectorInv, NEW ch \in Channel, Publish(ch)
  PROVE  CollectorInv'
<1>1. CollectorTypeOK'
  BY DEF Publish, CollectorInv, CollectorTypeOK, others
<1>2. ASSUME NEW d \in Channel PROVE (Conserved(d) /\ LeftBehind(d) /\ Finished(d))'
  BY DEF Publish, CollectorInv, CollectorTypeOK, Conserved, LeftBehind, Finished, others
<1> QED BY <1>1, <1>2 DEF Publish, CollectorInv, CollectorTypeOK, others

LEMMA DrainKeeps ==
  ASSUME CollectorInv, NEW ch \in Channel, SeeStop(ch) \/ EndDrain(ch)
  PROVE  CollectorInv'
<1>1. /\ phase' \in [Channel -> {"run", "drain", "last", "done"}]
      /\ flushing' \subseteq Channel
  <2>1. CASE SeeStop(ch)
    BY <2>1 DEF SeeStop, CollectorInv, CollectorTypeOK
  <2>2. CASE EndDrain(ch)
    <3>1. phase' = [phase EXCEPT ![ch] = "last"] \/ phase' = [phase EXCEPT ![ch] = "done"]
      BY <2>2 DEF EndDrain
    <3> QED BY <2>2, <3>1 DEF EndDrain, CollectorInv, CollectorTypeOK
  <2> QED BY <2>1, <2>2
<1>2. CollectorTypeOK'
  BY <1>1 DEF SeeStop, EndDrain, CollectorInv, CollectorTypeOK, others
<1>3. ASSUME NEW d \in Channel PROVE (Conserved(d) /\ LeftBehind(d) /\ Finished(d))'
  BY DEF SeeStop, EndDrain, CollectorInv, CollectorTypeOK, Conserved, LeftBehind, Finished, others
<1> QED BY <1>2, <1>3 DEF SeeStop, EndDrain, CollectorInv, CollectorTypeOK, others

LEMMA TickKeeps ==
  ASSUME CollectorInv, FlushTick
  PROVE  CollectorInv'
  BY DEF FlushTick, CollectorInv, CollectorTypeOK, Conserved, LeftBehind, Finished, others

LEMMA ShutdownKeeps ==
  ASSUME CollectorInv, Shutdown \/ CloseStop \/ WaitEnds \/ WaitTimesOut
  PROVE  CollectorInv'
<1>1. CollectorTypeOK'
  BY DEF Shutdown, CloseStop, WaitEnds, WaitTimesOut, CollectorInv, CollectorTypeOK, processors
<1>2. ASSUME NEW d \in Channel PROVE (Conserved(d) /\ LeftBehind(d) /\ Finished(d))'
  BY DEF Shutdown, CloseStop, WaitEnds, WaitTimesOut, CollectorInv, CollectorTypeOK, Conserved, LeftBehind,
         Finished, processors
<1> QED BY <1>1, <1>2 DEF Shutdown, CloseStop, WaitEnds, WaitTimesOut, CollectorInv, processors

LEMMA StepKeeps == CollectorInv /\ [CollectorNext]_collectorVars => CollectorInv'
<1> SUFFICES ASSUME CollectorInv, [CollectorNext]_collectorVars PROVE CollectorInv'
  OBVIOUS
<1>1. ASSUME NEW s \in Sender, Send(s) PROVE CollectorInv'
  BY <1>1, SendKeeps
<1>2. ASSUME NEW s \in Sender, NEW ch \in Channel, CheckStopped(s, ch) PROVE CollectorInv'
  BY <1>2, CheckStoppedKeeps
<1>3. ASSUME NEW ch \in Channel, Processor(ch) PROVE CollectorInv'
  BY <1>3, TakeKeeps, PublishKeeps, DrainKeeps DEF Processor
<1>4. ASSUME FlushTick PROVE CollectorInv'
  BY <1>4, TickKeeps
<1>5. ASSUME Shutdown \/ CloseStop \/ WaitEnds \/ WaitTimesOut PROVE CollectorInv'
  BY <1>5, ShutdownKeeps
<1>6. ASSUME UNCHANGED collectorVars PROVE CollectorInv'
  BY <1>6 DEF collectorVars, CollectorInv, CollectorTypeOK, Conserved, LeftBehind, Finished
<1> QED BY <1>1, <1>2, <1>3, <1>4, <1>5, <1>6 DEF CollectorNext

-----------------------------------------------------------------------------
\* Every event the collector accepts is in its channel, in a batch, published
\* or lost with its batch, however handlers and Shutdown interleave and whatever
\* the sizes of channels and batches; and a shutdown that returned gracefully
\* leaves only events in the channels that were sent after their drain.
THEOREM Accounted == CollectorSpec => []EventsAccounted
<1>1. CollectorInv => EventsAccounted
  BY DEF CollectorInv, EventsAccounted, Conserved, LeftBehind, Finished
<1> QED BY <1>1, InitHolds, StepKeeps, PTL DEF CollectorSpec
-------------------------------------------------------------------------------
(* Smallest members *)

\* A collection of subsets of a finite set has a smallest member: the form of
\* induction on finite sets that the provers can use.
LEMMA LeastSubset ==
  ASSUME NEW S, IsFiniteSet(S), NEW T, T \subseteq SUBSET S, T # {}
  PROVE  \E s \in T : \A t \in T : ~(t \subseteq s /\ t # s)
  <1>1. IsWellFoundedOn(StrictSubsetOrdering(S), FiniteSubsetsOf(S))
    BY FS_StrictSubsetOrderingWellFounded
  <1>2. T \subseteq FiniteSubsetsOf(S)
    BY FS_Subset DEF FiniteSubsetsOf
  <1>3. PICK s \in T : \A t \in T : <<t, s>> \notin StrictSubsetOrdering(S)
    BY <1>1, <1>2, WFMin
  <1> QED BY <1>3 DEF StrictSubsetOrdering

\* A set of positions has a smallest member.
LEMMA SmallestPosition ==
  ASSUME NEW T, T \subseteq Nat \ {0}, T # {}
  PROVE  \E i \in T : \A j \in T : i <= j
  <1>1. PICK n \in T : TRUE
    OBVIOUS
  <1> DEFINE C == {1 .. i : i \in {j \in T : j <= n}}
             N == 1 .. n
  <1>2. C \subseteq SUBSET N /\ N \in C
    <2>1. \A i \in T : i <= n => 1 .. i \subseteq 1 .. n
      OBVIOUS
    <2> QED BY <2>1
  <1>3. IsFiniteSet(N)
    <2>1. 1 \in Int /\ n \in Int
      OBVIOUS
    <2> QED BY <2>1, FS_Interval
  <1>4. PICK s \in C : \A t \in C : ~(t \subseteq s /\ t # s)
    <2> HIDE DEF C, N
    <2> QED BY <1>2, <1>3, LeastSubset
  <1>5. PICK i \in T : s = 1 .. i /\ i <= n
    OBVIOUS
  <1>6. ASSUME NEW j \in T, ~(i <= j) PROVE FALSE
    <2>1. 1 .. j \in C
      BY <1>5, <1>6
    <2>2. 1 .. j \subseteq 1 .. i /\ i \in 1 .. i /\ i \notin 1 .. j
      BY <1>6
    <2> HIDE DEF C
    <2> QED BY <1>4, <1>5, <2>1, <2>2
  <1> QED BY <1>6

-------------------------------------------------------------------------------
(* The router *)

RouteRow == Built \cup {Router!Build(b) : b \in Built}
Fetched == [id : Route, row : RouteRow]
Loading == [at : {"idle", "get"}, left : Seq(Route), got : Seq(Fetched)]

\* The copy is in order of priority.
Ranked(rs) ==
  /\ DOMAIN rs \subseteq Nat \ {0}
  /\ \A i \in DOMAIN rs : rs[i] \in Fetched
  /\ \A i, j \in DOMAIN rs : i < j => rs[i].row.priority >= rs[j].row.priority

RouterInv ==
  /\ stored \in [Route -> RouteRow \cup {None}]
  /\ fetch \in [{LoadLoop, AdminLoad} -> Loading]
  /\ Ranked(routes)

\* Rows have priorities, whether a builder made them or not.
LEMMA Priorities == /\ \A row \in RouteRow : row.priority \in Int
                    /\ None \notin Fetched
  <1>1. \A b \in Built : Router!Build(b).priority \in Int
    BY InputsAssumption DEF Router!Build
  <1> QED BY <1>1, InputsAssumption DEF RouteRow, Fetched

\* Keys are listed in some order, each once.
LEMMA KeysListed ==
  ASSUME NEW S, S \subseteq Route, NEW keys \in Router!Bijection(1 .. Router!Cardinality(S), S)
  PROVE  keys \in Seq(Route)
  <1>1. Router!Cardinality(S) \in Nat
    <2>1. Cardinality(S) \in Nat
      BY InputsAssumption, FS_Subset, FS_CardinalityType
    <2> QED BY <2>1 DEF Router!Cardinality, Cardinality
  <1>2. keys \in [1 .. Router!Cardinality(S) -> S]
    BY DEF Router!Bijection, Router!Injection
  <1> QED BY <1>1, <1>2

\* The sort leaves what was fetched, in order.
LEMMA SortRanks ==
  ASSUME NEW got \in Seq(Fetched), NEW rs \in Router!ByPriority(got)
  PROVE  Ranked(rs)
  <1> DEFINE c == Router!Cardinality(Router!Range(got))
  <1>1. rs \in [1 .. c -> Router!Range(got)]
    BY DEF Router!ByPriority, Router!Bijection, Router!Injection
  <1>2. Router!Range(got) \subseteq Fetched
    BY DEF Router!Range
  <1>3. \A i, j \in DOMAIN rs : i < j => rs[i].row.priority >= rs[j].row.priority
    BY DEF Router!ByPriority
  <1>4. 1 .. c \subseteq Nat \ {0}
    OBVIOUS
  <1> HIDE DEF c
  <1> QED BY <1>1, <1>2, <1>3, <1>4 DEF Ranked

\* What a goroutine holds that has read nothing yet.
LEMMA NothingRead == <<>> \in Seq(Route) /\ <<>> \in Seq(Fetched)
  OBVIOUS

LEMMA RouterStart == Router!Init => RouterInv
  <1> SUFFICES ASSUME Router!Init PROVE RouterInv
    OBVIOUS
  <1>1. Ranked(routes)
    BY DEF Router!Init, Ranked
  <1>2. stored \in [Route -> RouteRow \cup {None}]
    BY DEF Router!Init
  <1>3. Router!AtRest \in Loading
    BY NothingRead DEF Router!AtRest, Loading
  <1> QED BY <1>1, <1>2, <1>3 DEF Router!Init, RouterInv

LEMMA RouterStep == RouterInv /\ [Router!Next]_routerVars => RouterInv'
  <1> SUFFICES ASSUME RouterInv, [Router!Next]_routerVars PROVE RouterInv'
    OBVIOUS
  <1> DEFINE Loaders == {LoadLoop, AdminLoad}
  <1>1. ASSUME NEW r \in Route, NEW b \in Built, Router!Save(r, b) PROVE RouterInv'
    <2>1. PICK row \in {b} \cup {Router!Build(b)} : stored' = [stored EXCEPT ![r] = row]
      BY <1>1 DEF Router!Save
    <2>2. row \in RouteRow
      BY DEF RouteRow
    <2> QED BY <1>1, <2>1, <2>2 DEF Router!Save, RouterInv
  <1>2. ASSUME NEW r \in Route, Router!Erase(r) PROVE RouterInv'
    BY <1>2 DEF Router!Erase, RouterInv
  <1>3. ASSUME NEW l \in Loaders, Router!ListKeys(l) PROVE RouterInv'
    <2>1. PICK keys \in Router!Bijection(1 .. Router!Cardinality(Router!Stored), Router!Stored) :
            fetch' = [fetch EXCEPT ![l] = [at |-> "get", left |-> keys, got |-> <<>>]]
      BY <1>3 DEF Router!ListKeys
    <2>2. Router!Stored \subseteq Route
      BY DEF Router!Stored
    <2>3. keys \in Seq(Route)
      BY <2>2, KeysListed
    <2>4. UNCHANGED <<stored, routes>>
      BY <1>3 DEF Router!ListKeys
    <2>5. [at |-> "get", left |-> keys, got |-> <<>>] \in Loading
      BY <2>3, NothingRead DEF Loading
    <2>6. fetch' \in [Loaders -> Loading]
      <3> HIDE DEF Loaders
      <3> QED BY <2>1, <2>5 DEF RouterInv, Loaders
    <2> QED BY <2>4, <2>6 DEF RouterInv
  <1>4. ASSUME NEW l \in Loaders, Router!GetRoute(l) PROVE RouterInv'
    <2> DEFINE r == Head(fetch[l].left)
    <2>1. UNCHANGED <<stored, routes>>
      BY <1>4 DEF Router!GetRoute
    <2>2. fetch[l] \in Loading
      BY DEF RouterInv
    <2>3. r \in Route /\ Tail(fetch[l].left) \in Seq(Route)
      BY <1>4, <2>2 DEF Router!GetRoute, Loading
    <2>4. fetch' \in [Loaders -> Loading]
      <3>1. CASE /\ stored[r] # None
                 /\ fetch' = [fetch EXCEPT ![l].left = Tail(@),
                                           ![l].got = Append(@, [id |-> r, row |-> stored[r]])]
        <4>1. [id |-> r, row |-> stored[r]] \in Fetched
          BY <3>1, <2>3 DEF Fetched, RouterInv
        <4>2. Append(fetch[l].got, [id |-> r, row |-> stored[r]]) \in Seq(Fetched)
          BY <4>1, <2>2 DEF Loading
        <4> QED BY <3>1, <2>2, <2>3, <4>2 DEF RouterInv, Loading
      <3>2. CASE fetch' = [fetch EXCEPT ![l].left = Tail(@)]
        BY <3>2, <2>2, <2>3 DEF RouterInv, Loading
      <3> QED BY <1>4, <3>1, <3>2 DEF Router!GetRoute
    <2> QED BY <2>1, <2>4 DEF RouterInv
  <1>5. ASSUME NEW l \in Loaders, Router!Install(l) PROVE RouterInv'
    <2>1. routes' \in Router!ByPriority(fetch[l].got) /\ fetch[l].got \in Seq(Fetched)
      BY <1>5 DEF Router!Install, RouterInv, Loading
    <2>2. Ranked(routes')
      BY <2>1, SortRanks
    <2>3. Router!AtRest \in Loading
      BY NothingRead DEF Router!AtRest, Loading
    <2> QED BY <1>5, <2>2, <2>3 DEF Router!Install, RouterInv
  <1>6. CASE Router!Stop \/ UNCHANGED routerVars \/ \E l \in Loaders : Router!ListingFails(l)
    BY <1>6 DEF Router!Stop, Router!ListingFails, routerVars, RouterInv
  <1> QED BY <1>1, <1>2, <1>3, <1>4, <1>5, <1>6 DEF Router!Next

\* The first route that matches has the highest priority of those that do.
LEMMA RouterKept == RouterInv => Router!HighestMatches
  <1> SUFFICES ASSUME RouterInv, NEW method \in {"GET", "POST"}, NEW path \in Path,
                      NEW i \in DOMAIN routes,
                      Router!RouteMatches(routes[i].row, method, path)
               PROVE  /\ Router!Match(method, path) # None
                      /\ Router!Match(method, path).row.priority >= routes[i].row.priority
    BY DEF Router!HighestMatches
  <1> DEFINE hits == {k \in DOMAIN routes : Router!RouteMatches(routes[k].row, method, path)}
  <1>1. i \in hits /\ hits \subseteq Nat \ {0}
    BY DEF RouterInv, Ranked
  <1>2. PICK m \in hits : \A k \in hits : m <= k
    <2> HIDE DEF hits
    <2> QED BY <1>1, SmallestPosition
  <1>3. Router!Min(hits) \in hits /\ \A k \in hits : Router!Min(hits) <= k
    <2> HIDE DEF hits
    <2> QED BY <1>2 DEF Router!Min
  <1>4. Router!Match(method, path) = routes[Router!Min(hits)]
    BY <1>1 DEF Router!Match
  <1>5. /\ routes[i].row.priority \in Int
        /\ routes[Router!Min(hits)] \in Fetched
        /\ Router!Min(hits) < i => routes[Router!Min(hits)].row.priority >= routes[i].row.priority
    BY <1>1, <1>3, Priorities DEF RouterInv, Ranked, Fetched
  <1>6. Router!Min(hits) \in Nat /\ i \in Nat /\ Router!Min(hits) <= i
    <2> HIDE DEF hits
    <2> QED BY <1>1, <1>3
  <1> QED BY <1>4, <1>5, <1>6, Priorities

-------------------------------------------------------------------------------
(* The policy engine *)

PolicyInv ==
  /\ table \in [Policy -> Row \cup {None}]
  /\ policies \in [Policy -> Row \cup {None}]
  /\ reload \in [Reloader -> [Policy -> Row \cup {None}] \cup {None}]
  /\ load \in [PolicyLoader -> [id : Policy, row : Row] \cup {None}]

LEMMA PolicyStart == Policies!Init => PolicyInv
  BY DEF Policies!Init, Policies!NoPolicies, PolicyInv

LEMMA PolicyStep == PolicyInv /\ [Policies!Next]_policyVars => PolicyInv'
  <1> SUFFICES ASSUME PolicyInv, [Policies!Next]_policyVars PROVE PolicyInv'
    OBVIOUS
  <1> USE DEF PolicyInv
  <1>1. ASSUME NEW q \in Request, Policies!Evaluate(q) PROVE PolicyInv'
    BY <1>1 DEF Policies!Evaluate
  <1>2. ASSUME NEW p \in Policy, NEW row \in Row, Policies!SavePolicy(p, row) PROVE PolicyInv'
    BY <1>2 DEF Policies!SavePolicy
  <1>3. ASSUME NEW p \in Policy, Policies!DeletePolicy(p) \/ Policies!UnloadPolicy(p) PROVE PolicyInv'
    BY <1>3 DEF Policies!DeletePolicy, Policies!UnloadPolicy
  <1>4. ASSUME NEW p \in Policy, NEW l \in PolicyLoader, Policies!GetPolicy(l, p) PROVE PolicyInv'
    BY <1>4 DEF Policies!GetPolicy
  <1>5. ASSUME NEW l \in PolicyLoader, Policies!InstallPolicy(l) PROVE PolicyInv'
    BY <1>5 DEF Policies!InstallPolicy
  <1>6. ASSUME NEW r \in Reloader, Policies!ListPolicies(r) PROVE PolicyInv'
    <2>1. Policies!Compiled(table) \in [Policy -> Row \cup {None}]
      BY DEF Policies!Compiled
    <2> QED BY <1>6, <2>1 DEF Policies!ListPolicies
  <1>7. ASSUME NEW r \in Reloader, Policies!InstallReload(r) PROVE PolicyInv'
    BY <1>7 DEF Policies!InstallReload
  <1>8. CASE UNCHANGED policyVars
    BY <1>8 DEF policyVars
  <1> QED BY <1>1, <1>2, <1>3, <1>4, <1>5, <1>6, <1>7, <1>8 DEF Policies!Next

\* The enabled policies in some order, each at least once, in n positions.
Lined(s, n) ==
  /\ s \in [1 .. n -> Policies!Enabled]
  /\ \A p \in Policies!Enabled : \E k \in 1 .. n : s[k] = p

Rank(s, i) == policies[s[i]].priority

\* The first i positions are in order, and nothing later belongs before them.
Settled(s, n, i) ==
  \A k \in 1 .. i, m \in 1 .. n : k < m => Rank(s, k) >= Rank(s, m)

\* Position i outranks those after it as far as position j.
Leads(s, i, j) == \A m \in i .. j : Rank(s, i) >= Rank(s, m)

LEMMA RankIsInt ==
  ASSUME PolicyInv, NEW n \in Nat, NEW s, Lined(s, n), NEW i \in 1 .. n
  PROVE  Rank(s, i) \in Int
  <1>1. policies[s[i]] \in Row
    BY DEF Lined, Policies!Enabled, PolicyInv
  <1> QED BY <1>1, InputsAssumption DEF Rank

LEMMA LinedLen == ASSUME NEW n \in Nat, NEW s, Lined(s, n) PROVE Len(s) = n
  BY DEF Lined

\* One comparison of the inner loop.
LEMMA RaiseLeads ==
  ASSUME PolicyInv, NEW n \in Nat, NEW s, Lined(s, n), NEW i \in 1 .. n, NEW j \in i + 1 .. n,
         Settled(s, n, i - 1), Leads(s, i, j - 1)
  PROVE  LET t == Policies!Raise(s, i, j)
         IN  Lined(t, n) /\ Settled(t, n, i - 1) /\ Leads(t, i, j)
  <1>1. /\ i \in Nat /\ j \in Nat /\ i < j /\ j \in 1 .. n
        /\ \A k \in 1 .. i - 1 : k \in 1 .. n /\ k # i /\ k # j /\ k < i /\ k < j
        /\ \A m \in i .. j : m \in 1 .. n /\ (m \in i .. j - 1 \/ m = j)
    OBVIOUS
  <1>2. \A k \in 1 .. n : Rank(s, k) \in Int
    BY RankIsInt
  <1>3. CASE ~ Rank(s, j) > Rank(s, i)
    <2>1. Policies!Raise(s, i, j) = s
      BY <1>3 DEF Policies!Raise, Rank
    <2>2. Leads(s, i, j)
      BY <1>1, <1>2, <1>3 DEF Leads
    <2> QED BY <2>1, <2>2
  <1>4. CASE Rank(s, j) > Rank(s, i)
    <2> DEFINE t == Policies!Exchange(s, i, j)
    <2>1. Policies!Raise(s, i, j) = t
      BY <1>4 DEF Policies!Raise, Rank
    <2>2. /\ t \in [1 .. n -> Policies!Enabled]
          /\ t[i] = s[j] /\ t[j] = s[i]
          /\ \A k \in 1 .. n : k # i /\ k # j => t[k] = s[k]
      BY <1>1 DEF Policies!Exchange, Lined
    <2>3. /\ Rank(t, i) = Rank(s, j) /\ Rank(t, j) = Rank(s, i)
          /\ \A k \in 1 .. n : k # i /\ k # j => Rank(t, k) = Rank(s, k)
      BY <2>2 DEF Rank
    <2> HIDE DEF t
    <2>4. Lined(t, n)
      <3>1. ASSUME NEW p \in Policies!Enabled PROVE \E k \in 1 .. n : t[k] = p
        <4>1. PICK k \in 1 .. n : s[k] = p
          BY DEF Lined
        <4> QED BY <1>1, <2>2, <4>1
      <3> QED BY <2>2, <3>1 DEF Lined
    <2>5. Settled(t, n, i - 1)
      <3> SUFFICES ASSUME NEW k \in 1 .. i - 1, NEW m \in 1 .. n, k < m
                   PROVE  Rank(t, k) >= Rank(t, m)
        BY DEF Settled
      <3>1. Rank(s, k) >= Rank(s, m) /\ Rank(s, k) >= Rank(s, i) /\ Rank(s, k) >= Rank(s, j)
        BY <1>1 DEF Settled
      <3>2. Rank(t, k) = Rank(s, k)
        BY <1>1, <2>3
      <3>3. Rank(t, m) \in {Rank(s, m), Rank(s, i), Rank(s, j)}
        BY <2>3
      <3> QED BY <3>1, <3>2, <3>3
    <2>6. Leads(t, i, j)
      <3> SUFFICES ASSUME NEW m \in i .. j PROVE Rank(t, i) >= Rank(t, m)
        BY DEF Leads
      <3>1. m \in 1 .. n /\ (m \in i .. j - 1 \/ m = j)
        BY <1>1
      <3>2. CASE m = j \/ m = i
        BY <1>1, <1>2, <1>4, <2>3, <3>2
      <3>3. CASE m # j /\ m # i
        <4>1. Rank(s, i) >= Rank(s, m) /\ Rank(t, m) = Rank(s, m)
          BY <2>3, <3>1, <3>3 DEF Leads
        <4> QED BY <1>1, <1>2, <1>4, <2>3, <3>1, <4>1
      <3> QED BY <3>2, <3>3
    <2> QED BY <2>1, <2>4, <2>5, <2>6
  <1> QED BY <1>3, <1>4

\* The equation of the inner loop, as far as position n.
PassLoop(w, s, i, n) ==
  w = [j \in i .. n |-> IF j = i THEN s ELSE Policies!Raise(w[j - 1], i, j)]

LEMMA PassLoopExists ==
  ASSUME NEW s, NEW i \in Nat \ {0}, NEW n \in Nat, i <= n
  PROVE  \E w : PassLoop(w, s, i, n)
  <1> DEFINE Bad == {m \in i .. n : ~ \E w : PassLoop(w, s, i, m)}
  <1>1. SUFFICES ASSUME Bad # {} PROVE FALSE
    OBVIOUS
  <1>2. PICK m \in Bad : \A k \in Bad : m <= k
    <2>1. Bad \subseteq Nat \ {0}
      OBVIOUS
    <2> HIDE DEF Bad
    <2> QED BY <1>1, <2>1, SmallestPosition
  <1>3. CASE m = i
    <2> DEFINE w == [j \in i .. m |-> s]
    <2>1. \A j \in i .. m : j = i
      BY <1>3
    <2>2. PassLoop(w, s, i, m)
      BY <2>1 DEF PassLoop
    <2> QED BY <2>2
  <1>4. CASE m # i
    <2>1. m \in Nat /\ m - 1 \in i .. n /\ ~(m <= m - 1)
      BY <1>4
    <2>2. PICK v : PassLoop(v, s, i, m - 1)
      BY <1>2, <2>1
    <2> DEFINE w == [j \in i .. m |-> IF j = m THEN Policies!Raise(v[m - 1], i, m) ELSE v[j]]
    <2>3. ASSUME NEW j \in i .. m
          PROVE  w[j] = IF j = i THEN s ELSE Policies!Raise(w[j - 1], i, j)
      <3>1. j \in Nat /\ m - 1 \in i .. m
        BY <2>1
      <3>2. CASE j = i
        BY <1>4, <2>1, <2>2, <3>2 DEF PassLoop
      <3>3. CASE j # i
        <4>1. j - 1 \in i .. m - 1 /\ j - 1 \in i .. m /\ j - 1 # m
          BY <2>1, <3>1, <3>3
        <4>2. w[j - 1] = v[j - 1]
          BY <4>1
        <4>3. CASE j = m
          BY <3>3, <4>2, <4>3
        <4>4. CASE j # m
          <5>1. j \in i .. m - 1
            BY <2>1, <3>1, <4>4
          <5>2. v[j] = Policies!Raise(v[j - 1], i, j)
            BY <2>2, <3>3, <5>1 DEF PassLoop
          <5> QED BY <3>3, <4>2, <4>4, <5>2
        <4> QED BY <4>3, <4>4
      <3> QED BY <3>2, <3>3
    <2>4. w = [j \in i .. m |-> w[j]]
      OBVIOUS
    <2>5. PassLoop(w, s, i, m)
      <3> HIDE DEF w
      <3> QED BY <2>3, <2>4 DEF PassLoop
    <2> QED BY <2>5
  <1> QED BY <1>3, <1>4

\* The inner loop brings the highest of what follows to its position.
LEMMA PassSettles ==
  ASSUME PolicyInv, NEW n \in Nat, NEW s, Lined(s, n), NEW i \in 1 .. n, Settled(s, n, i - 1)
  PROVE  Lined(Policies!Pass(s, i), n) /\ Settled(Policies!Pass(s, i), n, i)
  <1>1. i \in Nat \ {0} /\ i <= n /\ Len(s) = n
    BY LinedLen
  <1> DEFINE w == CHOOSE v : PassLoop(v, s, i, n)
  <1>2. Policies!Pass(s, i) = w[n]
    <2>1. Policies!Pass(s, i) = (CHOOSE v : PassLoop(v, s, i, Len(s)))[Len(s)]
      BY DEF Policies!Pass, PassLoop
    <2> QED BY <1>1, <2>1
  <1>3. PassLoop(w, s, i, n)
    BY <1>1, PassLoopExists
  <1> HIDE DEF w
  <1>4. w[i] = s /\ \A j \in i + 1 .. n : w[j] = Policies!Raise(w[j - 1], i, j)
    BY <1>1, <1>3 DEF PassLoop
  <1> DEFINE Good(j) == Lined(w[j], n) /\ Settled(w[j], n, i - 1) /\ Leads(w[j], i, j)
             Bad == {j \in i .. n : ~ Good(j)}
  <1>5. Good(i)
    <2>1. Rank(s, i) \in Int
      BY RankIsInt
    <2>2. Leads(s, i, i)
      BY <1>1, <2>1 DEF Leads
    <2> QED BY <1>4, <2>2
  <1>6. ASSUME NEW j \in i + 1 .. n, Good(j - 1) PROVE Good(j)
    BY <1>4, <1>6, RaiseLeads
  <1>7. Bad = {}
    <2> SUFFICES ASSUME Bad # {} PROVE FALSE
      OBVIOUS
    <2>1. Bad \subseteq Nat \ {0}
      BY <1>1
    <2>2. PICK j \in Bad : \A k \in Bad : j <= k
      <3> HIDE DEF Bad
      <3> QED BY <2>1, SmallestPosition
    <2>3. j \in Nat /\ j # i /\ j \in i + 1 .. n /\ j - 1 \in i .. n /\ ~(j <= j - 1)
      <3>1. j \in i .. n /\ ~ Good(j)
        OBVIOUS
      <3> HIDE DEF Good
      <3> QED BY <1>1, <1>5, <3>1
    <2>4. Good(j - 1)
      <3> HIDE DEF Good
      <3> QED BY <2>2, <2>3
    <2> HIDE DEF Good
    <2> QED BY <1>6, <2>3, <2>4
  <1>8. Good(n)
    <2> HIDE DEF Good
    <2> QED BY <1>1, <1>7
  <1>9. Settled(w[n], n, i)
    <2> SUFFICES ASSUME NEW k \in 1 .. i, NEW m \in 1 .. n, k < m
                 PROVE  Rank(w[n], k) >= Rank(w[n], m)
      BY DEF Settled
    <2>1. CASE k = i
      <3>1. m \in i .. n
        BY <2>1
      <3> QED BY <1>8, <2>1, <3>1 DEF Leads
    <2>2. CASE k # i
      <3>1. k \in 1 .. i - 1
        BY <2>2
      <3> QED BY <1>8, <3>1 DEF Settled
    <2> QED BY <2>1, <2>2
  <1> QED BY <1>2, <1>8, <1>9

\* The equation of the sort's outer loop, as far as position n.
SortLoop(w, s, n) ==
  w = [i \in 0 .. n |-> IF i = 0 THEN s ELSE Policies!Pass(w[i - 1], i)]

LEMMA SortLoopExists ==
  ASSUME NEW s, NEW n \in Nat
  PROVE  \E w : SortLoop(w, s, n)
  <1> DEFINE Bad == {m \in 1 .. n : ~ \E w : SortLoop(w, s, m)}
  <1>0. \E w : SortLoop(w, s, 0)
    <2> DEFINE w == [i \in 0 .. 0 |-> s]
    <2>1. \A i \in 0 .. 0 : i = 0
      OBVIOUS
    <2>2. SortLoop(w, s, 0)
      BY <2>1 DEF SortLoop
    <2> QED BY <2>2
  <1>1. Bad = {} => \E w : SortLoop(w, s, n)
    <2>1. n = 0 \/ n \in 1 .. n
      OBVIOUS
    <2> QED BY <1>0, <2>1
  <1>2. SUFFICES ASSUME Bad # {} PROVE FALSE
    BY <1>1
  <1>3. PICK m \in Bad : \A k \in Bad : m <= k
    <2>1. Bad \subseteq Nat \ {0}
      OBVIOUS
    <2> HIDE DEF Bad
    <2> QED BY <1>2, <2>1, SmallestPosition
  <1>4. m \in Nat \ {0} /\ m <= n /\ (m - 1 = 0 \/ m - 1 \in 1 .. n) /\ ~(m <= m - 1)
    OBVIOUS
  <1>5. PICK v : SortLoop(v, s, m - 1)
    BY <1>0, <1>3, <1>4
  <1> DEFINE w == [i \in 0 .. m |-> IF i = m THEN Policies!Pass(v[m - 1], m) ELSE v[i]]
  <1>6. ASSUME NEW i \in 0 .. m
        PROVE  w[i] = IF i = 0 THEN s ELSE Policies!Pass(w[i - 1], i)
    <2>1. i \in Nat /\ m - 1 \in 0 .. m /\ 0 \in 0 .. m - 1
      BY <1>4
    <2>2. CASE i = 0
      BY <1>4, <1>5, <2>1, <2>2 DEF SortLoop
    <2>3. CASE i # 0
      <3>1. i - 1 \in 0 .. m - 1 /\ i - 1 \in 0 .. m /\ i - 1 # m
        BY <1>4, <2>1, <2>3
      <3>2. w[i - 1] = v[i - 1]
        BY <3>1
      <3>3. CASE i = m
        BY <2>3, <3>2, <3>3
      <3>4. CASE i # m
        <4>1. i \in 0 .. m - 1
          BY <1>4, <2>1, <3>4
        <4>2. v[i] = Policies!Pass(v[i - 1], i)
          BY <1>5, <2>3, <4>1 DEF SortLoop
        <4> QED BY <2>3, <3>2, <3>4, <4>2
      <3> QED BY <3>3, <3>4
    <2> QED BY <2>2, <2>3
  <1>7. w = [i \in 0 .. m |-> w[i]]
    OBVIOUS
  <1>8. SortLoop(w, s, m)
    <2> HIDE DEF w
    <2> QED BY <1>6, <1>7 DEF SortLoop
  <1> QED BY <1>3, <1>8

\* The sort keeps every policy and puts them in order.
LEMMA SortSettles ==
  ASSUME PolicyInv, NEW n \in Nat, NEW s, Lined(s, n)
  PROVE  LET t == Policies!sortPoliciesByPriority(s)
         IN  Lined(t, n) /\ Settled(t, n, n)
  <1>1. Len(s) = n
    BY LinedLen
  <1> DEFINE w == CHOOSE v : SortLoop(v, s, n)
  <1>2. Policies!sortPoliciesByPriority(s) = w[n]
    <2>1. Policies!sortPoliciesByPriority(s) = (CHOOSE v : SortLoop(v, s, Len(s)))[Len(s)]
      BY DEF Policies!sortPoliciesByPriority, SortLoop
    <2> QED BY <1>1, <2>1
  <1>3. SortLoop(w, s, n)
    BY SortLoopExists
  <1> HIDE DEF w
  <1>4. w[0] = s /\ \A i \in 1 .. n : w[i] = Policies!Pass(w[i - 1], i)
    BY <1>3 DEF SortLoop
  <1> DEFINE Good(i) == Lined(w[i], n) /\ Settled(w[i], n, i)
             Bad == {i \in 1 .. n : ~ Good(i)}
  <1>5. Good(0)
    BY <1>4 DEF Settled
  <1>6. ASSUME NEW i \in 1 .. n, Good(i - 1) PROVE Good(i)
    BY <1>4, <1>6, PassSettles
  <1>7. Bad = {}
    <2> SUFFICES ASSUME Bad # {} PROVE FALSE
      OBVIOUS
    <2>1. PICK i \in Bad : \A k \in Bad : i <= k
      <3>1. Bad \subseteq Nat \ {0}
        OBVIOUS
      <3> HIDE DEF Bad
      <3> QED BY <3>1, SmallestPosition
    <2> HIDE DEF Good
    <2>2. i \in 1 .. n /\ i \in Nat /\ (i - 1 = 0 \/ i - 1 \in 1 .. n) /\ ~(i <= i - 1)
      OBVIOUS
    <2>3. Good(i - 1)
      BY <1>5, <2>1, <2>2
    <2> QED BY <1>6, <2>2, <2>3
  <1>8. Good(n)
    <2> HIDE DEF Good
    <2>1. n = 0 \/ n \in 1 .. n
      OBVIOUS
    <2> QED BY <1>5, <1>7, <2>1
  <1> QED BY <1>2, <1>8

\* An evaluation answers with the first policy that matches, in that order.
LEMMA EvaluateBest ==
  ASSUME PolicyInv, NEW q \in Request, Policies!Evaluate(q)
  PROVE  Policies!Important
  <1> DEFINE n == Policies!Cardinality(Policies!Enabled)
  <1>1. n \in Nat
    <2>1. Policies!Enabled \subseteq Policy
      BY DEF Policies!Enabled
    <2>2. Cardinality(Policies!Enabled) \in Nat
      BY <2>1, InputsAssumption, FS_Subset, FS_CardinalityType
    <2> QED BY <2>2 DEF Policies!Cardinality, Cardinality
  <1>2. PICK order \in Policies!Bijection(1 .. n, Policies!Enabled) :
          LET sorted == Policies!sortPoliciesByPriority(order)
              matching == {i \in DOMAIN sorted : Policies!evaluatePolicy(policies[sorted[i]], q)}
              first == sorted[Policies!Min(matching)]
          IN  answer' = IF matching = {}
                          THEN [request |-> q, policy |-> None, action |-> "ALLOW"]
                          ELSE [request |-> q, policy |-> first, action |-> policies[first].action]
    BY DEF Policies!Evaluate
  <1>3. Lined(order, n)
    <2> HIDE DEF n
    <2> QED BY DEF Policies!Bijection, Policies!Injection, Policies!Surjection, Lined
  <1> HIDE DEF n
  <1> DEFINE sorted == Policies!sortPoliciesByPriority(order)
             matching == {i \in DOMAIN sorted : Policies!evaluatePolicy(policies[sorted[i]], q)}
             first == sorted[Policies!Min(matching)]
  <1>4. Lined(sorted, n) /\ Settled(sorted, n, n)
    <2> HIDE DEF sorted
    <2> QED BY <1>1, <1>3, SortSettles DEF sorted
  <1>5. answer' = IF matching = {}
                    THEN [request |-> q, policy |-> None, action |-> "ALLOW"]
                    ELSE [request |-> q, policy |-> first, action |-> policies[first].action]
    BY <1>2
  <1> HIDE DEF sorted
  <1> SUFFICES ASSUME NEW p \in Policies!Enabled, Policies!evaluatePolicy(policies[p], answer'.request)
               PROVE  /\ answer'.policy \in Policies!Enabled
                      /\ policies[answer'.policy].priority >= policies[p].priority
    BY DEF Policies!Important
  <1>6. Policies!evaluatePolicy(policies[p], q)
    BY <1>5
  <1>7. PICK k \in 1 .. n : sorted[k] = p
    BY <1>4 DEF Lined
  <1>8. k \in matching /\ matching \subseteq 1 .. n
    BY <1>4, <1>6, <1>7 DEF Lined
  <1>9. Policies!Min(matching) \in matching /\ Policies!Min(matching) <= k
    <2> HIDE DEF matching
    <2>1. matching \subseteq Nat \ {0} /\ matching # {}
      BY <1>8
    <2>2. \E m \in matching : \A j \in matching : m <= j
      BY <2>1, SmallestPosition
    <2> QED BY <1>8, <2>2 DEF Policies!Min
  <1>10. answer'.policy = first
    BY <1>5, <1>8
  <1> DEFINE m == Policies!Min(matching)
  <1>11. m \in 1 .. n /\ m <= k
    BY <1>8, <1>9
  <1> HIDE DEF matching, m
  <1>12. sorted[m] \in Policies!Enabled
    BY <1>4, <1>11 DEF Lined
  <1>13. Rank(sorted, m) >= Rank(sorted, k)
    <2>1. Rank(sorted, m) \in Int
      BY <1>1, <1>4, <1>11, RankIsInt
    <2>2. CASE m = k
      BY <2>1, <2>2
    <2>3. CASE m # k
      BY <1>4, <1>11, <2>3 DEF Settled
    <2> QED BY <2>2, <2>3
  <1> QED BY <1>7, <1>10, <1>12, <1>13 DEF Rank, m

\* No other step answers.
LEMMA PolicyKept == PolicyInv /\ [Policies!Next]_policyVars => [Policies!Important]_policyVars
  <1> SUFFICES ASSUME PolicyInv, [Policies!Next]_policyVars PROVE Policies!Important \/ UNCHANGED policyVars
    OBVIOUS
  <1>1. ASSUME NEW q \in Request, Policies!Evaluate(q) PROVE Policies!Important
    BY <1>1, EvaluateBest
  <1>2. answer' = answer => Policies!Important
    BY DEF Policies!Important
  <1>3. ASSUME NEW p \in Policy, NEW row \in Row, Policies!SavePolicy(p, row) PROVE answer' = answer
    BY <1>3 DEF Policies!SavePolicy
  <1>4. ASSUME NEW p \in Policy,
               \/ Policies!DeletePolicy(p) \/ Policies!UnloadPolicy(p)
               \/ \E l \in PolicyLoader : Policies!GetPolicy(l, p)
        PROVE answer' = answer
    BY <1>4 DEF Policies!DeletePolicy, Policies!UnloadPolicy, Policies!GetPolicy
  <1>5. ASSUME NEW l \in PolicyLoader, Policies!InstallPolicy(l) PROVE answer' = answer
    BY <1>5 DEF Policies!InstallPolicy
  <1>6. ASSUME NEW r \in Reloader, Policies!ListPolicies(r) \/ Policies!InstallReload(r)
        PROVE answer' = answer
    BY <1>6 DEF Policies!ListPolicies, Policies!InstallReload
  <1> QED BY <1>1, <1>2, <1>3, <1>4, <1>5, <1>6 DEF Policies!Next

-------------------------------------------------------------------------------
(* The whole *)

\* A step of the whole is for the router and for the policy engine a step of
\* its own or none.
LEMMA Moves ==
  [DataPathNext]_everything =>
    [Router!Next]_routerVars /\ [Policies!Next]_policyVars
  BY DEF DataPathNext, Only, everything, routerVars, policyVars

\* The answer of the policy engine, and the route of a request, is never one
\* that a more important one which applies should have given, whatever rows
\* administrators save and however reloads interleave with them.
THEOREM AnswersAreBest == DataPathSpec => BestAnswers
  <1>1. DataPathInit => RouterInv /\ PolicyInv
    BY RouterStart, PolicyStart DEF DataPathInit
  <1>2. RouterInv /\ PolicyInv /\ [DataPathNext]_everything => RouterInv' /\ PolicyInv'
    BY Moves, RouterStep, PolicyStep
  <1>3. PolicyInv /\ [DataPathNext]_everything => [Policies!Important]_Policies!vars
    <2>1. Policies!vars = policyVars /\ Policies!vars' = policyVars'
      BY DEF Policies!vars, policyVars
    <2> QED BY <2>1, Moves, PolicyKept
  <1> QED BY <1>1, <1>2, <1>3, RouterKept, PTL DEF DataPathSpec, BestAnswers, Policies!MostImportantAnswers
====
