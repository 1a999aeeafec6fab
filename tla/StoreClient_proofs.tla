------------------------- MODULE StoreClient_proofs -------------------------
(***************************************************************************)
(* Safety of the connection pool for any number of calls, connections and  *)
(* retries.                                                                *)
(***************************************************************************)
EXTENDS StoreClient, SequenceTheorems, FiniteSetTheorems, TLAPS

USE PoolAssumption, RetriesAssumption DEF PoolAssumption, RetriesAssumption

\* The database answers only what was written.
AnswersWritten == \A k \in Conns : answered[k] <= Len(wire[k])

\* The inductive invariant.
IInv == TypeOK /\ ConnOwned /\ AnswersWritten

\* The connection of a call is open, outside the pool, and its own.
LEMMA HolderUsesConn ==
  ASSUME IInv, NEW c \in Calls, pc[c] \in UsingConn
  PROVE  /\ held[c] \in Conns /\ held[c] \notin pool
         /\ socket[held[c]] # "closed"
         /\ \A d \in Calls : held[d] = held[c] => d = c
BY DEF IInv, TypeOK, ConnOwned

\* Going on to the next attempt, or giving up, concerns one call only.
LEMMA NextAttemptFrame ==
  ASSUME TypeOK, NEW c \in Calls, NextAttempt(c)
  PROVE  /\ pc' \in [Calls -> Steps] /\ attempt' \in [Calls -> 0 .. MaxRetries]
         /\ pc'[c] \in {"acquire", "error"}
         /\ \A d \in Calls \ {c} : pc'[d] = pc[d]
<1>1. CASE attempt[c] < MaxRetries
  <2>1. attempt' \in [Calls -> 0 .. MaxRetries]
    <3>1. attempt[c] \in 0 .. MaxRetries
      BY DEF TypeOK
    <3>2. attempt[c] + 1 \in 0 .. MaxRetries
      BY <1>1, <3>1
    <3>3. attempt' = [attempt EXCEPT ![c] = attempt[c] + 1]
      BY <1>1 DEF NextAttempt
    <3> QED
      BY <3>2, <3>3 DEF TypeOK
  <2> QED
    BY <1>1, <2>1 DEF NextAttempt, TypeOK, Steps
<1>2. CASE ~(attempt[c] < MaxRetries)
  BY <1>2 DEF NextAttempt, TypeOK, Steps
<1> QED
  BY <1>1, <1>2

\* All connections are in the pool at first, without answers.
LEMMA InitIInv == Init => IInv
<1> SUFFICES ASSUME Init PROVE IInv
  OBVIOUS
<1>1. closed \in BOOLEAN
  BY Zenon DEF Init
<1>2. TypeOK
  <2>1. failed \in [Calls -> BOOLEAN] /\ attempt \in [Calls -> 0 .. MaxRetries]
    BY DEF Init
  <2> QED
    BY <1>1, <2>1 DEF Init, TypeOK, Steps
<1>3. ConnOwned
  BY DEF Init, ConnOwned, UsingConn
<1>4. AnswersWritten
  BY DEF Init, AnswersWritten
<1> QED
  BY <1>2, <1>3, <1>4 DEF IInv

\* Every step of a call, of Close and of the database.
LEMMA StepIInv == IInv /\ [Next]_vars => IInv'
<1> SUFFICES ASSUME IInv, [Next]_vars PROVE IInv'
  OBVIOUS
<1> USE DEF wires
<1>t. TypeOK /\ ConnOwned /\ AnswersWritten
  BY DEF IInv
<1>1. ASSUME NEW c \in Calls, Exec(c) PROVE IInv'
  <2>1. TypeOK'
    BY <1>1, <1>t DEF Exec, TypeOK, Steps
  <2>2. ConnOwned'
    BY <1>1, <1>t DEF Exec, TypeOK, ConnOwned, UsingConn
  <2> QED
    BY <1>1, <1>t, <2>1, <2>2 DEF Exec, IInv, AnswersWritten
<1>2. ASSUME NEW c \in Calls, AcquireCheck(c) PROVE IInv'
  <2>0. /\ pc' \in [Calls -> Steps] /\ attempt' \in [Calls -> 0 .. MaxRetries]
        /\ pc'[c] \in {"acquire", "error", "receive"}
        /\ \A d \in Calls \ {c} : pc'[d] = pc[d]
    BY <1>2, <1>t, NextAttemptFrame DEF AcquireCheck, TypeOK, Steps
  <2>1. TypeOK'
    BY <1>2, <1>t, <2>0 DEF AcquireCheck, TypeOK
  <2>2. ConnOwned'
    BY <1>2, <1>t, <2>0 DEF AcquireCheck, TypeOK, ConnOwned, UsingConn
  <2> QED
    BY <1>2, <1>t, <2>1, <2>2 DEF AcquireCheck, IInv, AnswersWritten
<1>3. ASSUME NEW c \in Calls, AcquireConn(c) PROVE IInv'
  <2>0. PICK k \in pool : pool' = pool \ {k} /\ held' = [held EXCEPT ![c] = k]
    BY <1>3 DEF AcquireConn
  <2>1. TypeOK'
    BY <1>3, <1>t, <2>0 DEF AcquireConn, TypeOK, Steps
  <2>2. ConnOwned'
    <3>0. /\ pc[c] = "receive" /\ pc' = [pc EXCEPT ![c] = "write"]
          /\ socket' = socket /\ k \in Conns /\ k # NoConn /\ held[c] = NoConn
      <4>1. pc[c] = "receive" /\ pc' = [pc EXCEPT ![c] = "write"] /\ socket' = socket
        BY <1>3 DEF AcquireConn
      <4>2. k \in Conns /\ k # NoConn
        BY <1>t DEF TypeOK
      <4>3. held[c] = NoConn
        BY <1>t, <4>1 DEF ConnOwned, UsingConn
      <4> QED
        BY <4>1, <4>2, <4>3
    <3>h. held'[c] = k /\ \A d \in Calls \ {c} : held'[d] = held[d] /\ held[d] # k
      BY <1>t, <2>0 DEF TypeOK, ConnOwned
    <3>1. \A d \in Calls : pc'[d] \in UsingConn <=> held'[d] # NoConn
      BY <1>t, <3>0, <3>h DEF TypeOK, ConnOwned, UsingConn
    <3>2. \A d, e \in Calls : held'[d] = held'[e] /\ held'[d] # NoConn => d = e
      BY <1>t, <3>h DEF ConnOwned
    <3>3. \A d \in Calls : held'[d] \notin pool'
      BY <1>t, <2>0, <3>h DEF ConnOwned
    <3>4. ASSUME NEW j \in Conns
          PROVE  socket'[j] = "closed"
                   <=> j \notin pool' /\ \A d \in Calls : held'[d] # j
      <4>1. CASE j = k
        BY <1>t, <2>0, <3>0, <3>h, <4>1 DEF ConnOwned
      <4>2. CASE j # k
        BY <1>t, <2>0, <3>0, <3>h, <4>2 DEF ConnOwned
      <4> QED
        BY <4>1, <4>2
    <3> QED
      BY <3>1, <3>2, <3>3, <3>4 DEF ConnOwned
  <2> QED
    BY <1>3, <1>t, <2>1, <2>2 DEF AcquireConn, IInv, AnswersWritten
<1>4. ASSUME NEW c \in Calls, AcquireNil(c) PROVE IInv'
  <2>1. TypeOK'
    BY <1>4, <1>t DEF AcquireNil, TypeOK, Steps
  <2>2. ConnOwned'
    BY <1>4, <1>t DEF AcquireNil, TypeOK, ConnOwned, UsingConn
  <2> QED
    BY <1>4, <1>t, <2>1, <2>2 DEF AcquireNil, IInv, AnswersWritten
<1>5. ASSUME NEW c \in Calls, AcquireTimeout(c) PROVE IInv'
  <2>0. /\ pc' \in [Calls -> Steps] /\ attempt' \in [Calls -> 0 .. MaxRetries]
        /\ pc'[c] \in {"acquire", "error"}
        /\ \A d \in Calls \ {c} : pc'[d] = pc[d]
    BY <1>5, <1>t, NextAttemptFrame DEF AcquireTimeout
  <2>1. TypeOK'
    BY <1>5, <1>t, <2>0 DEF AcquireTimeout, TypeOK
  <2>2. ConnOwned'
    BY <1>5, <1>t, <2>0 DEF AcquireTimeout, TypeOK, ConnOwned, UsingConn
  <2> QED
    BY <1>5, <1>t, <2>1, <2>2 DEF AcquireTimeout, IInv, AnswersWritten
<1>6. ASSUME NEW c \in Calls, WriteRequest(c) PROVE IInv'
  <2>k. held[c] \in Conns
    BY <1>6, HolderUsesConn DEF WriteRequest, UsingConn
  <2>0. /\ wire[held[c]] \in Seq(Calls)
        /\ Append(wire[held[c]], c) \in Seq(Calls)
        /\ Len(Append(wire[held[c]], c)) = Len(wire[held[c]]) + 1
    BY <1>t, <2>k DEF TypeOK
  <2>1. TypeOK'
    BY <1>6, <1>t, <2>0, <2>k DEF WriteRequest, TypeOK, Steps
  <2>2. ConnOwned'
    BY <1>6, <1>t DEF WriteRequest, TypeOK, ConnOwned, UsingConn
  <2>3. AnswersWritten'
    BY <1>6, <1>t, <2>0, <2>k DEF WriteRequest, TypeOK, AnswersWritten
  <2> QED
    BY <2>1, <2>2, <2>3 DEF IInv
<1>7. ASSUME NEW c \in Calls, ReadAnswer(c) PROVE IInv'
  <2>k. held[c] \in Conns
    BY <1>7, HolderUsesConn DEF ReadAnswer, UsingConn
  <2>0. /\ wire[held[c]] \in Seq(Calls) /\ wire[held[c]] # <<>>
        /\ answered[held[c]] \in Nat /\ answered[held[c]] > 0
    BY <1>7, <1>t, <2>k DEF ReadAnswer, TypeOK, AnswersWritten
  <2>h. /\ Head(wire[held[c]]) \in Calls
        /\ Tail(wire[held[c]]) \in Seq(Calls)
        /\ Len(Tail(wire[held[c]])) = Len(wire[held[c]]) - 1
    BY <2>0
  <2>1. TypeOK'
    <3>1. PICK ok \in BOOLEAN : failed' = [failed EXCEPT ![c] = ~ok]
      BY <1>7 DEF ReadAnswer
    <3>2. failed' \in [Calls -> BOOLEAN]
      BY <1>t, <3>1 DEF TypeOK
    <3>3. wire' \in [Conns -> Seq(Calls)]
      BY <1>7, <1>t, <2>h, <2>k DEF ReadAnswer, TypeOK
    <3>4. answered' \in [Conns -> Nat]
      BY <1>7, <1>t, <2>0, <2>k DEF ReadAnswer, TypeOK
    <3>5. answer' \in [Calls -> Calls \cup {NoCall}]
      BY <1>7, <1>t, <2>h DEF ReadAnswer, TypeOK
    <3> QED
      BY <1>7, <1>t, <3>2, <3>3, <3>4, <3>5 DEF ReadAnswer, TypeOK, Steps
  <2>2. ConnOwned'
    BY <1>7, <1>t DEF ReadAnswer, TypeOK, ConnOwned, UsingConn
  <2>3. AnswersWritten'
    BY <1>7, <1>t, <2>0, <2>h, <2>k DEF ReadAnswer, TypeOK, AnswersWritten
  <2> QED
    BY <2>1, <2>2, <2>3 DEF IInv
<1>8. ASSUME NEW c \in Calls, ReadTimeout(c) PROVE IInv'
  <2>k. held[c] \in Conns
    BY <1>8, HolderUsesConn DEF ReadTimeout, UsingConn
  <2>1. TypeOK'
    BY <1>8, <1>t, <2>k DEF ReadTimeout, TypeOK, Steps
  <2>2. ConnOwned'
    BY <1>8, <1>t DEF ReadTimeout, TypeOK, ConnOwned, UsingConn
  <2> QED
    BY <1>8, <1>t, <2>1, <2>2 DEF ReadTimeout, IInv, AnswersWritten
<1>9. ASSUME NEW c \in Calls, BrokenSocket(c) PROVE IInv'
  <2>1. TypeOK'
    BY <1>9, <1>t DEF BrokenSocket, TypeOK, Steps
  <2>2. ConnOwned'
    BY <1>9, <1>t DEF BrokenSocket, TypeOK, ConnOwned, UsingConn
  <2> QED
    BY <1>9, <1>t, <2>1, <2>2 DEF BrokenSocket, IInv, AnswersWritten
<1>10. ASSUME NEW c \in Calls, Release(c) PROVE IInv'
  <2>k. /\ held[c] \in Conns /\ held[c] \notin pool
        /\ socket[held[c]] # "closed"
        /\ \A d \in Calls : held[d] = held[c] => d = c
    BY <1>10, HolderUsesConn DEF Release, UsingConn
  <2>0. /\ pc' \in [Calls -> Steps] /\ attempt' \in [Calls -> 0 .. MaxRetries]
        /\ pc'[c] \in {"acquire", "error", "ok"}
        /\ \A d \in Calls \ {c} : pc'[d] = pc[d]
    BY <1>10, <1>t, NextAttemptFrame DEF Release, TypeOK, Steps
  <2>1. TypeOK'
    <3>1. pool' \in SUBSET Conns /\ socket' \in [Conns -> {"open", "dead", "closed"}]
      BY <1>10, <1>t, <2>k DEF Release, PutBack, TypeOK
    <3>2. failed' \in [Calls -> BOOLEAN] /\ held' \in [Calls -> Conns \cup {NoConn}]
      BY <1>10, <1>t DEF Release, TypeOK
    <3> QED
      BY <1>10, <1>t, <2>0, <3>1, <3>2 DEF Release, TypeOK
  <2>2. ConnOwned'
    <3>h. held'[c] = NoConn /\ \A d \in Calls \ {c} : held'[d] = held[d] /\ held[d] # held[c]
      BY <1>10, <1>t, <2>k DEF Release, TypeOK
    <3>1. \A d \in Calls : pc'[d] \in UsingConn <=> held'[d] # NoConn
      BY <1>t, <2>0, <3>h DEF ConnOwned, UsingConn
    <3>2. \A d, e \in Calls : held'[d] = held'[e] /\ held'[d] # NoConn => d = e
      BY <1>t, <3>h DEF ConnOwned
    <3>3. CASE closed
      <4>1. pool' = pool /\ socket' = [socket EXCEPT ![held[c]] = "closed"]
        BY <1>10, <3>3 DEF Release, PutBack
      <4>2. \A d \in Calls : held'[d] \notin pool'
        BY <1>t, <3>h, <4>1 DEF ConnOwned, TypeOK
      <4>3. ASSUME NEW j \in Conns
            PROVE  socket'[j] = "closed"
                     <=> j \notin pool' /\ \A d \in Calls : held'[d] # j
        <5>1. CASE j = held[c]
          BY <1>t, <2>k, <3>h, <4>1, <5>1 DEF TypeOK
        <5>2. CASE j # held[c]
          <6>1. (\A d \in Calls : held'[d] # j) <=> (\A d \in Calls : held[d] # j)
            BY <3>h, <5>2, <2>k
          <6>2. socket'[j] = socket[j] /\ (j \in pool' <=> j \in pool)
            BY <1>t, <4>1, <5>2 DEF TypeOK
          <6> QED
            BY <1>t, <6>1, <6>2 DEF ConnOwned
        <5> QED
          BY <5>1, <5>2
      <4> QED
        BY <3>1, <3>2, <4>2, <4>3 DEF ConnOwned
    <3>4. CASE ~closed
      <4>1. pool' = pool \cup {held[c]} /\ socket' = socket
        BY <1>10, <3>4 DEF Release, PutBack
      <4>2. \A d \in Calls : held'[d] \notin pool'
        BY <1>t, <2>k, <3>h, <4>1 DEF ConnOwned, TypeOK
      <4>3. ASSUME NEW j \in Conns
            PROVE  socket'[j] = "closed"
                     <=> j \notin pool' /\ \A d \in Calls : held'[d] # j
        <5>1. CASE j = held[c]
          BY <1>t, <2>k, <3>h, <4>1, <5>1 DEF TypeOK
        <5>2. CASE j # held[c]
          <6>1. (\A d \in Calls : held'[d] # j) <=> (\A d \in Calls : held[d] # j)
            BY <3>h, <5>2, <2>k
          <6>2. socket'[j] = socket[j] /\ (j \in pool' <=> j \in pool)
            BY <1>t, <4>1, <5>2 DEF TypeOK
          <6> QED
            BY <1>t, <6>1, <6>2 DEF ConnOwned
        <5> QED
          BY <5>1, <5>2
      <4> QED
        BY <3>1, <3>2, <4>2, <4>3 DEF ConnOwned
    <3> QED
      BY <3>3, <3>4
  <2> QED
    BY <1>10, <1>t, <2>1, <2>2 DEF Release, IInv, AnswersWritten
<1>11. CASE Close
  <2>1. TypeOK'
    <3>1. closed' \in BOOLEAN
      BY <1>11, Zenon DEF Close
    <3> QED
      BY <1>11, <1>t, <3>1 DEF Close, TypeOK
  <2>2. ConnOwned'
    BY <1>11, <1>t DEF Close, TypeOK, ConnOwned, UsingConn
  <2> QED
    BY <1>11, <1>t, <2>1, <2>2 DEF Close, IInv, AnswersWritten
<1>12. ASSUME NEW k \in Conns, DatabaseAnswers(k) PROVE IInv'
  <2>0. /\ wire[k] \in Seq(Calls) /\ answered[k] \in Nat /\ Len(wire[k]) \in Nat
        /\ answered[k] + 1 \in 1 .. Len(wire[k])
        /\ wire[k][answered[k] + 1] \in Calls
    BY <1>12, <1>t DEF DatabaseAnswers, TypeOK
  <2>1. TypeOK'
    <3>1. answered' \in [Conns -> Nat]
      BY <1>12, <1>t, <2>0 DEF DatabaseAnswers, TypeOK
    <3>2. executed' \in [Calls -> Nat]
      BY <1>12, <1>t, <2>0 DEF DatabaseAnswers, TypeOK
    <3> QED
      BY <1>12, <1>t, <3>1, <3>2 DEF DatabaseAnswers, TypeOK
  <2>2. ConnOwned'
    BY <1>12, <1>t DEF DatabaseAnswers, TypeOK, ConnOwned, UsingConn
  <2>3. AnswersWritten'
    BY <1>12, <1>t, <2>0 DEF DatabaseAnswers, TypeOK, AnswersWritten
  <2> QED
    BY <2>1, <2>2, <2>3 DEF IInv
<1>13. ASSUME NEW k \in Conns, DatabaseDrops(k) PROVE IInv'
  <2>1. TypeOK'
    <3>1. <<>> \in Seq(Calls)
      OBVIOUS
    <3> QED
      BY <1>13, <1>t, <3>1 DEF DatabaseDrops, TypeOK
  <2>2. ConnOwned'
    BY <1>13, <1>t DEF DatabaseDrops, TypeOK, ConnOwned, UsingConn
  <2>3. AnswersWritten'
    BY <1>13, <1>t DEF DatabaseDrops, TypeOK, AnswersWritten
  <2> QED
    BY <2>1, <2>2, <2>3 DEF IInv
<1>14. CASE UNCHANGED vars
  BY <1>14, <1>t DEF vars, IInv, TypeOK, ConnOwned, UsingConn, AnswersWritten
<1> QED
  BY <1>1, <1>2, <1>3, <1>4, <1>5, <1>6, <1>7, <1>8, <1>9, <1>10, <1>11, <1>12,
     <1>13, <1>14 DEF Next, CallStep

\* Type correctness: in particular no call exceeds its tries and only
\* statements that were written are executed.
THEOREM TypeCorrect == Spec => []TypeOK
BY InitIInv, StepIInv, PTL DEF Spec, IInv

\* A connection is in exactly one place: the pool, one call's hands, or closed.
THEOREM ConnsOwned == Spec => []ConnOwned
BY InitIInv, StepIInv, PTL DEF Spec, IInv

-----------------------------------------------------------------------------
(* One unread line for each missed deadline. *)
LEMMA StepLate == IInv /\ LateByMissed /\ [Next]_vars => LateByMissed'
<1> SUFFICES ASSUME IInv, LateByMissed, [Next]_vars,
                    NEW j \in Conns, socket'[j] = "open"
             PROVE  /\ Len(wire'[j]) = missed'[j] + (IF Waiting(j)' THEN 1 ELSE 0)
                    /\ answered'[j] <= Len(wire'[j])
  BY DEF LateByMissed
<1>t. TypeOK /\ ConnOwned
  BY DEF IInv
<1>a. answered'[j] <= Len(wire'[j])
  BY StepIInv DEF IInv, AnswersWritten
<1> SUFFICES Len(wire'[j]) = missed'[j] + (IF Waiting(j)' THEN 1 ELSE 0)
  BY <1>a
<1>n. /\ wire[j] \in Seq(Calls) /\ Len(wire[j]) \in Nat /\ missed[j] \in Nat
      /\ answered[j] \in Nat
      /\ socket[j] = "open" => Len(wire[j]) = missed[j] + (IF Waiting(j) THEN 1 ELSE 0)
  BY <1>t DEF TypeOK, LateByMissed
<1>f. ASSUME UNCHANGED <<wire, missed>>, Waiting(j)' <=> Waiting(j), socket[j] = "open"
      PROVE  Len(wire'[j]) = missed'[j] + (IF Waiting(j)' THEN 1 ELSE 0)
  BY <1>f, <1>n
\* Calls that neither start nor stop reading do not change what is waited for.
<1>w. ASSUME NEW c \in Calls, pc[c] # "read", pc'[c] # "read",
             \A d \in Calls \ {c} : pc'[d] = pc[d] /\ held'[d] = held[d]
      PROVE  Waiting(j)' <=> Waiting(j)
  BY <1>w DEF Waiting
<1>1. ASSUME NEW c \in Calls,
             \/ Exec(c) \/ AcquireCheck(c) \/ AcquireConn(c) \/ AcquireNil(c)
             \/ AcquireTimeout(c) \/ Release(c)
      PROVE  Len(wire'[j]) = missed'[j] + (IF Waiting(j)' THEN 1 ELSE 0)
  <2>1. /\ pc[c] # "read" /\ pc'[c] # "read"
        /\ \A d \in Calls \ {c} : pc'[d] = pc[d]
    BY <1>1, <1>t, NextAttemptFrame
       DEF Exec, AcquireCheck, AcquireConn, AcquireNil, AcquireTimeout, Release, TypeOK, Steps
  <2>2. /\ UNCHANGED <<wire, missed>>
        /\ \A d \in Calls \ {c} : held'[d] = held[d]
    BY <1>1, <1>t
       DEF Exec, AcquireCheck, AcquireConn, AcquireNil, AcquireTimeout, Release, wires, TypeOK
  <2>3. socket[j] = "open"
    BY <1>1, <1>t
       DEF Exec, AcquireCheck, AcquireConn, AcquireNil, AcquireTimeout, Release, PutBack,
           wires, TypeOK
  <2> QED
    BY <1>f, <1>w, <2>1, <2>2, <2>3
<1>2. ASSUME NEW c \in Calls, WriteRequest(c)
      PROVE  Len(wire'[j]) = missed'[j] + (IF Waiting(j)' THEN 1 ELSE 0)
  <2>k. held[c] \in Conns /\ \A d \in Calls : held[d] = held[c] => d = c
    BY <1>2, HolderUsesConn DEF WriteRequest, UsingConn
  <2>0. /\ pc[c] = "write" /\ pc' = [pc EXCEPT ![c] = "read"]
        /\ wire' = [wire EXCEPT ![held[c]] = Append(@, c)]
        /\ UNCHANGED <<held, missed, socket>>
    BY <1>2 DEF WriteRequest
  <2>1. CASE held[c] = j
    <3>1. ~Waiting(j) /\ Waiting(j)'
      BY <1>t, <2>k, <2>0, <2>1 DEF Waiting, TypeOK
    <3>2. Len(wire'[j]) = Len(wire[j]) + 1
      BY <1>t, <1>n, <2>0, <2>1 DEF TypeOK
    <3> QED
      BY <1>n, <2>0, <3>1, <3>2
  <2>2. CASE held[c] # j
    <3>1. Waiting(j)' <=> Waiting(j)
      BY <1>t, <2>0, <2>2 DEF Waiting, TypeOK
    <3>2. wire'[j] = wire[j]
      BY <1>t, <2>0, <2>2 DEF TypeOK
    <3> QED
      BY <1>n, <2>0, <3>1, <3>2
  <2> QED
    BY <2>1, <2>2
<1>3. ASSUME NEW c \in Calls, ReadAnswer(c)
      PROVE  Len(wire'[j]) = missed'[j] + (IF Waiting(j)' THEN 1 ELSE 0)
  <2>k. held[c] \in Conns /\ \A d \in Calls : held[d] = held[c] => d = c
    BY <1>3, HolderUsesConn DEF ReadAnswer, UsingConn
  <2>0. /\ pc[c] = "read" /\ pc' = [pc EXCEPT ![c] = "release"]
        /\ answered[held[c]] > 0
        /\ wire' = [wire EXCEPT ![held[c]] = Tail(@)]
        /\ UNCHANGED <<held, missed, socket>>
    BY <1>3 DEF ReadAnswer
  <2>1. CASE held[c] = j
    <3>1. Waiting(j) /\ ~Waiting(j)'
      BY <1>t, <2>k, <2>0, <2>1 DEF Waiting, TypeOK
    <3>e. wire[j] # <<>>
      BY <1>n, <2>0, <2>1, <1>t DEF IInv, AnswersWritten
    <3>t. Len(Tail(wire[j])) = Len(wire[j]) - 1
      BY <1>n, <3>e
    <3>2. Len(wire'[j]) = Len(wire[j]) - 1
      BY <1>t, <2>0, <2>1, <3>t DEF TypeOK
    <3> QED
      BY <1>n, <2>0, <3>1, <3>2
  <2>2. CASE held[c] # j
    <3>1. Waiting(j)' <=> Waiting(j)
      BY <1>t, <2>0, <2>2 DEF Waiting, TypeOK
    <3>2. wire'[j] = wire[j]
      BY <1>t, <2>0, <2>2 DEF TypeOK
    <3> QED
      BY <1>n, <2>0, <3>1, <3>2
  <2> QED
    BY <2>1, <2>2
<1>4. ASSUME NEW c \in Calls, ReadTimeout(c)
      PROVE  Len(wire'[j]) = missed'[j] + (IF Waiting(j)' THEN 1 ELSE 0)
  <2>k. held[c] \in Conns /\ \A d \in Calls : held[d] = held[c] => d = c
    BY <1>4, HolderUsesConn DEF ReadTimeout, UsingConn
  <2>0. /\ pc[c] = "read" /\ pc' = [pc EXCEPT ![c] = "release"]
        /\ missed' = [missed EXCEPT ![held[c]] = @ + 1]
        /\ UNCHANGED <<held, wire, socket>>
    BY <1>4 DEF ReadTimeout
  <2>1. CASE held[c] = j
    <3>1. Waiting(j) /\ ~Waiting(j)'
      BY <1>t, <2>k, <2>0, <2>1 DEF Waiting, TypeOK
    <3>2. missed'[j] = missed[j] + 1
      BY <1>t, <2>0, <2>1 DEF TypeOK
    <3> QED
      BY <1>n, <2>0, <3>1, <3>2
  <2>2. CASE held[c] # j
    <3>1. Waiting(j)' <=> Waiting(j)
      BY <1>t, <2>0, <2>2 DEF Waiting, TypeOK
    <3>2. missed'[j] = missed[j]
      BY <1>t, <2>0, <2>2 DEF TypeOK
    <3> QED
      BY <1>n, <2>0, <3>1, <3>2
  <2> QED
    BY <2>1, <2>2
<1>5. ASSUME NEW c \in Calls, BrokenSocket(c)
      PROVE  Len(wire'[j]) = missed'[j] + (IF Waiting(j)' THEN 1 ELSE 0)
  <2>1. held[c] # j
    BY <1>5 DEF BrokenSocket, wires
  <2>2. Waiting(j)' <=> Waiting(j)
    BY <1>5, <1>t, <2>1 DEF BrokenSocket, Waiting, TypeOK
  <2> QED
    BY <1>5, <1>f, <2>2 DEF BrokenSocket, wires
<1>6. CASE Close
  <2>1. UNCHANGED <<wire, missed, pc, held>> /\ socket[j] = "open"
    BY <1>6, <1>t DEF Close, TypeOK
  <2> QED
    BY <1>f, <2>1 DEF Waiting
<1>7. ASSUME NEW k \in Conns, DatabaseAnswers(k)
      PROVE  Len(wire'[j]) = missed'[j] + (IF Waiting(j)' THEN 1 ELSE 0)
  BY <1>7, <1>f DEF DatabaseAnswers, Waiting
<1>8. ASSUME NEW k \in Conns, DatabaseDrops(k)
      PROVE  Len(wire'[j]) = missed'[j] + (IF Waiting(j)' THEN 1 ELSE 0)
  <2>1. k # j
    BY <1>8, <1>t DEF DatabaseDrops, TypeOK
  <2>2. wire'[j] = wire[j] /\ socket[j] = "open" /\ UNCHANGED <<missed, pc, held>>
    BY <1>8, <1>t, <2>1 DEF DatabaseDrops, TypeOK
  <2> QED
    BY <1>n, <2>2 DEF Waiting
<1>9. CASE UNCHANGED vars
  BY <1>9, <1>f DEF vars, Waiting
<1> QED
  BY <1>1, <1>2, <1>3, <1>4, <1>5, <1>6, <1>7, <1>8, <1>9 DEF Next, CallStep

\* A connection that ever missed a read deadline stays one answer late for
\* each missed deadline, until the database drops it or the store is closed:
\* releaseConn puts it back without discarding the answer still to come.
THEOREM LateForEver == Spec => []LateByMissed
<1>1. Init => LateByMissed
  BY DEF Init, LateByMissed, Waiting
<1> QED
  BY <1>1, InitIInv, StepIInv, StepLate, PTL DEF Spec

-----------------------------------------------------------------------------
(* A statement runs on tries only, and has run when success is reported.   *)

\* The lines of a call that the database has not executed yet.
Unanswered(c) ==
  {p \in Conns \X Nat : /\ p[2] > answered[p[1]] /\ p[2] <= Len(wire[p[1]])
                        /\ wire[p[1]][p[2]] = c}

\* The try under way, or the last one, may have been written.
Written(c) == IF pc[c] \in {"read", "release", "ok", "error"} THEN 1 ELSE 0

\* What was executed, and what may still be, was written once per try.
Counted(c) ==
  /\ IsFiniteSet(Unanswered(c))
  /\ executed[c] + Cardinality(Unanswered(c)) <= attempt[c] + Written(c)

\* Fewer lines are unanswered, or as many, if each was unanswered before.
LEMMA FewerUnanswered ==
  ASSUME NEW S, NEW T, IsFiniteSet(T), NEW f \in [S -> T],
         \A p, q \in S : f[p] = f[q] => p = q
  PROVE  /\ IsFiniteSet(S) /\ Cardinality(S) \in Nat /\ Cardinality(T) \in Nat
         /\ Cardinality(S) <= Cardinality(T)
<1>1. f \in Injection(S, T)
  BY DEF Injection, IsInjective
<1> QED
  BY <1>1, FS_Injection, FS_CardinalityType

\* A step that writes and executes nothing, and loses no try.
LEMMA CountedFrame ==
  ASSUME TypeOK, TypeOK', NEW c \in Calls, Counted(c),
         executed'[c] = executed[c], Unanswered(c)' \subseteq Unanswered(c),
         attempt[c] + Written(c) <= attempt'[c] + Written(c)'
  PROVE  Counted(c)'
<1>1. IsFiniteSet(Unanswered(c)') /\ Cardinality(Unanswered(c)') <= Cardinality(Unanswered(c))
      /\ Cardinality(Unanswered(c)') \in Nat /\ Cardinality(Unanswered(c)) \in Nat
  BY FS_Subset, FS_CardinalityType DEF Counted
<1>2. /\ executed[c] \in Nat /\ attempt[c] \in Nat /\ attempt'[c] \in Nat
      /\ Written(c) \in Nat /\ Written(c)' \in Nat
  BY DEF TypeOK, Written
<1> QED
  BY <1>1, <1>2 DEF Counted

LEMMA StepCounted ==
  IInv /\ (\A c \in Calls : Counted(c)) /\ [Next]_vars => \A c \in Calls : Counted(c)'
<1> SUFFICES ASSUME IInv, \A c \in Calls : Counted(c), [Next]_vars, NEW d \in Calls
             PROVE  Counted(d)'
  OBVIOUS
<1>t. TypeOK /\ TypeOK' /\ Counted(d) /\ AnswersWritten
  BY StepIInv DEF IInv
<1>n. /\ executed[d] \in Nat /\ attempt[d] \in Nat /\ attempt'[d] \in Nat
      /\ pc[d] \in Steps /\ pc'[d] \in Steps
      /\ \A k \in Conns : /\ wire[k] \in Seq(Calls) /\ Len(wire[k]) \in Nat
                          /\ answered[k] \in Nat
  BY <1>t DEF TypeOK
\* What a step leaves of the lines and of the tries.
<1>f. ASSUME UNCHANGED <<wire, answered, executed>>,
             \/ pc'[d] = pc[d] /\ attempt'[d] = attempt[d]
             \/ Written(d)' = 1 /\ attempt'[d] = attempt[d]
             \/ Written(d) = 0 /\ Written(d)' = 0 /\ attempt'[d] = attempt[d]
             \/ attempt'[d] = attempt[d] + 1
      PROVE  Counted(d)'
  <2>1. Unanswered(d)' = Unanswered(d)
    BY <1>f DEF Unanswered
  <2>2. attempt[d] + Written(d) <= attempt'[d] + Written(d)'
    BY <1>f, <1>n DEF Written
  <2> QED
    BY <1>f, <1>t, <2>1, <2>2, CountedFrame
<1>1. ASSUME NEW c \in Calls, Exec(c) \/ AcquireConn(c) \/ AcquireNil(c) PROVE Counted(d)'
  <2>1. UNCHANGED <<wire, answered, executed, attempt>>
    BY <1>1 DEF Exec, AcquireConn, AcquireNil, wires
  <2>2. CASE d = c
    BY <1>1, <1>f, <1>t, <2>1, <2>2 DEF Exec, AcquireConn, AcquireNil, Written, TypeOK
  <2>3. CASE d # c
    BY <1>1, <1>f, <1>t, <2>1, <2>3 DEF Exec, AcquireConn, AcquireNil, TypeOK
  <2> QED
    BY <2>2, <2>3
<1>2. ASSUME NEW c \in Calls, NextAttempt(c), UNCHANGED <<wire, answered, executed>>
      PROVE  Counted(d)'
  <2>1. CASE attempt[c] < MaxRetries
    BY <1>2, <1>f, <1>t, <1>n, <2>1 DEF NextAttempt, TypeOK
  <2>2. CASE ~(attempt[c] < MaxRetries)
    BY <1>2, <1>f, <1>t, <2>2 DEF NextAttempt, Written, TypeOK
  <2> QED
    BY <2>1, <2>2
<1>3. ASSUME NEW c \in Calls, AcquireCheck(c) \/ AcquireTimeout(c) PROVE Counted(d)'
  <2>1. UNCHANGED <<wire, answered, executed>>
    BY <1>3 DEF AcquireCheck, AcquireTimeout, wires
  <2>2. CASE NextAttempt(c)
    BY <1>2, <2>1, <2>2
  <2>3. CASE AcquireCheck(c) /\ ~closed
    BY <1>f, <1>t, <2>1, <2>3 DEF AcquireCheck, Written, TypeOK
  <2> QED
    BY <1>3, <2>2, <2>3 DEF AcquireCheck, AcquireTimeout
<1>4. ASSUME NEW c \in Calls, WriteRequest(c) PROVE Counted(d)'
  <2> DEFINE k == held[c]
  <2>k. k \in Conns
    BY <1>4, HolderUsesConn DEF WriteRequest, UsingConn
  <2>0. /\ pc[c] = "write" /\ pc' = [pc EXCEPT ![c] = "read"]
        /\ wire' = [wire EXCEPT ![k] = Append(@, c)]
        /\ UNCHANGED <<attempt, answered, executed>>
    BY <1>4 DEF WriteRequest
  <2>1. /\ wire'[k] = Append(wire[k], c) /\ Len(wire'[k]) = Len(wire[k]) + 1
        /\ wire'[k][Len(wire[k]) + 1] = c
        /\ \A i \in 1 .. Len(wire[k]) : wire'[k][i] = wire[k][i]
        /\ \A j \in Conns \ {k} : wire'[j] = wire[j]
    <3>1. wire'[k] = Append(wire[k], c) /\ \A j \in Conns \ {k} : wire'[j] = wire[j]
      BY <1>t, <2>0, <2>k DEF TypeOK
    <3> QED
      BY <1>n, <2>k, <3>1
  <2>2. ASSUME NEW p \in Unanswered(d)', p # <<k, Len(wire[k]) + 1>>
        PROVE  p \in Unanswered(d)
    <3>1. /\ p \in Conns \X Nat /\ p[2] > answered[p[1]] /\ p[2] <= Len(wire'[p[1]])
          /\ wire'[p[1]][p[2]] = d
      BY <2>0, <2>2 DEF Unanswered
    <3>2. CASE p[1] = k
      <4>1. p[2] # Len(wire[k]) + 1
        BY <2>2, <3>1, <3>2
      <4>2. p[2] \in 1 .. Len(wire[k])
        BY <1>n, <2>1, <2>k, <3>1, <3>2, <4>1
      <4> QED
        BY <2>1, <3>1, <3>2, <4>2 DEF Unanswered
    <3>3. CASE p[1] # k
      BY <2>1, <3>1, <3>3 DEF Unanswered
    <3> QED
      BY <3>2, <3>3
  <2>3. CASE d = c
    <3> DEFINE New == Unanswered(d) \cup {<<k, Len(wire[k]) + 1>>}
    <3>1. /\ IsFiniteSet(New) /\ Cardinality(New) <= Cardinality(Unanswered(d)) + 1
          /\ Cardinality(Unanswered(d)) \in Nat
      <4>1. IsFiniteSet(Unanswered(d))
        BY <1>t DEF Counted
      <4>2. Cardinality(Unanswered(d)) \in Nat
        BY <4>1, FS_CardinalityType
      <4>3. /\ IsFiniteSet(New)
            /\ Cardinality(New) = IF <<k, Len(wire[k]) + 1>> \in Unanswered(d)
                                    THEN Cardinality(Unanswered(d))
                                    ELSE Cardinality(Unanswered(d)) + 1
        BY <4>1, FS_AddElement
      <4> QED
        BY <4>2, <4>3
    <3>2. Unanswered(d)' \subseteq New
      BY <2>2
    <3> HIDE DEF New
    <3>3. /\ IsFiniteSet(Unanswered(d)') /\ Cardinality(Unanswered(d)') <= Cardinality(New)
          /\ Cardinality(New) \in Nat /\ Cardinality(Unanswered(d)') \in Nat
      BY <3>1, <3>2, FS_Subset, FS_CardinalityType
    <3>4. Written(d) = 0 /\ Written(d)' = 1
      BY <1>t, <2>0, <2>3 DEF Written, TypeOK
    <3>5. executed[d] + Cardinality(Unanswered(d)) <= attempt[d] + Written(d)
      BY <1>t DEF Counted
    <3>6. executed[d] + Cardinality(Unanswered(d)') <= attempt[d] + Written(d)'
      BY <1>n, <3>1, <3>3, <3>4, <3>5
    <3> QED
      BY <2>0, <3>3, <3>6 DEF Counted
  <2>4. CASE d # c
    <3>1. <<k, Len(wire[k]) + 1>> \notin Unanswered(d)'
      BY <2>1, <2>4 DEF Unanswered
    <3>2. Unanswered(d)' \subseteq Unanswered(d)
      BY <2>2, <3>1
    <3>3. Written(d)' = Written(d)
      BY <1>t, <2>0, <2>4 DEF Written, TypeOK
    <3>4. executed'[d] = executed[d] /\ attempt[d] + Written(d) <= attempt'[d] + Written(d)'
      BY <1>n, <2>0, <3>3 DEF Written
    <3> QED
      BY <1>t, <3>2, <3>4, CountedFrame
  <2> QED
    BY <2>3, <2>4
<1>5. ASSUME NEW c \in Calls, ReadAnswer(c) PROVE Counted(d)'
  <2> DEFINE k == held[c]
  <2>k. k \in Conns
    BY <1>5, HolderUsesConn DEF ReadAnswer, UsingConn
  <2>0. /\ pc[c] = "read" /\ pc' = [pc EXCEPT ![c] = "release"] /\ answered[k] > 0
        /\ wire' = [wire EXCEPT ![k] = Tail(@)]
        /\ answered' = [answered EXCEPT ![k] = @ - 1]
        /\ UNCHANGED <<attempt, executed>>
    BY <1>5 DEF ReadAnswer
  <2>1. /\ wire'[k] = Tail(wire[k]) /\ answered'[k] = answered[k] - 1
        /\ \A j \in Conns \ {k} : wire'[j] = wire[j] /\ answered'[j] = answered[j]
    BY <1>t, <2>0, <2>k DEF TypeOK
  <2>2. /\ Len(wire'[k]) = Len(wire[k]) - 1
        /\ \A i \in 1 .. Len(wire'[k]) : wire'[k][i] = wire[k][i + 1]
    <3>1. wire[k] # <<>>
      BY <1>t, <1>n, <2>0, <2>k DEF AnswersWritten
    <3> QED
      BY <1>n, <2>k, <2>1, <3>1
  \* The lines of the connection move up by one.
  <2> DEFINE Was(p) == IF p[1] = k THEN <<k, p[2] + 1>> ELSE p
             Before == [p \in Unanswered(d)' |-> Was(p)]
  <2>3. ASSUME NEW p \in Unanswered(d)' PROVE Was(p) \in Unanswered(d)
    <3>1. /\ p \in Conns \X Nat /\ p[2] > answered'[p[1]] /\ p[2] <= Len(wire'[p[1]])
          /\ wire'[p[1]][p[2]] = d
      BY <2>3 DEF Unanswered
    <3>2. CASE p[1] = k
      <4>1. p[2] \in Nat /\ p[2] > answered[k] - 1 /\ p[2] <= Len(wire[k]) - 1
        BY <2>1, <2>2, <3>1, <3>2
      <4>2. /\ p[2] + 1 \in Nat /\ p[2] + 1 > answered[k] /\ p[2] + 1 <= Len(wire[k])
            /\ p[2] \in 1 .. Len(wire'[k])
        BY <1>n, <2>0, <2>2, <2>k, <4>1
      <4>3. wire[k][p[2] + 1] = d
        BY <2>2, <3>1, <3>2, <4>2
      <4> QED
        BY <2>k, <3>2, <4>2, <4>3 DEF Unanswered
    <3>3. CASE p[1] # k
      BY <2>1, <3>1, <3>3 DEF Unanswered
    <3> QED
      BY <3>2, <3>3
  <2>4. ASSUME NEW p \in Unanswered(d)', NEW q \in Unanswered(d)', Was(p) = Was(q)
        PROVE  p = q
    <3>1. p \in Conns \X Nat /\ q \in Conns \X Nat
      BY <2>4 DEF Unanswered
    <3> QED
      BY <2>4, <3>1
  <2>5. /\ IsFiniteSet(Unanswered(d)') /\ Cardinality(Unanswered(d)') \in Nat
        /\ Cardinality(Unanswered(d)) \in Nat
        /\ Cardinality(Unanswered(d)') <= Cardinality(Unanswered(d))
    <3>1. Before \in [Unanswered(d)' -> Unanswered(d)]
      BY <2>3
    <3>2. \A p, q \in Unanswered(d)' : Before[p] = Before[q] => p = q
      BY <2>4
    <3>3. IsFiniteSet(Unanswered(d))
      BY <1>t DEF Counted
    <3> HIDE DEF Before
    <3> QED
      BY <3>1, <3>2, <3>3, FewerUnanswered
  <2>6. Written(d)' = Written(d)
    BY <1>t, <2>0 DEF Written, TypeOK
  <2>7. executed[d] + Cardinality(Unanswered(d)) <= attempt[d] + Written(d)
    BY <1>t DEF Counted
  <2>8. executed[d] + Cardinality(Unanswered(d)') <= attempt[d] + Written(d)'
    <3>1. Written(d) \in Nat
      BY DEF Written
    <3> QED
      BY <1>n, <2>5, <2>6, <2>7, <3>1
  <2> QED
    BY <2>0, <2>5, <2>8 DEF Counted
<1>6. ASSUME NEW c \in Calls, ReadTimeout(c) \/ BrokenSocket(c) PROVE Counted(d)'
  <2>1. UNCHANGED <<wire, answered, executed, attempt>> /\ pc' = [pc EXCEPT ![c] = "release"]
    BY <1>6 DEF ReadTimeout, BrokenSocket, wires
  <2>2. pc'[d] = pc[d] \/ Written(d)' = 1
    BY <1>t, <2>1 DEF Written, TypeOK
  <2> QED
    BY <1>f, <2>1, <2>2
<1>7. ASSUME NEW c \in Calls, Release(c) PROVE Counted(d)'
  <2>1. UNCHANGED <<wire, answered, executed>>
    BY <1>7 DEF Release
  <2>2. CASE failed[c]
    BY <1>2, <1>7, <2>1, <2>2 DEF Release
  <2>3. CASE ~failed[c]
    <3>1. pc' = [pc EXCEPT ![c] = "ok"] /\ UNCHANGED attempt
      BY <1>7, <2>3 DEF Release
    <3>2. pc'[d] = pc[d] \/ Written(d)' = 1
      BY <1>t, <3>1 DEF Written, TypeOK
    <3> QED
      BY <1>f, <2>1, <3>1, <3>2
  <2> QED
    BY <2>2, <2>3
<1>8. ASSUME NEW k \in Conns, DatabaseAnswers(k) PROVE Counted(d)'
  <2> DEFINE i == answered[k] + 1
             e == wire[k][i]
  <2>0. /\ answered' = [answered EXCEPT ![k] = i]
        /\ executed' = [executed EXCEPT ![e] = @ + 1]
        /\ UNCHANGED <<pc, wire, attempt>>
        /\ i \in Nat /\ i > answered[k] /\ i <= Len(wire[k])
    BY <1>8, <1>n DEF DatabaseAnswers
  <2>1. /\ Unanswered(d)' \subseteq Unanswered(d)
        /\ <<k, i>> \notin Unanswered(d)'
    <3>1. answered'[k] = i /\ \A j \in Conns \ {k} : answered'[j] = answered[j]
      BY <1>t, <2>0 DEF TypeOK
    <3>2. ASSUME NEW p \in Unanswered(d)' PROVE p \in Unanswered(d) /\ p # <<k, i>>
      <4>1. /\ p \in Conns \X Nat /\ p[2] > answered'[p[1]] /\ p[2] <= Len(wire[p[1]])
            /\ wire[p[1]][p[2]] = d
        BY <2>0, <3>2 DEF Unanswered
      <4>2. CASE p[1] = k
        BY <1>n, <2>0, <3>1, <4>1, <4>2 DEF Unanswered
      <4>3. CASE p[1] # k
        BY <3>1, <4>1, <4>3 DEF Unanswered
      <4> QED
        BY <4>2, <4>3
    <3> QED
      BY <3>2
  <2>2. CASE d = e
    <3>1. <<k, i>> \in Unanswered(d)
      BY <2>0, <2>2 DEF Unanswered
    <3>2. IsFiniteSet(Unanswered(d))
      BY <1>t DEF Counted
    <3> DEFINE Rest == Unanswered(d) \ {<<k, i>>}
    <3>3. IsFiniteSet(Rest) /\ Cardinality(Rest) = Cardinality(Unanswered(d)) - 1
      BY <3>1, <3>2, FS_RemoveElement
    <3>4. Unanswered(d)' \subseteq Rest
      BY <2>1
    <3> HIDE DEF Rest
    <3>5. /\ IsFiniteSet(Unanswered(d)') /\ Cardinality(Unanswered(d)') <= Cardinality(Rest)
          /\ Cardinality(Unanswered(d)') \in Nat /\ Cardinality(Rest) \in Nat
          /\ Cardinality(Unanswered(d)) \in Nat
      BY <3>2, <3>3, <3>4, FS_Subset, FS_CardinalityType
    <3>6. executed'[d] = executed[d] + 1 /\ Written(d)' = Written(d) /\ Written(d) \in Nat
      BY <1>t, <2>0, <2>2 DEF TypeOK, Written
    <3>7. executed[d] + Cardinality(Unanswered(d)) <= attempt[d] + Written(d)
      BY <1>t DEF Counted
    <3>8. executed'[d] + Cardinality(Unanswered(d)') <= attempt[d] + Written(d)'
      BY <1>n, <3>3, <3>5, <3>6, <3>7
    <3> QED
      BY <2>0, <3>5, <3>8 DEF Counted
  <2>3. CASE d # e
    <3>1. executed'[d] = executed[d]
      BY <1>t, <2>0, <2>3 DEF TypeOK
    <3>2. attempt[d] + Written(d) <= attempt'[d] + Written(d)'
      BY <1>n, <2>0 DEF Written
    <3> QED
      BY <1>t, <2>1, <3>1, <3>2, CountedFrame
  <2> QED
    BY <2>2, <2>3
<1>9. ASSUME NEW k \in Conns, DatabaseDrops(k) PROVE Counted(d)'
  <2>0. /\ wire' = [wire EXCEPT ![k] = <<>>] /\ answered' = [answered EXCEPT ![k] = 0]
        /\ UNCHANGED <<pc, attempt, executed>>
    BY <1>9 DEF DatabaseDrops
  <2>1. ASSUME NEW p \in Unanswered(d)' PROVE p \in Unanswered(d)
    <3>1. /\ p \in Conns \X Nat /\ p[2] > answered'[p[1]] /\ p[2] <= Len(wire'[p[1]])
          /\ wire'[p[1]][p[2]] = d
      BY <2>1 DEF Unanswered
    <3>2. p[1] # k
      BY <1>t, <2>0, <3>1 DEF TypeOK
    <3> QED
      BY <1>t, <2>0, <3>1, <3>2 DEF Unanswered, TypeOK
  <2>2. attempt[d] + Written(d) <= attempt'[d] + Written(d)'
    BY <1>n, <2>0 DEF Written
  <2> QED
    BY <1>t, <2>0, <2>1, <2>2, CountedFrame
<1>10. CASE Close
  BY <1>10, <1>f DEF Close
<1>11. CASE UNCHANGED vars
  BY <1>11, <1>f DEF vars
<1> QED
  BY <1>1, <1>3, <1>4, <1>5, <1>6, <1>7, <1>8, <1>9, <1>10, <1>11 DEF Next, CallStep

\* A connection the database dropped has no answers, and a call that waits for
\* one has written the last line.
Tidy ==
  /\ \A k \in Conns : socket[k] = "dead" => answered[k] = 0
  /\ \A c \in Calls : pc[c] = "read" /\ socket[held[c]] = "open" =>
        Len(wire[held[c]]) > 0 /\ wire[held[c]][Len(wire[held[c]])] = c

LEMMA StepTidy == IInv /\ Tidy /\ [Next]_vars => Tidy'
<1> SUFFICES ASSUME IInv, Tidy, [Next]_vars PROVE Tidy'
  OBVIOUS
<1>t. TypeOK /\ TypeOK' /\ ConnOwned
  BY StepIInv DEF IInv
\* Nothing is written, and nobody begins to read.
<1>f. ASSUME UNCHANGED <<wire, answered>>,
             \A k \in Conns : socket'[k] = socket[k] \/ socket'[k] = "closed",
             \A c \in Calls : pc'[c] = "read" => pc[c] = "read" /\ held'[c] = held[c]
      PROVE  Tidy'
  <2>1. \A c \in Calls : pc'[c] = "read" => held[c] \in Conns
    BY <1>f, HolderUsesConn DEF UsingConn
  <2> QED
    BY <1>f, <2>1 DEF Tidy
<1>1. ASSUME NEW c \in Calls,
             \/ Exec(c) \/ AcquireCheck(c) \/ AcquireConn(c) \/ AcquireNil(c)
             \/ AcquireTimeout(c) \/ ReadTimeout(c) \/ BrokenSocket(c) \/ Release(c)
      PROVE  Tidy'
  <2>1. UNCHANGED <<wire, answered>>
    BY <1>1 DEF Exec, AcquireCheck, AcquireConn, AcquireNil, AcquireTimeout, ReadTimeout,
                BrokenSocket, Release, wires
  <2>2. \A k \in Conns : socket'[k] = socket[k] \/ socket'[k] = "closed"
    BY <1>1, <1>t DEF Exec, AcquireCheck, AcquireConn, AcquireNil, AcquireTimeout,
                      ReadTimeout, BrokenSocket, Release, PutBack, wires, TypeOK
  <2>3. /\ pc'[c] # "read"
        /\ \A d \in Calls \ {c} : pc'[d] = pc[d] /\ held'[d] = held[d]
    BY <1>1, <1>t, NextAttemptFrame
       DEF Exec, AcquireCheck, AcquireConn, AcquireNil, AcquireTimeout, ReadTimeout,
           BrokenSocket, Release, TypeOK
  <2> QED
    BY <1>f, <2>1, <2>2, <2>3
<1>2. ASSUME NEW c \in Calls, WriteRequest(c) PROVE Tidy'
  <2>k. held[c] \in Conns /\ \A d \in Calls : held[d] = held[c] => d = c
    BY <1>2, HolderUsesConn DEF WriteRequest, UsingConn
  <2>0. /\ pc[c] = "write" /\ pc' = [pc EXCEPT ![c] = "read"]
        /\ wire' = [wire EXCEPT ![held[c]] = Append(@, c)]
        /\ UNCHANGED <<held, answered, socket>>
    BY <1>2 DEF WriteRequest
  <2>1. /\ wire'[held[c]] = Append(wire[held[c]], c)
        /\ \A k \in Conns \ {held[c]} : wire'[k] = wire[k]
        /\ wire[held[c]] \in Seq(Calls)
    BY <1>t, <2>0, <2>k DEF TypeOK
  <2>2. /\ Len(wire'[held[c]]) > 0
        /\ wire'[held[c]][Len(wire'[held[c]])] = c
    BY <2>1
  <2>3. ASSUME NEW d \in Calls, d # c, pc'[d] = "read", socket'[held'[d]] = "open"
        PROVE  /\ Len(wire'[held[d]]) > 0
               /\ wire'[held[d]][Len(wire'[held[d]])] = d
    <3>1. pc[d] = "read"
      BY <1>t, <2>0, <2>3 DEF TypeOK
    <3>2. held[d] \in Conns \ {held[c]}
      BY <2>3, <2>k, <3>1, HolderUsesConn DEF UsingConn
    <3> QED
      BY <2>0, <2>1, <2>3, <3>1, <3>2 DEF Tidy
  <2> QED
    BY <2>0, <2>2, <2>3 DEF Tidy
<1>3. ASSUME NEW c \in Calls, ReadAnswer(c) PROVE Tidy'
  <2>k. held[c] \in Conns /\ \A d \in Calls : held[d] = held[c] => d = c
    BY <1>3, HolderUsesConn DEF ReadAnswer, UsingConn
  <2>0. /\ pc[c] = "read" /\ pc' = [pc EXCEPT ![c] = "release"] /\ answered[held[c]] > 0
        /\ wire' = [wire EXCEPT ![held[c]] = Tail(@)]
        /\ answered' = [answered EXCEPT ![held[c]] = @ - 1]
        /\ UNCHANGED <<held, socket>>
    BY <1>3 DEF ReadAnswer
  <2>1. \A k \in Conns \ {held[c]} : wire'[k] = wire[k] /\ answered'[k] = answered[k]
    BY <1>t, <2>0, <2>k DEF TypeOK
  <2>2. ASSUME NEW k \in Conns, socket'[k] = "dead" PROVE answered'[k] = 0
    BY <1>t, <2>0, <2>1, <2>2 DEF Tidy, TypeOK
  <2>3. ASSUME NEW d \in Calls, pc'[d] = "read", socket'[held'[d]] = "open"
        PROVE  /\ Len(wire'[held[d]]) > 0
               /\ wire'[held[d]][Len(wire'[held[d]])] = d
    <3>1. d # c /\ pc[d] = "read"
      BY <1>t, <2>0, <2>3 DEF TypeOK
    <3>2. held[d] \in Conns \ {held[c]}
      BY <2>k, <3>1, HolderUsesConn DEF UsingConn
    <3> QED
      BY <2>0, <2>1, <2>3, <3>1, <3>2 DEF Tidy
  <2> QED
    BY <2>0, <2>2, <2>3 DEF Tidy
<1>4. CASE Close
  BY <1>4, <1>f, <1>t DEF Close, TypeOK
<1>5. ASSUME NEW k \in Conns, DatabaseAnswers(k) PROVE Tidy'
  <2>1. /\ socket[k] = "open" /\ UNCHANGED <<socket, wire, pc, held>>
        /\ \A j \in Conns \ {k} : answered'[j] = answered[j]
    BY <1>5, <1>t DEF DatabaseAnswers, TypeOK
  <2> QED
    BY <2>1 DEF Tidy
<1>6. ASSUME NEW k \in Conns, DatabaseDrops(k) PROVE Tidy'
  <2>1. /\ socket'[k] = "dead" /\ answered'[k] = 0 /\ UNCHANGED <<pc, held>>
        /\ \A j \in Conns \ {k} : /\ answered'[j] = answered[j] /\ wire'[j] = wire[j]
                                  /\ socket'[j] = socket[j]
    BY <1>6, <1>t DEF DatabaseDrops, TypeOK
  <2>2. \A c \in Calls : pc[c] = "read" => held[c] \in Conns
    BY HolderUsesConn DEF UsingConn
  <2> QED
    BY <2>1, <2>2 DEF Tidy
<1>7. CASE UNCHANGED vars
  BY <1>7 DEF vars, Tidy
<1> QED
  BY <1>1, <1>2, <1>3, <1>4, <1>5, <1>6, <1>7 DEF Next, CallStep

\* Nothing the database has answered is left to be executed.
AnsweredRan == \A k \in Conns : \A i \in 1 .. answered[k] : executed[wire[k][i]] >= 1

\* As long as no deadline was missed, a call that got an answer got its own.
Rewarded ==
  (\A k \in Conns : missed[k] = 0) =>
     \A c \in Calls : pc[c] = "ok" \/ (pc[c] = "release" /\ ~failed[c]) => executed[c] >= 1

LEMMA StepAnsweredRan == IInv /\ AnsweredRan /\ [Next]_vars => AnsweredRan'
<1> SUFFICES ASSUME IInv, AnsweredRan, [Next]_vars PROVE AnsweredRan'
  OBVIOUS
<1>t. TypeOK /\ AnswersWritten
  BY DEF IInv
<1>n. \A k \in Conns : /\ wire[k] \in Seq(Calls) /\ Len(wire[k]) \in Nat
                       /\ answered[k] \in Nat /\ answered[k] <= Len(wire[k])
  BY <1>t DEF TypeOK, AnswersWritten
<1>1. ASSUME NEW c \in Calls,
             \/ Exec(c) \/ AcquireCheck(c) \/ AcquireConn(c) \/ AcquireNil(c)
             \/ AcquireTimeout(c) \/ ReadTimeout(c) \/ BrokenSocket(c) \/ Release(c)
      PROVE  AnsweredRan'
  <2>1. UNCHANGED <<wire, answered, executed>>
    BY <1>1 DEF Exec, AcquireCheck, AcquireConn, AcquireNil, AcquireTimeout, ReadTimeout,
                BrokenSocket, Release, wires
  <2> QED
    BY <2>1 DEF AnsweredRan
<1>2. ASSUME NEW c \in Calls, WriteRequest(c) PROVE AnsweredRan'
  <2>k. held[c] \in Conns
    BY <1>2, HolderUsesConn DEF WriteRequest, UsingConn
  <2>1. /\ wire'[held[c]] = Append(wire[held[c]], c)
        /\ \A k \in Conns \ {held[c]} : wire'[k] = wire[k]
        /\ UNCHANGED <<answered, executed>>
    BY <1>2, <1>t, <2>k DEF WriteRequest, TypeOK
  <2>2. ASSUME NEW k \in Conns, NEW i \in 1 .. answered[k]
        PROVE  wire'[k][i] = wire[k][i]
    <3>1. i \in 1 .. Len(wire[k]) /\ wire[k] \in Seq(Calls)
      BY <1>n, <2>2
    <3>2. Append(wire[k], c)[i] = wire[k][i]
      BY <3>1
    <3> QED
      BY <2>1, <3>2
  <2> QED
    BY <2>1, <2>2 DEF AnsweredRan
<1>3. ASSUME NEW c \in Calls, ReadAnswer(c) PROVE AnsweredRan'
  <2>k. held[c] \in Conns /\ answered[held[c]] > 0
    BY <1>3, HolderUsesConn DEF ReadAnswer, UsingConn
  <2>1. /\ wire'[held[c]] = Tail(wire[held[c]])
        /\ answered'[held[c]] = answered[held[c]] - 1
        /\ \A k \in Conns \ {held[c]} : wire'[k] = wire[k] /\ answered'[k] = answered[k]
        /\ UNCHANGED executed
    BY <1>3, <1>t, <2>k DEF ReadAnswer, TypeOK
  <2>2. ASSUME NEW i \in 1 .. answered[held[c]] - 1
        PROVE  /\ wire'[held[c]][i] = wire[held[c]][i + 1]
               /\ i + 1 \in 1 .. answered[held[c]]
    <3>1. i \in 1 .. Len(wire[held[c]]) - 1 /\ wire[held[c]] # <<>>
      BY <1>n, <2>2, <2>k
    <3> QED
      BY <1>n, <2>1, <2>2, <2>k, <3>1
  <2>3. ASSUME NEW k \in Conns, NEW i \in 1 .. answered'[k]
        PROVE  executed'[wire'[k][i]] >= 1
    <3>1. CASE k = held[c]
      <4>1. i \in 1 .. answered[held[c]] - 1
        BY <2>1, <2>3, <3>1
      <4>2. wire'[k][i] = wire[held[c]][i + 1] /\ i + 1 \in 1 .. answered[held[c]]
        BY <2>2, <3>1, <4>1
      <4> QED
        BY <2>1, <2>k, <4>2 DEF AnsweredRan
    <3>2. CASE k # held[c]
      BY <2>1, <2>3, <3>2 DEF AnsweredRan
    <3> QED
      BY <3>1, <3>2
  <2> QED
    BY <2>3 DEF AnsweredRan
<1>4. CASE Close
  BY <1>4 DEF Close, AnsweredRan
<1>5. ASSUME NEW k \in Conns, DatabaseAnswers(k) PROVE AnsweredRan'
  <2> DEFINE e == wire[k][answered[k] + 1]
  <2>0. /\ answered' = [answered EXCEPT ![k] = @ + 1]
        /\ executed' = [executed EXCEPT ![e] = @ + 1]
        /\ UNCHANGED wire /\ answered[k] + 1 \in 1 .. Len(wire[k])
    BY <1>5, <1>n DEF DatabaseAnswers
  <2>1. e \in Calls
    BY <1>n, <2>0
  <2>2. executed'[e] >= 1 /\ \A d \in Calls : executed[d] >= 1 => executed'[d] >= 1
    BY <1>t, <2>0, <2>1 DEF TypeOK
  <2>3. ASSUME NEW j \in Conns, NEW i \in 1 .. answered'[j]
        PROVE  executed'[wire'[j][i]] >= 1
    <3>1. CASE j = k /\ i = answered[k] + 1
      BY <2>0, <2>2, <3>1
    <3>2. CASE ~(j = k /\ i = answered[k] + 1)
      <4>1. i \in 1 .. answered[j]
        BY <1>t, <1>n, <2>0, <2>3, <3>2 DEF TypeOK
      <4>2. wire[j][i] \in Calls
        BY <1>n, <4>1
      <4> QED
        BY <2>0, <2>2, <4>1, <4>2 DEF AnsweredRan
    <3> QED
      BY <3>1, <3>2
  <2> QED
    BY <2>3 DEF AnsweredRan
<1>6. ASSUME NEW k \in Conns, DatabaseDrops(k) PROVE AnsweredRan'
  <2>1. /\ answered'[k] = 0 /\ UNCHANGED executed
        /\ \A j \in Conns \ {k} : answered'[j] = answered[j] /\ wire'[j] = wire[j]
    BY <1>6, <1>t DEF DatabaseDrops, TypeOK
  <2> QED
    BY <2>1 DEF AnsweredRan
<1>7. CASE UNCHANGED vars
  BY <1>7 DEF vars, AnsweredRan
<1> QED
  BY <1>1, <1>2, <1>3, <1>4, <1>5, <1>6, <1>7 DEF Next, CallStep

LEMMA StepRewarded ==
  IInv /\ LateByMissed /\ Tidy /\ AnsweredRan /\ Rewarded /\ [Next]_vars => Rewarded'
<1> SUFFICES ASSUME IInv, LateByMissed, Tidy, AnsweredRan, Rewarded, [Next]_vars,
                    \A k \in Conns : missed'[k] = 0,
                    NEW d \in Calls, pc'[d] = "ok" \/ (pc'[d] = "release" /\ ~failed'[d])
             PROVE  executed'[d] >= 1
  BY DEF Rewarded
<1>t. TypeOK /\ TypeOK'
  BY StepIInv DEF IInv
<1>m. \A k \in Conns : missed[k] = 0
  <2>1. CASE missed' = missed
    BY <2>1
  <2>2. ASSUME NEW c \in Calls, ReadTimeout(c) PROVE \A k \in Conns : missed[k] = 0
    <3>1. held[c] \in Conns
      BY <2>2, HolderUsesConn DEF ReadTimeout, UsingConn
    <3>2. missed'[held[c]] = missed[held[c]] + 1 /\ missed[held[c]] \in Nat
      BY <1>t, <2>2, <3>1 DEF ReadTimeout, TypeOK
    <3> QED
      BY <3>1, <3>2
  <2> QED
    BY <2>1, <2>2 DEF Next, CallStep, Exec, AcquireCheck, AcquireConn, AcquireNil,
       AcquireTimeout, WriteRequest, ReadAnswer, BrokenSocket, Release, Close,
       DatabaseAnswers, DatabaseDrops, wires, vars
<1>r. \A c \in Calls : pc[c] = "ok" \/ (pc[c] = "release" /\ ~failed[c]) => executed[c] >= 1
  BY <1>m DEF Rewarded
\* The statement of a call that was rewarded before stays executed.
<1>f. ASSUME executed'[d] = executed[d], pc'[d] = pc[d], failed'[d] = failed[d]
      PROVE  executed'[d] >= 1
  BY <1>f, <1>r
<1>1. ASSUME NEW c \in Calls,
             \/ Exec(c) \/ AcquireCheck(c) \/ AcquireConn(c) \/ AcquireNil(c)
             \/ AcquireTimeout(c) \/ WriteRequest(c) \/ ReadTimeout(c) \/ BrokenSocket(c)
      PROVE  executed'[d] >= 1
  <2>1. /\ UNCHANGED executed
        /\ pc'[c] # "ok" /\ (pc'[c] = "release" => failed'[c])
        /\ \A b \in Calls \ {c} : pc'[b] = pc[b] /\ failed'[b] = failed[b]
    <3>1. CASE AcquireCheck(c)
      <4>1. CASE closed
        BY <1>t, <3>1, <4>1, NextAttemptFrame DEF AcquireCheck, wires
      <4>2. CASE ~closed
        BY <1>t, <3>1, <4>2 DEF AcquireCheck, wires, TypeOK
      <4> QED
        BY <4>1, <4>2
    <3>2. CASE AcquireTimeout(c)
      BY <1>t, <3>2, NextAttemptFrame DEF AcquireTimeout, wires
    <3>3. CASE Exec(c) \/ AcquireConn(c) \/ AcquireNil(c) \/ WriteRequest(c)
      BY <1>t, <3>3 DEF Exec, AcquireConn, AcquireNil, WriteRequest, wires, TypeOK
    <3>4. CASE ReadTimeout(c) \/ BrokenSocket(c)
      BY <1>t, <3>4 DEF ReadTimeout, BrokenSocket, wires, TypeOK
    <3> QED
      BY <1>1, <3>1, <3>2, <3>3, <3>4
  <2> QED
    BY <1>f, <2>1
<1>2. ASSUME NEW c \in Calls, ReadAnswer(c) PROVE executed'[d] >= 1
  <2>k. /\ held[c] \in Conns /\ socket[held[c]] # "closed"
    BY <1>2, HolderUsesConn DEF ReadAnswer, UsingConn
  <2>0. /\ pc[c] = "read" /\ answered[held[c]] > 0 /\ UNCHANGED executed
        /\ \A b \in Calls \ {c} : pc'[b] = pc[b] /\ failed'[b] = failed[b]
    BY <1>2, <1>t DEF ReadAnswer, TypeOK
  <2>1. CASE d # c
    BY <1>f, <2>0, <2>1
  <2>2. CASE d = c
    <3>1. socket[held[c]] = "open"
      BY <1>t, <2>0, <2>k DEF Tidy, TypeOK
    <3>w. Waiting(held[c])
      BY <2>0 DEF Waiting
    <3>2. Len(wire[held[c]]) = 1
      <4>1. Len(wire[held[c]]) = missed[held[c]] + (IF Waiting(held[c]) THEN 1 ELSE 0)
        BY <2>k, <3>1, Zenon DEF LateByMissed
      <4>2. (IF Waiting(held[c]) THEN 1 ELSE 0) = 1
        BY <3>w, Zenon
      <4> QED
        BY <1>m, <2>k, <4>1, <4>2
    <3>3. wire[held[c]][1] = c
      BY <2>0, <3>1, <3>2 DEF Tidy
    <3>4. 1 \in 1 .. answered[held[c]]
      BY <1>t, <2>0, <2>k DEF TypeOK
    <3> QED
      BY <2>0, <2>2, <2>k, <3>3, <3>4 DEF AnsweredRan
  <2> QED
    BY <2>1, <2>2
<1>3. ASSUME NEW c \in Calls, Release(c) PROVE executed'[d] >= 1
  <2>1. CASE d = c
    <3>1. ~failed[c] /\ pc[c] = "release" /\ UNCHANGED executed
      BY <1>3, <1>t, <2>1, NextAttemptFrame DEF Release, TypeOK
    <3> QED
      BY <1>r, <2>1, <3>1
  <2>2. CASE d # c
    <3>1. executed'[d] = executed[d] /\ pc'[d] = pc[d] /\ failed'[d] = failed[d]
      BY <1>3, <1>t, <2>2, NextAttemptFrame DEF Release, TypeOK
    <3> QED
      BY <1>f, <3>1
  <2> QED
    BY <2>1, <2>2
<1>4. CASE Close
  BY <1>4, <1>f DEF Close
<1>5. ASSUME NEW k \in Conns, DatabaseAnswers(k) PROVE executed'[d] >= 1
  <2>1. executed[d] >= 1
    BY <1>5, <1>r DEF DatabaseAnswers
  <2> QED
    BY <1>5, <1>t, <2>1 DEF DatabaseAnswers, TypeOK
<1>6. ASSUME NEW k \in Conns, DatabaseDrops(k) PROVE executed'[d] >= 1
  BY <1>6, <1>f DEF DatabaseDrops
<1>7. CASE UNCHANGED vars
  BY <1>7, <1>f DEF vars
<1> QED
  BY <1>1, <1>2, <1>3, <1>4, <1>5, <1>6, <1>7 DEF Next, CallStep

\* exec has executed a statement when it reports success, unless a deadline was
\* missed on some connection, and never more often than it has tried.
THEOREM RunsOnTries == Spec => []ExecutedOnTries
<1> DEFINE Inv == /\ IInv /\ LateByMissed /\ Tidy /\ AnsweredRan /\ Rewarded
                  /\ \A c \in Calls : Counted(c)
<1>1. Init => Inv
  <2> SUFFICES ASSUME Init PROVE Inv
    OBVIOUS
  <2>1. \A c \in Calls : Unanswered(c) = {}
    BY DEF Init, Unanswered
  <2>2. ASSUME NEW c \in Calls PROVE Counted(c)
    <3>1. IsFiniteSet({}) /\ Cardinality({}) = 0
      BY FS_EmptySet
    <3>2. executed[c] = 0 /\ attempt[c] = 0 /\ Written(c) = 0
      BY DEF Init, Written
    <3> QED
      BY <2>1, <3>1, <3>2 DEF Counted
  <2> QED
    BY <2>2, InitIInv DEF Init, LateByMissed, Waiting, Tidy, AnsweredRan, Rewarded
<1>2. Inv /\ [Next]_vars => Inv'
  BY StepIInv, StepLate, StepTidy, StepAnsweredRan, StepRewarded, StepCounted
<1>3. Inv => ExecutedOnTries
  <2> SUFFICES ASSUME Inv, NEW c \in Calls
               PROVE  /\ executed[c] <= attempt[c] + 1
                      /\ pc[c] = "ok" /\ (\A k \in Conns : missed[k] = 0) => executed[c] >= 1
    BY DEF ExecutedOnTries
  <2>1. /\ IsFiniteSet(Unanswered(c))
        /\ executed[c] + Cardinality(Unanswered(c)) <= attempt[c] + Written(c)
    BY DEF Counted
  <2>2. Cardinality(Unanswered(c)) \in Nat
    BY <2>1, FS_CardinalityType
  <2>3. executed[c] \in Nat /\ attempt[c] \in Nat /\ Written(c) \in {0, 1}
    BY DEF IInv, TypeOK, Written
  <2>4. executed[c] <= attempt[c] + 1
    BY <2>1, <2>2, <2>3
  <2> QED
    BY <2>4 DEF Rewarded
<1> QED
  BY <1>1, <1>2, <1>3, PTL DEF Spec
=============================================================================
