----------------------------- MODULE StoreClient -----------------------------
(***************************************************************************)
(* The store's connection pool and its retrying exec (pkg/store/store.go). *)
(* Each member of Calls is one call of exec, made by some goroutine: it    *)
(* takes a connection from the pool, writes one JSON line, waits for one   *)
(* JSON line and puts the connection back, up to MaxRetries + 1 times.     *)
(* Requests and answers carry no identifier, so the only thing that pairs  *)
(* them is their order on the connection.                                  *)
(***************************************************************************)
EXTENDS Naturals, Sequences, FiniteSets

CONSTANTS Calls,       \* the calls of exec
          Conns,       \* the connections Connect opened (poolSize of them)
          MaxRetries,  \* s.maxRetries
          NoConn       \* no connection

ASSUME PoolAssumption == IsFiniteSet(Conns) /\ NoConn \notin Conns
ASSUME RetriesAssumption == MaxRetries \in Nat

VARIABLES closed,    \* s.closed; the channel s.pool is closed with it
          pool,      \* the connections in the channel s.pool
          pc,        \* where each call is
          held,      \* the connection each call has taken
          attempt,   \* the loop counter of each call
          failed,    \* the attempt under way ended in an error
          socket,    \* each connection's socket
          wire,      \* statements written to a connection whose answer is unread
          answered,  \* how many of those the database has executed and answered
          executed,  \* history: times the database executed a call's statement
          answer,    \* history: whose statement the answer a call was given is for
          missed     \* history: deadlines missed while reading from a connection

vars == <<closed, pool, pc, held, attempt, failed, socket, wire, answered,
          executed, answer, missed>>
wires == <<socket, wire, answered, executed, missed>>

Steps == {"idle", "acquire", "receive", "write", "read", "release",
          "ok", "error", "panic"}
NoCall == "none"

-----------------------------------------------------------------------------
(* Connect: every connection is open and in the pool. *)
Init ==
  /\ closed = FALSE
  /\ pool = Conns
  /\ pc = [c \in Calls |-> "idle"]
  /\ held = [c \in Calls |-> NoConn]
  /\ attempt = [c \in Calls |-> 0]
  /\ failed = [c \in Calls |-> FALSE]
  /\ socket = [k \in Conns |-> "open"]
  /\ wire = [k \in Conns |-> <<>>]
  /\ answered = [k \in Conns |-> 0]
  /\ executed = [c \in Calls |-> 0]
  /\ answer = [c \in Calls |-> NoCall]
  /\ missed = [k \in Conns |-> 0]

Exec(c) ==
  /\ pc[c] = "idle"
  /\ pc' = [pc EXCEPT ![c] = "acquire"]
  /\ UNCHANGED <<closed, pool, held, attempt, failed, wires, answer>>

\* The end of one attempt: exec returns, or sleeps and tries again.
NextAttempt(c) ==
  IF attempt[c] < MaxRetries
    THEN /\ attempt' = [attempt EXCEPT ![c] = @ + 1]
         /\ pc' = [pc EXCEPT ![c] = "acquire"]
    ELSE /\ pc' = [pc EXCEPT ![c] = "error"]
         /\ UNCHANGED attempt

-----------------------------------------------------------------------------
(* acquireConn: the closed flag under s.mu, then the channel without it. *)
\* Mutant: a closed store is waited for instead of failing the attempt.
AcquireCheckWaits(c) ==
  /\ pc[c] = "acquire" /\ ~closed
  /\ pc' = [pc EXCEPT ![c] = "receive"]
  /\ UNCHANGED <<closed, pool, held, attempt, failed, wires, answer>>

AcquireCheck(c) ==
  /\ pc[c] = "acquire"
  /\ IF closed
       THEN NextAttempt(c)
       ELSE pc' = [pc EXCEPT ![c] = "receive"] /\ UNCHANGED attempt
  /\ UNCHANGED <<closed, pool, held, failed, wires, answer>>

AcquireConn(c) ==
  /\ pc[c] = "receive"
  /\ \E k \in pool :
       /\ pool' = pool \ {k}
       /\ held' = [held EXCEPT ![c] = k]
  /\ pc' = [pc EXCEPT ![c] = "write"]
  /\ UNCHANGED <<closed, attempt, failed, wires, answer>>

\* A receive from the closed and drained channel yields a nil connection,
\* whose mutex execWithConn then dereferences.
AcquireNil(c) ==
  /\ pc[c] = "receive" /\ closed /\ pool = {}
  /\ pc' = [pc EXCEPT ![c] = "panic"]
  /\ UNCHANGED <<closed, pool, held, attempt, failed, wires, answer>>

\* "connection pool exhausted"
AcquireTimeout(c) ==
  /\ pc[c] = "receive" /\ ~closed /\ pool = {}
  /\ NextAttempt(c)
  /\ UNCHANGED <<closed, pool, held, failed, wires, answer>>

-----------------------------------------------------------------------------
(* execWithConn *)
\* Mutant: the line is not flushed to the socket.
WriteRequestUnflushed(c) ==
  /\ pc[c] = "write" /\ socket[held[c]] = "open"
  /\ pc' = [pc EXCEPT ![c] = "read"]
  /\ UNCHANGED <<closed, pool, held, attempt, failed, wires, answer>>

WriteRequest(c) ==
  LET k == held[c] IN
  /\ pc[c] = "write" /\ socket[k] = "open"
  /\ wire' = [wire EXCEPT ![k] = Append(@, c)]
  /\ pc' = [pc EXCEPT ![c] = "read"]
  /\ UNCHANGED <<closed, pool, held, attempt, failed, socket, answered, executed,
                 answer, missed>>

\* Mutant: an answer is read without being consumed.
ReadAnswerPeeks(c) ==
  LET k == held[c] IN
  /\ pc[c] = "read" /\ answered[k] > 0
  /\ answer' = [answer EXCEPT ![c] = Head(wire[k])]
  /\ \E ok \in BOOLEAN : failed' = [failed EXCEPT ![c] = ~ok]
  /\ pc' = [pc EXCEPT ![c] = "release"]
  /\ UNCHANGED <<closed, pool, held, attempt, wires>>

\* One line of the connection, an error status or an unreadable line included.
ReadAnswer(c) ==
  LET k == held[c] IN
  /\ pc[c] = "read" /\ answered[k] > 0
  /\ answer' = [answer EXCEPT ![c] = Head(wire[k])]
  /\ wire' = [wire EXCEPT ![k] = Tail(@)]
  /\ answered' = [answered EXCEPT ![k] = @ - 1]
  /\ \E ok \in BOOLEAN : failed' = [failed EXCEPT ![c] = ~ok]
  /\ pc' = [pc EXCEPT ![c] = "release"]
  /\ UNCHANGED <<closed, pool, held, attempt, socket, executed, missed>>

\* The deadline passes first: the answer, when it comes, stays on the wire.
ReadTimeout(c) ==
  LET k == held[c] IN
  /\ pc[c] = "read" /\ socket[k] = "open" /\ answered[k] = 0
  /\ missed' = [missed EXCEPT ![k] = @ + 1]
  /\ failed' = [failed EXCEPT ![c] = TRUE]
  /\ pc' = [pc EXCEPT ![c] = "release"]
  /\ UNCHANGED <<closed, pool, held, attempt, socket, wire, answered, executed, answer>>

\* Writing to, or reading from, a socket the peer has closed.
BrokenSocket(c) ==
  /\ pc[c] \in {"write", "read"} /\ socket[held[c]] = "dead"
  /\ failed' = [failed EXCEPT ![c] = TRUE]
  /\ pc' = [pc EXCEPT ![c] = "release"]
  /\ UNCHANGED <<closed, pool, held, attempt, wires, answer>>

-----------------------------------------------------------------------------
(* releaseConn, under s.mu, and what exec does with the attempt's outcome. *)

\* Mutant: the closed flag is not looked at again.
PutBackAlways(k) ==
  /\ pool' = pool \cup {k}
  /\ UNCHANGED socket

PutBack(k) ==
  IF closed
    THEN /\ socket' = [socket EXCEPT ![k] = "closed"]
         /\ UNCHANGED pool
    ELSE /\ pool' = pool \cup {k}
         /\ UNCHANGED socket

\* Mutant: the connection of a failed attempt is not put back.
ReleaseOnSuccessOnly(c) ==
  /\ pc[c] = "release"
  /\ IF failed[c] THEN UNCHANGED <<pool, socket>> ELSE PutBack(held[c])
  /\ held' = [held EXCEPT ![c] = NoConn]
  /\ IF failed[c]
       THEN NextAttempt(c)
       ELSE pc' = [pc EXCEPT ![c] = "ok"] /\ UNCHANGED attempt
  /\ failed' = [failed EXCEPT ![c] = FALSE]
  /\ UNCHANGED <<closed, wire, answered, executed, answer, missed>>

Release(c) ==
  /\ pc[c] = "release"
  /\ PutBack(held[c])
  /\ held' = [held EXCEPT ![c] = NoConn]
  /\ IF failed[c]
       THEN NextAttempt(c)
       ELSE pc' = [pc EXCEPT ![c] = "ok"] /\ UNCHANGED attempt
  /\ failed' = [failed EXCEPT ![c] = FALSE]
  /\ UNCHANGED <<closed, wire, answered, executed, answer, missed>>

\* Close: under s.mu, the channel is closed and drained.
Close ==
  /\ ~closed
  /\ closed' = TRUE
  /\ socket' = [k \in Conns |-> IF k \in pool THEN "closed" ELSE socket[k]]
  /\ pool' = {}
  /\ UNCHANGED <<pc, held, attempt, failed, wire, answered, executed, answer, missed>>

-----------------------------------------------------------------------------
(* The database: it executes the lines of a connection in order and answers *)
(* each with one line; it may also drop a connection at any time.           *)
DatabaseAnswers(k) ==
  /\ socket[k] = "open" /\ answered[k] < Len(wire[k])
  /\ answered' = [answered EXCEPT ![k] = @ + 1]
  /\ executed' = [executed EXCEPT ![wire[k][answered[k] + 1]] = @ + 1]
  /\ UNCHANGED <<closed, pool, pc, held, attempt, failed, socket, wire, answer, missed>>

DatabaseDrops(k) ==
  /\ socket[k] = "open"
  /\ socket' = [socket EXCEPT ![k] = "dead"]
  /\ wire' = [wire EXCEPT ![k] = <<>>]
  /\ answered' = [answered EXCEPT ![k] = 0]
  /\ UNCHANGED <<closed, pool, pc, held, attempt, failed, executed, answer, missed>>

CallStep(c) ==
  \/ AcquireCheck(c) \/ AcquireConn(c) \/ AcquireNil(c) \/ AcquireTimeout(c)
  \/ WriteRequest(c) \/ ReadAnswer(c) \/ ReadTimeout(c) \/ BrokenSocket(c)
  \/ Release(c)

Next ==
  \/ \E c \in Calls : Exec(c) \/ CallStep(c)
  \/ \E k \in Conns : DatabaseAnswers(k) \/ DatabaseDrops(k)
  \/ Close

\* A goroutine that can go on does: its waits end by a deadline at the latest.
\* Nothing is assumed of the database.
Fairness == \A c \in Calls : WF_vars(CallStep(c))

Spec == Init /\ [][Next]_vars
FairSpec == Spec /\ Fairness

-----------------------------------------------------------------------------
TypeOK ==
  /\ closed \in BOOLEAN
  /\ pool \in SUBSET Conns
  /\ pc \in [Calls -> Steps]
  /\ held \in [Calls -> Conns \cup {NoConn}]
  /\ attempt \in [Calls -> 0 .. MaxRetries]
  /\ failed \in [Calls -> BOOLEAN]
  /\ socket \in [Conns -> {"open", "dead", "closed"}]
  /\ wire \in [Conns -> Seq(Calls)]
  /\ answered \in [Conns -> Nat]
  /\ executed \in [Calls -> Nat]
  /\ answer \in [Calls -> Calls \cup {NoCall}]
  /\ missed \in [Conns -> Nat]

UsingConn == {"write", "read", "release"}

\* A connection is in the pool, with one call, or closed, never in two of these
\* places and never lost: two calls cannot interleave their lines on it and a
\* failed attempt does not shrink the pool (acquireConn, releaseConn, Close).
ConnOwned ==
  /\ \A c \in Calls : pc[c] \in UsingConn <=> held[c] # NoConn
  /\ \A c, d \in Calls : held[c] = held[d] /\ held[c] # NoConn => c = d
  /\ \A c \in Calls : held[c] \notin pool
  /\ \A k \in Conns : socket[k] = "closed"
                        <=> k \notin pool /\ \A c \in Calls : held[c] # k

\* Once a deadline is missed the connection is one answer late for ever: what
\* stays unread on a live connection is one line per missed deadline, and one
\* more while its holder waits for its own.
Waiting(k) == \E c \in Calls : held[c] = k /\ pc[c] = "read"
LateByMissed ==
  \A k \in Conns : socket[k] = "open" =>
    /\ Len(wire[k]) = missed[k] + (IF Waiting(k) THEN 1 ELSE 0)
    /\ answered[k] <= Len(wire[k])

\* exec runs a statement at least once when it reports success over
\* connections that met their deadlines, and never more often than it tries.
ExecutedOnTries ==
  \A c \in Calls :
    /\ executed[c] <= attempt[c] + 1
    /\ pc[c] = "ok" /\ (\A k \in Conns : missed[k] = 0) => executed[c] >= 1

\* Every call comes to an end, by an answer, by an error after the last retry
\* or by the nil connection of a pool closed under it.
CallsEnd ==
  \A c \in Calls : pc[c] = "acquire" ~> pc[c] \in {"ok", "error", "panic"}

\* "Close shuts down all connections": those in use follow when they are
\* released.
CloseCompletes == closed ~> \A k \in Conns : socket[k] = "closed"

\* "queryOne executes a query that returns a single row": the answer a call is
\* given is the answer to its own statement.
OwnAnswer == \A c \in Calls : answer[c] \in {c, NoCall}
=============================================================================
