------------------------------- MODULE KvPool -------------------------------
(***************************************************************************)
(* The connections of the key-value client (pkg/store/vedadb.go): Connect  *)
(* fills a channel with connections, every request takes one for each of   *)
(* its attempts and puts it back, whatever became of the attempt, a        *)
(* goroutine pings the database, and Close closes the channel.             *)
(*                                                                         *)
(* What an attempt returns is left open; the order of the channel is not   *)
(* followed.                                                               *)
(***************************************************************************)
EXTENDS Naturals

CONSTANTS
    Conn,        \* connections; Connect dials all of them
    Call,        \* requests of the client's users
    Pinger,      \* the request of Connect and of the health checker, not in Call
    maxRetries,
    MaxRequests, \* bound on requests
    None

Goroutine == Call \cup {Pinger}

VARIABLES
    phase,     \* Connect: "dial", "ping", "connected" or "failed"
    link,      \* link[x]: connection x: "none", "open" or "closed"
    pool,      \* connections in the channel
    drained,   \* Close: "no", "flag", "drain" or "done"
    closed,    \* the flag
    healthy,   \* healthStatus
    checking,  \* the health checker runs
    caller,    \* caller[c]: [at, conn, attempt]
    requests,  \* requests so far
    crashed    \* a goroutine has panicked

vars == <<phase, link, pool, drained, closed, healthy, checking, caller, requests, crashed>>

AtRest == [at |-> "idle", conn |-> None, attempt |-> 0]

Init ==
    /\ phase = "dial"
    /\ link = [x \in Conn |-> "none"] /\ pool = {}
    /\ drained = "no" /\ closed = FALSE
    /\ healthy = FALSE /\ checking = FALSE
    /\ caller = [c \in Goroutine |-> AtRest]
    /\ requests = 0
    /\ crashed = FALSE

Goes(c, at) == caller' = [caller EXCEPT ![c].at = at]

-----------------------------------------------------------------------------
(* Connect                                                                 *)

\* createConnection; one that fails ends Connect, and those before it stay.
\* After the last, Connect pings.
Dial ==
    /\ phase = "dial"
    /\ \/ \E x \in Conn :
             /\ link[x] = "none"
             /\ link' = [link EXCEPT ![x] = "open"]
             /\ IF drained \in {"no", "flag"} THEN pool' = pool \cup {x} /\ UNCHANGED crashed
                                              ELSE crashed' = TRUE /\ UNCHANGED pool
             /\ UNCHANGED phase
       \/ /\ \E x \in Conn : link[x] = "none"
          /\ phase' = "failed"
          /\ UNCHANGED <<link, pool, crashed>>
    /\ UNCHANGED <<drained, closed, healthy, checking, caller, requests>>

Ping ==
    /\ phase = "dial" /\ \A x \in Conn : link[x] # "none"
    /\ phase' = "ping"
    /\ Goes(Pinger, "acquire")
    /\ UNCHANGED <<link, pool, drained, closed, healthy, checking, requests, crashed>>

\* At every tick the health checker ends if the client is closed, and pings if not.
Tick ==
    /\ checking /\ caller[Pinger].at = "idle"
    /\ IF closed THEN checking' = FALSE /\ UNCHANGED <<caller, requests>>
       ELSE /\ requests < MaxRequests
            /\ requests' = requests + 1
            /\ Goes(Pinger, "acquire")
            /\ UNCHANGED checking
    /\ UNCHANGED <<phase, link, pool, drained, closed, healthy, crashed>>

-----------------------------------------------------------------------------
(* execute                                                                 *)

Request(c) ==
    /\ phase = "connected" /\ caller[c].at = "idle"
    /\ requests < MaxRequests
    /\ requests' = requests + 1
    /\ Goes(c, "acquire")
    /\ UNCHANGED <<phase, link, pool, drained, closed, healthy, checking, crashed>>

\* The request has ended; the ping of Connect ends Connect, later ones set the
\* health.
Return(c, ok) ==
    /\ caller' = [caller EXCEPT ![c] = AtRest]
    /\ IF c = Pinger
         THEN /\ healthy' = ok
              /\ phase' = IF phase = "ping" THEN (IF ok THEN "connected" ELSE "failed") ELSE phase
              /\ checking' = (checking \/ (phase = "ping" /\ ok))
         ELSE UNCHANGED <<phase, healthy, checking>>

\* An attempt has failed: the next one after a pause, or the end.
Retry(c) ==
    IF caller[c].attempt < maxRetries
      THEN /\ caller' = [caller EXCEPT ![c] = [at |-> "acquire", conn |-> None, attempt |-> @.attempt + 1]]
           /\ UNCHANGED <<phase, healthy, checking>>
      ELSE Return(c, FALSE)

\* acquireConn looks at the flag first ...
Acquire(c) ==
    /\ caller[c].at = "acquire"
    /\ IF closed THEN Retry(c) ELSE Goes(c, "receive") /\ UNCHANGED <<phase, healthy, checking>>
    /\ UNCHANGED <<link, pool, drained, closed, requests, crashed>>

\* ... and then receives, or times out.  A channel that is closed and empty
\* yields nil, of which a field is written.
Receive(c) ==
    /\ caller[c].at = "receive"
    /\ \/ \E x \in pool :
             /\ pool' = pool \ {x}
             /\ caller' = [caller EXCEPT ![c].at = "run", ![c].conn = x]
             /\ UNCHANGED <<phase, healthy, checking, crashed>>
       \/ /\ pool = {} /\ drained \in {"drain", "done"}
          /\ crashed' = TRUE
          /\ UNCHANGED <<pool, caller, phase, healthy, checking>>
       \/ /\ pool = {} /\ drained \in {"no", "flag"}
          /\ Retry(c)
          /\ UNCHANGED <<pool, crashed>>
    /\ UNCHANGED <<link, drained, closed, requests>>

\* executeWithConn answers or fails, which leaves the connection as it is.
ExecuteWithConn(c) ==
    /\ caller[c].at = "run"
    /\ \E at \in {"releaseOk", "releaseFailed"} : Goes(c, at)
    /\ UNCHANGED <<phase, link, pool, drained, closed, healthy, checking, requests, crashed>>

Releasing(c) == caller[c].at \in {"releaseOk", "releaseFailed", "sendOk", "sendFailed"}

\* A database that answers may refuse a ping nevertheless.
Released(c) ==
    IF caller[c].at \in {"releaseOk", "sendOk"} THEN \E ok \in BOOLEAN : Return(c, ok) ELSE Retry(c)

\* Mutant: the connection is given up instead of closed.
ReleaseForgets(c) ==
    /\ caller[c].at \in {"releaseOk", "releaseFailed"}
    /\ IF closed
         THEN Released(c)
         ELSE /\ Goes(c, IF caller[c].at = "releaseOk" THEN "sendOk" ELSE "sendFailed")
              /\ UNCHANGED <<phase, healthy, checking>>
    /\ UNCHANGED <<link, pool, drained, closed, requests, crashed>>

\* releaseConn looks at the flag first ...
Release(c) ==
    /\ caller[c].at \in {"releaseOk", "releaseFailed"}
    /\ IF closed
         THEN /\ link' = [link EXCEPT ![caller[c].conn] = "closed"]
              /\ Released(c)
         ELSE /\ Goes(c, IF caller[c].at = "releaseOk" THEN "sendOk" ELSE "sendFailed")
              /\ UNCHANGED <<link, phase, healthy, checking>>
    /\ UNCHANGED <<pool, drained, closed, requests, crashed>>

\* ... and then sends, which panics if the channel is closed.
Send(c) ==
    /\ caller[c].at \in {"sendOk", "sendFailed"}
    /\ IF drained \in {"drain", "done"}
         THEN crashed' = TRUE /\ UNCHANGED <<pool, caller, phase, healthy, checking>>
         ELSE /\ pool' = pool \cup {caller[c].conn}
              /\ Released(c)
              /\ UNCHANGED crashed
    /\ UNCHANGED <<link, drained, closed, requests>>

-----------------------------------------------------------------------------
(* Close: the flag, the channel, and what is left in it                    *)

SetClosed ==
    /\ drained = "no"
    /\ closed' = TRUE /\ drained' = "flag"
    /\ UNCHANGED <<phase, link, pool, healthy, checking, caller, requests, crashed>>

CloseChannel ==
    /\ drained = "flag"
    /\ drained' = "drain"
    /\ UNCHANGED <<phase, link, pool, closed, healthy, checking, caller, requests, crashed>>

Drain ==
    /\ drained = "drain"
    /\ IF pool = {} THEN drained' = "done" /\ UNCHANGED <<link, pool>>
       ELSE \E x \in pool : /\ pool' = pool \ {x}
                            /\ link' = [link EXCEPT ![x] = "closed"]
                            /\ UNCHANGED drained
    /\ UNCHANGED <<phase, closed, healthy, checking, caller, requests, crashed>>

Next ==
    /\ ~crashed
    /\ \/ Dial \/ Ping \/ Tick
       \/ \E c \in Call : Request(c)
       \/ \E c \in Goroutine : Acquire(c) \/ Receive(c) \/ ExecuteWithConn(c) \/ Release(c) \/ Send(c)
       \/ SetClosed \/ CloseChannel \/ Drain

Spec == Init /\ [][Next]_vars

-----------------------------------------------------------------------------
\* An open connection is in the channel or held by one request, so that none is
\* open once Close is done and the requests have ended; a panic needs a Close.
\* Hazard: the flag is read before the channel is used, and Close comes between.
ConnsAccounted ==
    /\ \A x \in Conn : link[x] = "open" /\ ~crashed =>
          \/ x \in pool
          \/ \E c \in Goroutine : caller[c].conn = x /\ (caller[c].at = "run" \/ Releasing(c))
    /\ \A x \in pool, c \in Goroutine : caller[c].conn # x
    /\ crashed => closed
=============================================================================
