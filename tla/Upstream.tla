------------------------------ MODULE Upstream ------------------------------
(***************************************************************************)
(* Upstreams of the gateway proxy, their load balancing and their health   *)
(* checks (internal/gateway/proxy.go).  A request whose API has no         *)
(* endpoint of its own is sent to a healthy backend of the upstream        *)
(* registered for the context.  Every tick of the health checker starts a  *)
(* goroutine per backend and waits for none of them, so checks of one      *)
(* backend end in any order.  SetHealthy also counts failures and          *)
(* successes in a row, which nothing reads: they are left out.             *)
(*                                                                         *)
(* What a server answers: "ok" is a status below 500, "error" any other,   *)
(* "nohead" fails HEAD and answers GET, "down" fails both.                 *)
(***************************************************************************)
EXTENDS Naturals, Sequences, Functions

CONSTANTS
    Context,     \* contexts of APIs
    Backend,     \* backends
    Group,       \* sequences of them, of which upstreams are made
    Answer,      \* the answers a server may give
    weight,      \* weight[b]: the Weight of b
    Check,       \* goroutines that check health
    Handler,     \* requests without an endpoint of their own
    Width,       \* the counter of RoundRobin is taken modulo 2^Width
    MaxRegistrations,
    None

VARIABLES
    upstreams,     \* upstreams[x]: the Backends of x, in order, or None
    strategies,    \* strategies[x]: the strategy of x's upstream
    server,        \* server[b]: what b would answer
    healthy,      \* healthy[b]: the Healthy of b
    checks,        \* checks[c]: [at, backend, verdict]
    current,       \* the counter of RoundRobin
    selecting,     \* selecting[h]: [at, context, backends, endpoint]
    registrations

vars == <<upstreams, strategies, server, healthy, checks, current, selecting, registrations>>

\* LeastConnections draws at random, as Random does, which stands for both.
Strategy == {"WeightedRoundRobin", "RoundRobin", "Random"}
NoCheck == [at |-> "idle", backend |-> None, verdict |-> FALSE]
NotSelecting == [at |-> "idle", context |-> None, backends |-> <<>>, endpoint |-> None]

Init ==
    /\ upstreams = [x \in Context |-> None]
    /\ strategies = [x \in Context |-> "WeightedRoundRobin"]
    /\ server \in [Backend -> Answer]
    /\ healthy = [b \in Backend |-> FALSE]
    /\ checks = [c \in Check |-> NoCheck]
    /\ current = 0
    /\ selecting = [h \in Handler |-> NotSelecting]
    /\ registrations = 0

-----------------------------------------------------------------------------
(* Upstreams                                                               *)

\* NewUpstream makes all its backends healthy and starts with weights.
RegisterUpstream(x, backends) ==
    /\ registrations < MaxRegistrations /\ registrations' = registrations + 1
    /\ upstreams' = [upstreams EXCEPT ![x] = backends]
    /\ strategies' = [strategies EXCEPT ![x] = "WeightedRoundRobin"]
    /\ healthy' = [b \in Backend |-> healthy[b] \/ b \in Range(backends)]
    /\ UNCHANGED <<server, checks, current, selecting>>

SetStrategy(x, strategy) ==
    /\ upstreams[x] # None
    /\ strategies' = [strategies EXCEPT ![x] = strategy]
    /\ UNCHANGED <<upstreams, server, healthy, checks, current, selecting, registrations>>

\* The handler asks for the upstream and copies its healthy backends and its
\* strategy under the read lock; without any it answers at once.
GetUpstream(h, x) ==
    /\ selecting[h].at = "idle"
    /\ LET able == IF upstreams[x] = None THEN <<>>
                   ELSE SelectSeq(upstreams[x], LAMBDA b : healthy[b])
           answer(at) == [at |-> at, context |-> x, backends |-> able, endpoint |-> None]
       IN  selecting' = [selecting EXCEPT ![h] =
             IF upstreams[x] = None THEN answer("no_backend_endpoint")
             ELSE IF able = <<>> THEN answer("no_healthy_backends") ELSE answer(strategies[x])]
    /\ UNCHANGED <<upstreams, strategies, server, healthy, checks, current, registrations>>

\* Weights draw at random; without any weight it is always the first, because
\* its "current" never moves.
WeightedRoundRobin(backends) ==
    LET heavy == {b \in Range(backends) : weight[b] > 0}
    IN  IF heavy = {} THEN {backends[1]} ELSE heavy

\* The strategy chooses among the copies, after the lock.
Select(h) ==
    /\ LET s == selecting[h]
           moved == (current + 1) % 2^Width
           take(b) == [s EXCEPT !.at = "proxy", !.endpoint = b, !.backends = <<>>]
       IN  \/ /\ s.at = "WeightedRoundRobin"
              /\ \E b \in WeightedRoundRobin(s.backends) : selecting' = [selecting EXCEPT ![h] = take(b)]
              /\ UNCHANGED current
           \/ /\ s.at = "RoundRobin"
              /\ current' = moved
              /\ selecting' = [selecting EXCEPT ![h] = take(s.backends[(moved % Len(s.backends)) + 1])]
           \/ /\ s.at = "Random"
              /\ \E b \in Range(s.backends) : selecting' = [selecting EXCEPT ![h] = take(b)]
              /\ UNCHANGED current
    /\ UNCHANGED <<upstreams, strategies, server, healthy, checks, registrations>>

Answered(h) ==
    /\ selecting[h].at \in {"no_backend_endpoint", "no_healthy_backends", "proxy"}
    /\ selecting' = [selecting EXCEPT ![h] = NotSelecting]
    /\ UNCHANGED <<upstreams, strategies, server, healthy, checks, current, registrations>>

-----------------------------------------------------------------------------
(* Health checks                                                           *)

Registered == UNION {Range(upstreams[x]) : x \in {y \in Context : upstreams[y] # None}}

\* Mutant: a tick checks only backends that are healthy.
TickHealthy(c, b) ==
    /\ b \in Registered /\ healthy[b]
    /\ checks[c].at = "idle"
    /\ checks' = [checks EXCEPT ![c] = [at |-> "ask", backend |-> b, verdict |-> FALSE]]
    /\ UNCHANGED <<upstreams, strategies, server, healthy, current, selecting, registrations>>

\* healthChecker starts a goroutine for every backend of every upstream.
Tick(c, b) ==
    /\ b \in Registered
    /\ checks[c].at = "idle"
    /\ checks' = [checks EXCEPT ![c] = [at |-> "ask", backend |-> b, verdict |-> FALSE]]
    /\ UNCHANGED <<upstreams, strategies, server, healthy, current, selecting, registrations>>

\* HEAD, and GET of /health when it fails; the error of HEAD stays, because
\* the one of GET is a variable of its own, so that answer never counts.
checkBackendHealth(c) ==
    /\ checks[c].at = "ask"
    /\ checks' = [checks EXCEPT ![c].at = "set", ![c].verdict = (server[checks[c].backend] = "ok")]
    /\ UNCHANGED <<upstreams, strategies, server, healthy, current, selecting, registrations>>

SetHealthy(c) ==
    /\ checks[c].at = "set"
    /\ healthy' = [healthy EXCEPT ![checks[c].backend] = checks[c].verdict]
    /\ checks' = [checks EXCEPT ![c] = NoCheck]
    /\ UNCHANGED <<upstreams, strategies, server, current, selecting, registrations>>

\* Servers fail and come back.
ServerChanges(b) ==
    /\ \E a \in Answer \ {server[b]} : server' = [server EXCEPT ![b] = a]
    /\ UNCHANGED <<upstreams, strategies, healthy, checks, current, selecting, registrations>>

-----------------------------------------------------------------------------
Next ==
    \/ \E x \in Context, backends \in Group : RegisterUpstream(x, backends)
    \/ \E x \in Context, s \in Strategy : SetStrategy(x, s)
    \/ \E h \in Handler, x \in Context : GetUpstream(h, x)
    \/ \E h \in Handler : Select(h) \/ Answered(h)
    \/ \E c \in Check, b \in Backend : Tick(c, b)
    \/ \E c \in Check : checkBackendHealth(c) \/ SetHealthy(c)
    \/ \E b \in Backend : ServerChanges(b)

\* A goroutine that was started runs on; the ticker never stops.
Fairness ==
    /\ \A c \in Check : WF_vars(checkBackendHealth(c) \/ SetHealthy(c))
    /\ \A b \in Backend : SF_vars(\E c \in Check : Tick(c, b))

Spec == Init /\ [][Next]_vars /\ Fairness

-----------------------------------------------------------------------------
\* A backend that answers for good is in the end healthy for good, and one
\* that fails for good is in the end no longer selected, although checks end
\* in any order and older ones overwrite newer ones.
FollowsServer ==
    \A b \in Backend :
        /\ <>[](b \in Registered /\ server[b] = "ok") => <>[]healthy[b]
        /\ <>[](b \in Registered /\ server[b] # "ok") => <>[]~healthy[b]
=============================================================================
