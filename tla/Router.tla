------------------------------- MODULE Router -------------------------------
(***************************************************************************)
(* The dynamic router (internal/gateway/router.go).  Routes live in the    *)
(* namespace "routes" of the key-value store; the router keeps a sorted    *)
(* copy, which Start, a refresh loop and administrators replace as a       *)
(* whole.  A load lists the keys and fetches the routes one by one.        *)
(*                                                                         *)
(* A path and a pattern are sequences of segments, "{}" a parameter.       *)
(***************************************************************************)
EXTENDS Integers, Sequences, FiniteSetsExt, Functions

CONSTANTS
    Route,        \* identifiers of routes
    Built,        \* what builders are given: [context, endpoint, method, path, priority]
    Path,         \* requested paths
    Loader,       \* goroutines in LoadRoutes
    Refresher,    \* the one of them that is Start and the refresh loop
    BadSegments,  \* segments that make a pattern no regular expression
    MaxEdits,     \* bound on changes of the stored routes
    MaxFailures,  \* bound on listings and fetches that fail
    None

VARIABLES
    stored,    \* stored[r]: the row of route r, or None
    routes,    \* the router's copy, sorted: <<[id, row], ...>>
    load,      \* load[l]: [at, left, got] of goroutine l
    running,   \* "no", "starting", "yes": the refresh loop was started, "stopped"
    edits, failures

vars == <<stored, routes, load, running, edits, failures>>

AtRest == [at |-> "idle", left |-> <<>>, got |-> <<>>]

Init ==
    /\ stored = [r \in Route |-> None]
    /\ routes = <<>>
    /\ load = [l \in Loader |-> AtRest]
    /\ running = "no"
    /\ edits = 0 /\ failures = 0

-----------------------------------------------------------------------------
(* Routes                                                                  *)

\* What pathToRegex makes of a pattern: a parameter takes one segment, "*" at
\* most one, "**" any number of them.
pathToRegex(pattern, path) ==
    LET match[i \in 1 .. Len(pattern) + 1, j \in 1 .. Len(path) + 1] ==
          IF i > Len(pattern) THEN j > Len(path)
          ELSE CASE pattern[i] = "**" -> \E k \in j .. Len(path) + 1 : match[i + 1, k]
                 [] pattern[i] = "*" -> match[i + 1, j] \/ (j <= Len(path) /\ match[i + 1, j + 1])
                 [] OTHER -> /\ j <= Len(path)
                             /\ pattern[i] \in {"{}", path[j]}
                             /\ match[i + 1, j + 1]
    IN  match[1, 1]

CompilePattern(row) == Range(row.path) \cap BadSegments = {}

RouteMatches(row, method, path) ==
    /\ row.status \in {"PUBLISHED", ""}
    /\ row.method \in {method, "*"}
    /\ CompilePattern(row) /\ pathToRegex(row.path, path)

\* A builder publishes its route; Build fills in what is missing, and refuses a route without a context or an
\* endpoint, or whose pattern does not compile.
Build(b) ==
    [context |-> b.context, endpoint |-> b.endpoint, priority |-> b.priority, status |-> "PUBLISHED",
     method |-> IF b.method = "" THEN "*" ELSE b.method,
     path |-> IF b.path = <<>> THEN <<"*">> ELSE b.path]

Buildable(b) == b.context # "" /\ b.endpoint # "" /\ CompilePattern(Build(b))

-----------------------------------------------------------------------------
(* The stored routes, which others write                                   *)

Edit == edits < MaxEdits /\ edits' = edits + 1

\* A builder's route, or a row that no builder made.
Save(r, b) ==
    /\ Edit
    /\ stored' \in {[stored EXCEPT ![r] = row] : row \in {b} \cup (IF Buildable(b) THEN {Build(b)} ELSE {})}
    /\ UNCHANGED <<routes, load, running, failures>>

Erase(r) ==
    /\ Edit
    /\ stored[r] # None
    /\ stored' = [stored EXCEPT ![r] = None]
    /\ UNCHANGED <<routes, load, running, failures>>

-----------------------------------------------------------------------------
(* LoadRoutes                                                              *)

Stored == {r \in Route : stored[r] # None}

\* The keys, in any order; the Refresher lists them in Start, or at a tick of the
\* loop.
ListKeys(l) ==
    /\ load[l].at = "idle"
    /\ l = Refresher => running \in {"no", "yes"}
    /\ \E keys \in Bijection(1 .. Cardinality(Stored), Stored) :
          load' = [load EXCEPT ![l] = [at |-> "get", left |-> keys, got |-> <<>>]]
    /\ running' = IF l = Refresher /\ running = "no" THEN "starting" ELSE running
    /\ UNCHANGED <<stored, routes, edits, failures>>

\* The listing fails.  The loop tries again at its next tick; Start returns before
\* it has started the loop, and may or may not be called again.
ListingFails(l) ==
    /\ load[l].at = "idle"
    /\ l = Refresher => running \in {"no", "yes"}
    /\ failures < MaxFailures /\ failures' = failures + 1
    /\ UNCHANGED <<stored, routes, load, running, edits>>

\* A route that is gone, cannot be fetched or does not compile is skipped.
GetRoute(l) ==
    /\ load[l].at = "get" /\ load[l].left # <<>>
    /\ LET r == Head(load[l].left) IN
       \/ /\ stored[r] # None /\ CompilePattern(stored[r])
          /\ load' = [load EXCEPT ![l].left = Tail(@), ![l].got = Append(@, [id |-> r, row |-> stored[r]])]
          /\ UNCHANGED failures
       \/ /\ stored[r] # None => ~CompilePattern(stored[r])
          /\ load' = [load EXCEPT ![l].left = Tail(@)]
          /\ UNCHANGED failures
       \/ /\ failures < MaxFailures /\ failures' = failures + 1
          /\ load' = [load EXCEPT ![l].left = Tail(@)]
    /\ UNCHANGED <<stored, routes, running, edits>>

\* Mutant: the lowest priority comes first.
ByPriorityUp(s) ==
    {t \in Bijection(1 .. Cardinality(Range(s)), Range(s)) :
        \A i, j \in DOMAIN t : i < j => t[i].row.priority <= t[j].row.priority}

\* The sort is not stable: routes of one priority come in any order.
ByPriority(s) ==
    {t \in Bijection(1 .. Cardinality(Range(s)), Range(s)) :
        \A i, j \in DOMAIN t : i < j => t[i].row.priority >= t[j].row.priority}

\* Mutant: routes that are gone stay in the copy.
InstallAdded(l) ==
    /\ load[l].at = "get" /\ load[l].left = <<>>
    /\ routes' \in ByPriority(load[l].got \o SelectSeq(routes,
                   LAMBDA x : \A i \in DOMAIN load[l].got : load[l].got[i].id # x.id))
    /\ load' = [load EXCEPT ![l] = AtRest]
    /\ running' = IF l = Refresher /\ running = "starting" THEN "yes" ELSE running
    /\ UNCHANGED <<stored, edits, failures>>

\* The copy is replaced and sorted under the lock; Start then starts the loop.
Install(l) ==
    /\ load[l].at = "get" /\ load[l].left = <<>>
    /\ routes' \in ByPriority(load[l].got)
    /\ load' = [load EXCEPT ![l] = AtRest]
    /\ running' = IF l = Refresher /\ running = "starting" THEN "yes" ELSE running
    /\ UNCHANGED <<stored, edits, failures>>

\* Stop, or the end of the context that Start was given.
Stop ==
    /\ running \in {"starting", "yes"}
    /\ running' = "stopped"
    /\ UNCHANGED <<stored, routes, load, edits, failures>>

-----------------------------------------------------------------------------
\* HandleRequest proxies a request by the first route that matches, or answers
\* it with 404; it changes nothing here.
Match(method, path) ==
    LET hits == {i \in DOMAIN routes : RouteMatches(routes[i].row, method, path)}
    IN  IF hits = {} THEN None ELSE routes[Min(hits)]

Next ==
    \/ \E r \in Route : Erase(r) \/ \E b \in Built : Save(r, b)
    \/ \E l \in Loader : ListKeys(l) \/ ListingFails(l) \/ GetRoute(l) \/ Install(l)
    \/ Stop

\* The refresh loop ticks until the router is stopped, and a load goes on.  Nobody
\* must call Start.
Refresh == running = "yes" /\ ListKeys(Refresher)

LoadGoesOn(l) == GetRoute(l) \/ Install(l)

Fairness ==
    /\ WF_vars(Refresh)
    /\ \A l \in Loader : WF_vars(LoadGoesOn(l))

Spec == Init /\ [][Next]_vars /\ Fairness

-----------------------------------------------------------------------------
\* Once the first load of Start worked, and unless it is stopped, the router comes to
\* hold exactly the stored routes that compile, when they no longer change.  Hazard: an administrator's load that
\* listed the routes earlier is installed over a newer one of the refresh loop.
RoutesConverge ==
    <>[](running \in {"no", "stopped"}
         \/ /\ {routes[i].id : i \in DOMAIN routes}
                 = {r \in Route : stored[r] # None /\ CompilePattern(stored[r])}
            /\ \A i \in DOMAIN routes : routes[i].row = stored[routes[i].id])

\* A request takes a route of the highest priority among those in the copy that
\* match it.  Hazard: priorities, patterns and status decide together.
HighestMatches ==
    \A method \in {"GET", "POST"}, path \in Path :
        LET m == Match(method, path) IN
        \A i \in DOMAIN routes :
            RouteMatches(routes[i].row, method, path) =>
                m # None /\ m.row.priority >= routes[i].row.priority
=============================================================================
