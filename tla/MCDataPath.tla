------------------------------ MODULE MCDataPath ------------------------------
(***************************************************************************)
(* What runs behind the gateway for as long as it serves: the circuit      *)
(* breaker and the health checks of the proxy, the router's and the policy *)
(* engine's refresh loops, and the goroutines of the analytics collector.  *)
(* They share no state: one of them is chosen at the start and moves, so   *)
(* that their states add up instead of multiplying.  Fairness is that of   *)
(* each, for the one that moves.                                           *)
(***************************************************************************)
EXTENDS CircuitBreaker, EventCollector, Integers, Sequences

CONSTANTS
  Check, Handler,                 \* health checks and handlers of upstreams
  LoadLoop, AdminLoad,            \* goroutines in LoadRoutes
  Route, Built, Path, BadSegments, \* of the router
  Policy, Row, Request,           \* of the policy engine
  TextMatches, Malformed,
  Reloader, PolicyLoader,         \* goroutines of the policy engine
  MaxEdits, MaxPolicyEdits, MaxFailures

VARIABLES
  upstreams, strategies, server, healthy, checks, current, selecting, registrations,
  stored, routes, fetch, running, changes, failures,
  table, policies, reload, load, answer, edits, outages,
  subject    \* the component that moves

-------------------------------------------------------------------------------
(* The inputs of the modules, some of them given by the configuration.     *)

\* One backend has a weight; the other is only chosen by other strategies.
Weights == [b \in {"b1", "b2"} |-> IF b = "b1" THEN 1 ELSE 0]
Backends == {<<"b1", "b2">>}

\* One segment of any method, a parameter with a tail, and one that does not compile.
Build(method, path, priority, status) ==
  [context |-> "/s", endpoint |-> "e", method |-> method, path |-> path,
   priority |-> priority, status |-> status]
Builds == {Build("", <<>>, 1, "PUBLISHED"), Build("GET", <<"{}", "**">>, 2, "PUBLISHED"),
           Build("GET", <<"bad">>, 3, "")}

Paths == {<<"a">>, <<"a", "b">>}

\* Policies of rising priority: one for a tier, one that blocks a header, and
\* one whose condition does not compile.
Asks(type, operator, value) == [type |-> type, operator |-> operator, value |-> value, values |-> {}]
PolicyRow(priority, conditions, tier, action) ==
  [priority |-> priority, enabled |-> TRUE, conditions |-> conditions, tier |-> tier, action |-> action]
Rows == {PolicyRow(1, <<>>, "Gold", "ALLOW"),
         PolicyRow(2, <<Asks("Header", "eq", "v")>>, "Gold", "BLOCK"),
         PolicyRow(3, <<Asks("IP", "range", "bad")>>, "", "LOG")}
Evaluated == {[ip |-> "", text |-> [t \in {"Header", "QueryParam", "JWTClaim", "UserAgent"} |-> v],
               hour |-> 1, tier |-> "Gold"] : v \in {"v", "w"}}

\* Request events are published in batches, events of throttled requests singly.
Sizes == [event |-> 2, throttle |-> 1]

Upstream == INSTANCE Upstream WITH Context <- {"x1"}, Backend <- {"b1", "b2"}, weight <- Weights,
              Group <- Backends, Answer <- {"ok", "nohead"}, Width <- 1, MaxRegistrations <- 1
Router == INSTANCE Router WITH Loader <- {LoadLoop, AdminLoad}, Refresher <- LoadLoop,
            load <- fetch, edits <- changes
Policies == INSTANCE ThrottlePolicies WITH Loader <- PolicyLoader, Empty <- "",
              MaxEdits <- MaxPolicyEdits

\* Routes and policies have priorities, and None is not a route.
ASSUME InputsAssumption ==
  /\ IsFiniteSet(Route) /\ IsFiniteSet(Policy)
  /\ \A b \in Built : b.priority \in Int
  /\ \A row \in Row : row.priority \in Int
  /\ None \notin [id : Route, row : Built \cup {Router!Build(b) : b \in Built}]

-------------------------------------------------------------------------------
upstreamVars == <<upstreams, strategies, server, healthy, checks, current, selecting, registrations>>
routerVars == <<stored, routes, fetch, running, changes, failures>>
policyVars == <<table, policies, reload, load, answer, edits, outages>>
everything == <<vars, upstreamVars, routerVars, policyVars, collectorVars, subject>>

\* The servers are known to start with, unless it is them that change.
DataPathInit ==
  /\ subject \in {"breaker", "upstream", "router", "policies", "collector"}
  /\ Init /\ Upstream!Init /\ Router!Init /\ Policies!Init /\ CollectorInit
  /\ subject # "upstream" => server = [b \in {"b1", "b2"} |-> "ok"]

\* The others keep their state.
Only(who) ==
  /\ subject = who /\ UNCHANGED subject
  /\ IF who = "breaker" THEN TRUE ELSE UNCHANGED vars
  /\ IF who = "upstream" THEN TRUE ELSE UNCHANGED upstreamVars
  /\ IF who = "router" THEN TRUE ELSE UNCHANGED routerVars
  /\ IF who = "policies" THEN TRUE ELSE UNCHANGED policyVars
  /\ IF who = "collector" THEN TRUE ELSE UNCHANGED collectorVars

DataPathNext ==
  \/ Only("breaker") /\ Next
  \/ Only("upstream") /\ Upstream!Next
  \/ Only("router") /\ Router!Next
  \/ Only("policies") /\ Policies!Next
  \/ Only("collector") /\ CollectorNext

DataPathFairness ==
  /\ \A r \in Requests : WF_vars(subject = "breaker" /\ HandlerStep(r))
  /\ WF_vars(subject = "breaker" /\ TimeoutElapses)
  /\ \A c \in Check :
        WF_upstreamVars(subject = "upstream" /\ (Upstream!checkBackendHealth(c) \/ Upstream!SetHealthy(c)))
  /\ \A b \in {"b1", "b2"} :
        SF_upstreamVars(subject = "upstream" /\ \E c \in Check : Upstream!Tick(c, b))
  /\ WF_routerVars(subject = "router" /\ Router!Refresh)
  /\ \A l \in {LoadLoop, AdminLoad} : WF_routerVars(subject = "router" /\ Router!LoadGoesOn(l))
  /\ \A l \in PolicyLoader : WF_policyVars(subject = "policies" /\ Policies!InstallPolicy(l))
  /\ \A r \in Reloader :
        /\ WF_policyVars(subject = "policies" /\ Policies!ListPolicies(r))
        /\ WF_policyVars(subject = "policies" /\ Policies!InstallReload(r))
  /\ \A ch \in {"event", "throttle"} : WF_collectorVars(subject = "collector" /\ Processor(ch))
  /\ WF_collectorVars(subject = "collector" /\ CloseStop)
  /\ WF_collectorVars(subject = "collector" /\ WaitEnds)

DataPathSpec == DataPathInit /\ [][DataPathNext]_everything /\ DataPathFairness

-------------------------------------------------------------------------------
\* What was read or measured earlier may be installed later, over something
\* newer, but not for good: the health of backends comes to follow their
\* servers, the policy engine the table, and the router the stored routes, if the
\* first load of Start worked: otherwise there is no loop that could.  A shutdown of
\* the collector ends without the help of its timeout.
\* Hazard: goroutines of several ticks and administrators install in any order,
\* and one that is stuck would make every shutdown wait for its deadline.
LoopsCatchUp ==
  /\ subject = "upstream" => Upstream!FollowsServer
  /\ subject = "router" => Router!RoutesConverge
  /\ subject = "policies" => Policies!Converges
  /\ subject = "collector" => ShutdownEnds

\* The answer of the policies, and the route of a request, is never one that a
\* more important one which applies should have given.
BestAnswers == Policies!MostImportantAnswers /\ []Router!HighestMatches
===============================================================================
