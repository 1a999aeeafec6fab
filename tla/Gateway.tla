-------------------------------- MODULE Gateway --------------------------------
(***************************************************************************)
(* The request pipeline of the gateway: the chain of middleware that       *)
(* internal/gateway/server.go installs (authentication, API lookup,        *)
(* subscription, throttling, cache, analytics) and the proxy's retries,    *)
(* while the key manager (ApiKeys), the publisher and the portal change    *)
(* the tables the middleware reads.                                        *)
(*                                                                         *)
(* A request is a goroutine; each middleware reads the store once, at a    *)
(* moment of its own, and hands what it found to the next in the gin       *)
(* context.  One path is requested, which the contexts of all APIs match;  *)
(* the keys belong to one application.  The built-in routes (/health,      *)
(* /metrics, /admin) pass the same chain under paths of their own, without *)
(* an API; they are left out.                                              *)
(***************************************************************************)
EXTENDS ApiKeys

CONSTANTS Requests,
          Apis,         \* numbered by the length of their context
          Anonymously,  \* the APIs that need no authentication
          RetryCount,
          BodyLimited,  \* max_request_body_size is positive
          CacheableStatusCodes

ASSUME ApisAssumption == Apis \subseteq Nat \ {0}

ASSUME RetryAssumption == RetryCount \in Nat

ASSUME LimitAssumption == BodyLimited \in BOOLEAN

ASSUME CredentialsAssumption == {"token", "anonymous", "preflight"} \cap Keys = {}

VARIABLES published,    \* APIs whose row is PUBLISHED
          subscribed,   \* APIs the application has an active subscription to
          token,        \* an OAuth2 access token: not revoked, not expired
          cached,       \* what the response cache has for the path
          req,          \* req[r]: the gin context of request r
          held          \* held[r]: what held at some moment between the
                        \* arrival of r and the end of its checks, kept
                        \* until r is answered

tables == <<published, subscribed, token>>

gatewayVars == <<tables, cached, req, held>>

vars == <<keyVars, gatewayVars>>

-------------------------------------------------------------------------------
(* Requests and what they rely on *)

\* A preflight request (OPTIONS) is not asked for any.
Credentials == Keys \cup {"token", "anonymous", "preflight"}

NoApi == 0

\* Of a backend or of the gateway itself: 404 if no API or no endpoint is found,
\* Failure for 502 and 503, all attempts failed or the backend is not available.
Success == 200
NotFound == 404
Failure == 502
Statuses == {Success, NotFound, Failure}

Answers == [api: Apis \cup {NoApi}, status: Statuses]

\* What the cache holds for the path: nothing, or one answer.
Contents == {{}} \cup {{x} : x \in Answers}

\* attempt counts the attempts that failed; save: the request is a GET that missed
\* the cache, and its response is recorded; event: the analytics event of the request.  Histories: reached, how often
\* a backend was sent the request, and whole, how often with all of its body;
\* events, how many stored analytics events name the request's API by its id.
Contexts ==
  [at: {"new", "auth", "lookup", "subscription", "throttle", "cache", "proxy",
        "analytics", "fill", "over"},
   cred: Credentials, body: BOOLEAN, api: Apis \cup {NoApi},
   attempt: 0..RetryCount, save: BOOLEAN, status: Statuses,
   event: {"none", "pending", "stored", "lost"},
   reached: Nat, whole: Nat, events: Nat]

\* A goroutine that may serve the next request.
Fresh == [at |-> "new", cred |-> "anonymous", body |-> FALSE, api |-> NoApi,
          attempt |-> 0, save |-> FALSE, status |-> Success,
          event |-> "none", reached |-> 0, whole |-> 0, events |-> 0]

\* That the credential is valid, that an API is published or subscribed to.
Facts == {"valid"} \X {NoApi} \cup {"published", "subscribed"} \X Apis

\* GetTokenByAccessToken and GetAPIKeyByHash select valid rows only.
Valid(cred) == IF cred = "token" THEN token
               ELSE cred \in Keys /\ row[cred].status = "active"

Holding(r) ==
  (IF Valid(req[r].cred) THEN {<<"valid", NoApi>>} ELSE {})
    \cup {"published"} \X published
    \cup (IF req[r].cred \in Keys THEN {"subscribed"} \X subscribed ELSE {})

\* What request r may rely on for the API that it was resolved to.
Relevant(r) == {<<"valid", NoApi>>, <<"published", req[r].api>>, <<"subscribed", req[r].api>>}

\* Part of every step: what holds after it has held for the requests that are
\* still being checked; once the API is known the others do not matter.
Observe ==
  held' = [r \in Requests |->
             CASE req'[r].at \in {"auth", "lookup"} -> held[r] \cup Holding(r)'
               [] req'[r].at = "subscription" ->
                    (held[r] \cup Holding(r)') \cap Relevant(r)'
               [] req'[r].at \in {"throttle", "cache", "proxy", "analytics", "fill"} ->
                    held[r] \cap Relevant(r)'
               [] OTHER -> {}]

Move(r, where) == req' = [req EXCEPT ![r].at = where]

InStage(r, where) == req[r].at = where

\* The request is answered by one of the middleware.
Answered(r) == req' = [req EXCEPT ![r] = Fresh]

-------------------------------------------------------------------------------
(* The middleware *)

\* Preflight requests get this far unless the CORS middleware answers them.
Arrive(r, cred) ==
  /\ \/ InStage(r, "new")
     \/ InStage(r, "over") /\ req[r].event # "pending"
  /\ req' = [req EXCEPT ![r] = [Fresh EXCEPT !.at = "auth", !.cred = cred]]
  /\ UNCHANGED <<keyVars, tables, cached>>

\* Mutant: keys are looked up in the key manager's map.
AuthByMap(r) ==
  /\ InStage(r, "auth")
  /\ LET cred == req[r].cred IN
       \/ cred \in {"anonymous", "preflight"} /\ Move(r, "lookup")
       \/ (Valid(cred) \/ cred \in keys) /\ Move(r, "lookup")
       \/ cred \in Keys \cup {"token"} /\ Answered(r)
  /\ UNCHANGED <<keyVars, tables, cached>>

\* AuthMiddleware: an invalid credential or a failed query ends the request, no
\* credential does not; a preflight request is not even marked as anonymous.
AuthMiddleware(r) ==
  /\ InStage(r, "auth")
  /\ LET cred == req[r].cred IN
       \/ cred \in {"anonymous", "preflight"} /\ Move(r, "lookup")
       \/ Valid(cred) /\ Move(r, "lookup")
       \/ cred \in Keys \cup {"token"} /\ Answered(r)
  /\ UNCHANGED <<keyVars, tables, cached>>

\* APILookupMiddleware: the published API with the longest context.  A failed
\* query, like a path that nothing matches, leaves the API open and goes on.
APILookupMiddleware(r) ==
  /\ InStage(r, "lookup")
  /\ \/ Move(r, "subscription")
     \/ \E a \in published :
          /\ \A b \in published : b <= a
          /\ IF req[r].cred = "anonymous" /\ a \notin Anonymously THEN Answered(r)
             ELSE req' = [req EXCEPT ![r].at = "subscription", ![r].api = a]
  /\ UNCHANGED <<keyVars, tables, cached>>

\* SubscriptionMiddleware: asked of applications only, which tokens do not name,
\* and only if the API is known.
SubscriptionMiddleware(r) ==
  /\ InStage(r, "subscription")
  /\ IF req[r].cred \in Keys /\ req[r].api # NoApi
       THEN \/ req[r].api \in subscribed /\ Move(r, "throttle")
            \/ Answered(r)
       ELSE Move(r, "throttle")
  /\ UNCHANGED <<keyVars, tables, cached>>

\* ThrottleMiddleware: no API, no policy or a failed query let the request pass;
\* module Throttling says when Evaluate refuses.
ThrottleMiddleware(r) ==
  /\ InStage(r, "throttle")
  /\ \/ Move(r, "cache")
     \/ req[r].api # NoApi /\ Answered(r)
  /\ UNCHANGED <<keyVars, tables, cached>>

\* CacheMiddleware: the key is made of the path; "api_context", which should go
\* into it, is set by nobody.  A client may ask to bypass the cache.  The method and
\* the body of the request, which may be a GET's as well, matter from here on only.
CacheMiddleware(r, get, body) ==
  /\ InStage(r, "cache")
  /\ get => req[r].cred # "preflight"
  /\ \/ get /\ cached # {} /\ Answered(r)
     \/ \E save \in {FALSE, get /\ cached = {}} :
          req' = [req EXCEPT ![r].at = "proxy", ![r].body = body, ![r].save = save]
  /\ UNCHANGED <<keyVars, tables, cached>>

-------------------------------------------------------------------------------
(* The proxy *)

\* No API or no endpoint (404), no healthy backend or an open breaker (503, module
\* CircuitBreaker).
ProxyRefuses(r) ==
  /\ InStage(r, "proxy") /\ req[r].attempt = 0
  /\ \E status \in IF req[r].api = NoApi THEN {NotFound} ELSE {NotFound, Failure} :
       req' = [req EXCEPT ![r].at = "analytics", ![r].status = status]
  /\ UNCHANGED <<keyVars, tables, cached>>

\* The first attempt reads the body to its end and closes it.  Behind the reader
\* that limits its size another attempt reads an empty one, without an error;
\* without that reader it fails before it sends anything.
Sends(r) == ~req[r].body \/ req[r].attempt = 0 \/ BodyLimited

\* Mutant: the body is kept for the next attempt.
KeepsBody(r) == TRUE

\* What is sent carries the body of the client's request.
CarriesBody(r) == ~req[r].body \/ req[r].attempt = 0

\* Mutant: the proxy, too, reports under the API's id.
EventsOfProxyById == 1

\* recordProxySuccess, like recordProxyError, names the API by its context.
EventsOfProxy == 0

\* An attempt fails: not sent (the body is too large, or cannot be read again), or
\* sent and not answered, or the answer broke off.
AttemptFails(r) ==
  /\ InStage(r, "proxy") /\ req[r].api # NoApi
  /\ \E sent \in IF Sends(r) THEN {0, 1} ELSE {0} :
       req' = [req EXCEPT
         ![r].reached = @ + sent,
         ![r].whole = IF CarriesBody(r) THEN @ + sent ELSE @,
         ![r].attempt = IF @ < RetryCount THEN @ + 1 ELSE 0,
         ![r].at = IF req[r].attempt < RetryCount THEN "proxy" ELSE "analytics",
         ![r].status = IF req[r].attempt < RetryCount THEN @ ELSE Failure]
  /\ UNCHANGED <<keyVars, tables, cached>>

\* The backend answers with some status, be it for a request without its body.
AttemptSucceeds(r) ==
  /\ InStage(r, "proxy") /\ req[r].api # NoApi
  /\ Sends(r)
  /\ \E status \in Statuses :
       req' = [req EXCEPT ![r].at = "analytics", ![r].status = status,
                          ![r].attempt = 0,
                          ![r].reached = @ + 1,
                          ![r].whole = IF CarriesBody(r) THEN @ + 1 ELSE @,
                          ![r].events = @ + EventsOfProxy]
  /\ UNCHANGED <<keyVars, tables, cached>>

\* AnalyticsMiddleware, after the proxy returned: starts a goroutine that nobody
\* waits for and that shares nothing with the rest of the request.  What was sent
\* is history from here.
AnalyticsMiddleware(r) ==
  /\ InStage(r, "analytics")
  /\ req' = [req EXCEPT ![r].at = "fill", ![r].event = "pending",
                        ![r].reached = 0, ![r].whole = 0]
  /\ UNCHANGED <<keyVars, tables, cached>>

\* That goroutine: the row is inserted, once as its identifier is the primary key;
\* or the insert fails, which is logged, or the process ends first.
InsertAnalyticsEvent(r) ==
  /\ InStage(r, "over") /\ req[r].event = "pending"
  /\ \/ req' = [req EXCEPT ![r].event = "stored",
                           ![r].events = IF req[r].api = NoApi THEN @ ELSE @ + 1]
     \/ req' = [req EXCEPT ![r].event = "lost"]
  /\ UNCHANGED <<keyVars, tables, cached>>

Answer(r) == [api |-> req[r].api, status |-> req[r].status]

\* The request is answered by the proxy: only its event is left.
Done(r) == req' = [req EXCEPT ![r] = [Fresh EXCEPT !.at = "over", !.api = req[r].api,
                                        !.event = req[r].event, !.events = req[r].events]]

\* Mutant: an answer is cached whatever its status.
FillAny(r) ==
  /\ InStage(r, "fill")
  /\ \/ req[r].save /\ cached' = {Answer(r)}
     \/ UNCHANGED cached
  /\ Done(r)
  /\ UNCHANGED <<keyVars, tables>>

\* CacheMiddleware again, after the rest of the chain returned, for the status that
\* the recorder saw; the response may be too large.
Fill(r) ==
  /\ InStage(r, "fill")
  /\ \/ /\ req[r].save /\ req[r].status \in CacheableStatusCodes
        /\ cached' = {Answer(r)}
     \/ UNCHANGED cached
  /\ Done(r)
  /\ UNCHANGED <<keyVars, tables>>

-------------------------------------------------------------------------------
(* The rest of the system *)

\* TransitionAPIStatus and the other writes of ApiPublisher to the status.
ChangeStatus(a) ==
  /\ published' = IF a \in published THEN published \ {a} ELSE published \cup {a}
  /\ UNCHANGED <<keyVars, subscribed, token, cached, req>>

Subscribe(a) ==
  /\ subscribed' = subscribed \cup {a}
  /\ UNCHANGED <<keyVars, published, token, cached, req>>

Unsubscribe(a) ==
  /\ subscribed' = subscribed \ {a}
  /\ UNCHANGED <<keyVars, published, token, cached, req>>

\* The token is revoked, or expires.
RevokeToken ==
  /\ token' = FALSE
  /\ UNCHANGED <<keyVars, published, subscribed, cached, req>>

\* The entry expires or is evicted.
Uncache ==
  /\ cached' = {}
  /\ UNCHANGED <<keyVars, tables, req>>

ManageKeys == KeyNext /\ UNCHANGED <<tables, cached, req>>

-------------------------------------------------------------------------------
Init ==
  /\ KeyInit
  /\ published = {} /\ subscribed = {} /\ token = TRUE
  /\ cached = {}
  /\ req = [r \in Requests |-> Fresh]
  /\ held = [r \in Requests |-> {}]

Serve(r) ==
  \/ \E cred \in Credentials : Arrive(r, cred)
  \/ AuthMiddleware(r) \/ APILookupMiddleware(r) \/ SubscriptionMiddleware(r)
  \/ ThrottleMiddleware(r)
  \/ \E get, body \in BOOLEAN : CacheMiddleware(r, get, body)
  \/ ProxyRefuses(r) \/ AttemptFails(r) \/ AttemptSucceeds(r)
  \/ AnalyticsMiddleware(r) \/ InsertAnalyticsEvent(r) \/ Fill(r)

Next ==
  /\ \/ \E r \in Requests : Serve(r)
     \/ \E a \in Apis : ChangeStatus(a) \/ Subscribe(a) \/ Unsubscribe(a)
     \/ RevokeToken \/ Uncache \/ ManageKeys
  /\ Observe

Spec == Init /\ [][Next]_vars

\* For model checking: the state without what neither the gateway nor any other part
\* of the key manager reads: names and scopes, updates under way, and the key
\* manager's own history.  States that agree on the rest behave alike from there.
GatewayView ==
  <<[k \in Keys |-> row[k].status], keys, known, failures,
    [c \in Calls |-> <<call[c].at, call[c].key>>], gatewayVars>>

-------------------------------------------------------------------------------
(* Properties *)

TypeOK ==
  /\ KeyTypeOK
  /\ published \subseteq Apis /\ subscribed \subseteq Apis /\ token \in BOOLEAN
  /\ cached \in Contents
  /\ req \in [Requests -> Contexts]
  /\ held \in [Requests -> SUBSET Facts]

\* What request r, for API a, may rely on: after it arrived its credential was
\* valid, the API was published, and, for a key, subscribed to, each at some moment.
EntitledTo(r, a) ==
  /\ <<"published", a>> \in held[r]
  /\ req[r].cred = "anonymous" => a \in Anonymously
  /\ req[r].cred \in Keys \cup {"token"} => <<"valid", NoApi>> \in held[r]
  /\ req[r].cred \in Keys => <<"subscribed", a>> \in held[r]

\* A backend is sent only what somebody was entitled to while the request was
\* being checked.  What was withdrawn before a request arrived is refused to it,
\* whatever the key manager's map still holds.  A preflight request needs a
\* published API only.
Entitled ==
  \A r \in Requests :
    InStage(r, "proxy") /\ req[r].api # NoApi => EntitledTo(r, req[r].api)

\* A backend is never sent the body of a request twice, the retries
\* notwithstanding: later attempts send the request without it, or, unless bodies
\* are limited, send nothing.  net/http's own repetition of a request on a broken
\* connection is not counted.
BodyOnce ==
  \A r \in Requests :
    /\ req[r].reached <= RetryCount + 1
    /\ req[r].body => req[r].whole <= 1
    /\ req[r].body /\ ~BodyLimited => req[r].reached <= 1

\* However many attempts a request took, and whether they worked, it counts as one
\* use of its API if the goroutine that reports it stored its event, and as none if
\* that goroutine failed.
UsageOnce ==
  \A r \in Requests :
    InStage(r, "over") /\ req[r].event # "pending" =>
      req[r].events = IF req[r].event = "stored" /\ req[r].api # NoApi THEN 1 ELSE 0

\* What enters the cache, and is then given to every request for the path, is the
\* answer to a GET that was itself entitled to the API it came from, or the
\* gateway's own answer where no API was found; its status is one of those that may
\* be cached.
CachesEntitled ==
  [][\A x \in cached' \ cached :
       \E r \in Requests :
         /\ InStage(r, "fill") /\ req[r].save /\ x = Answer(r)
         /\ x.status \in CacheableStatusCodes
         /\ IF x.api = NoApi THEN x.status = NotFound ELSE EntitledTo(r, x.api)]_vars
===============================================================================
