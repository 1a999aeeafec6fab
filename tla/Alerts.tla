------------------------------- MODULE Alerts -------------------------------
(***************************************************************************)
(* E-mail alerts about one API (internal/notifications/alerts.go).  A      *)
(* check that finds the usage over the threshold mails the owners of the   *)
(* active subscriptions and starts a cooldown; checks run in goroutines of *)
(* their own, one of which is the periodic scanner, and share the map      *)
(* lastAlerted only.                                                       *)
(*                                                                         *)
(* Time counts ticks, the cooldown is one tick, and a subscription stands  *)
(* for its application and for the address of the application's owner.     *)
(***************************************************************************)
EXTENDS Naturals, FiniteSets

CONSTANTS
    Check,        \* goroutines in CheckAndAlert
    Scanner,      \* the one of them that is the periodic scanner
    Subscription,
    Address,
    owner,        \* owner[s]: the address of the owner of subscription s, or None
    Rate,         \* the rate of the API's throttle policy; 0: it has none
    Usage,        \* the numbers of requests of the last hour that are considered
    MaxTime,      \* bound on the clock
    MaxFaults,    \* bound on mails to an address that arrive and are reported as failed
    None

QuotaAlertThreshold == 80

VARIABLES
    now,
    status,       \* status[s]: "NONE", "ACTIVE" or "BLOCKED"
    usage,        \* requests in the last hour
    lastAlerted,  \* the time of the last alert, or None
    check,        \* check[c]: [at, emails, sent]
    scanning,     \* the scanner has not been cancelled
    alerts,       \* alerts[a]: alerts that arrived at address a since the last cooldown ended
    misreported,       \* misreported[a]: those of them of which SendMail returned an error
    notices       \* addresses that were told of a decision or a deprecation

vars == <<now, status, usage, lastAlerted, check, scanning, alerts, misreported, notices>>

Idle == [at |-> "idle", emails |-> {}, sent |-> 0]
Calm == [a \in Address |-> 0]

Init ==
    /\ now = 0
    /\ status = [s \in Subscription |-> "NONE"]
    /\ usage = 0
    /\ lastAlerted = None
    /\ check = [c \in Check |-> Idle]
    /\ scanning = TRUE
    /\ alerts = Calm /\ misreported = Calm /\ notices = {}

-----------------------------------------------------------------------------
(* CheckAndAlert                                                           *)

\* Under the mutex: the cooldown.  The scanner checks an API only while it is
\* not cancelled.
Begin(c) ==
    /\ check[c].at = "idle"
    /\ c = Scanner => scanning
    /\ lastAlerted = None
    /\ check' = [check EXCEPT ![c].at = "measure"]
    /\ UNCHANGED <<now, status, usage, lastAlerted, scanning, alerts, misreported, notices>>

\* The API, its policy and the summary of the last hour, each of which may be
\* missing.
Measure(c) ==
    /\ check[c].at = "measure"
    /\ \/ /\ Rate > 0 /\ usage * 100 >= QuotaAlertThreshold * Rate
          /\ check' = [check EXCEPT ![c].at = "list"]
       \/ check' = [check EXCEPT ![c] = Idle]
    /\ UNCHANGED <<now, status, usage, lastAlerted, scanning, alerts, misreported, notices>>

Owners(subs) == {owner[s] : s \in subs} \ {None}

\* Subscriptions whose application or owner cannot be read are passed over.
ListSubscribers(c) ==
    /\ check[c].at = "list"
    /\ \E found \in SUBSET {s \in Subscription : status[s] = "ACTIVE"} :
          check' = [check EXCEPT ![c].at = "send", ![c].emails = Owners(found)]
    /\ UNCHANGED <<now, status, usage, lastAlerted, scanning, alerts, misreported, notices>>

\* Each address once, in any order; a mail that fails is not tried again.  It may
\* fail after the server has accepted it, for the client still has to quit.
SendQuotaAlert(c, a) ==
    /\ check[c].at = "send" /\ a \in check[c].emails
    /\ \/ /\ check' = [check EXCEPT ![c].emails = @ \ {a}, ![c].sent = @ + 1]
          /\ alerts' = [alerts EXCEPT ![a] = @ + 1]
          /\ UNCHANGED misreported
       \/ /\ check' = [check EXCEPT ![c].emails = @ \ {a}]
          /\ UNCHANGED <<alerts, misreported>>
       \/ /\ misreported[a] < MaxFaults
          /\ misreported' = [misreported EXCEPT ![a] = @ + 1]
          /\ check' = [check EXCEPT ![c].emails = @ \ {a}]
          /\ alerts' = [alerts EXCEPT ![a] = @ + 1]
    /\ UNCHANGED <<now, status, usage, lastAlerted, scanning, notices>>

\* Mutant: the cooldown starts only if every active subscriber was reached.
RecordIfAll(c) ==
    /\ check[c].at = "send" /\ check[c].emails = {}
    /\ lastAlerted' =
         IF check[c].sent >= Cardinality(Owners({s \in Subscription : status[s] = "ACTIVE"}))
           THEN now ELSE lastAlerted
    /\ check' = [check EXCEPT ![c] = Idle]
    /\ UNCHANGED <<now, status, usage, scanning, alerts, misreported, notices>>

\* The cooldown starts if any mail was sent.
Record(c) ==
    /\ check[c].at = "send" /\ check[c].emails = {}
    /\ lastAlerted' = IF check[c].sent > 0 THEN now ELSE lastAlerted
    /\ check' = [check EXCEPT ![c] = Idle]
    /\ UNCHANGED <<now, status, usage, scanning, alerts, misreported, notices>>

-----------------------------------------------------------------------------
(* The rest of the manager, and what it reads                              *)

\* AlertSubscriptionApproved and AlertSubscriptionRejected mail one owner, if
\* the API, the application and the owner can be read.
AlertDecision(s) ==
    /\ owner[s] # None
    /\ notices' = notices \cup {owner[s]}
    /\ UNCHANGED <<now, status, usage, lastAlerted, check, scanning, alerts, misreported>>

\* AlertAPIDeprecation mails the owners of the subscriptions in any status.
AlertAPIDeprecation ==
    /\ \E reached \in SUBSET {s \in Subscription : status[s] # "NONE"} :
          notices' = notices \cup Owners(reached)
    /\ UNCHANGED <<now, status, usage, lastAlerted, check, scanning, alerts, misreported>>

ResetCooldown ==
    /\ lastAlerted' = None
    /\ alerts' = Calm /\ misreported' = Calm
    /\ UNCHANGED <<now, status, usage, check, scanning, notices>>

CancelScanner ==
    /\ scanning' = FALSE
    /\ UNCHANGED <<now, status, usage, lastAlerted, check, alerts, misreported, notices>>

ChangeSubscription(s) ==
    /\ status' \in {[status EXCEPT ![s] = t] : t \in {"ACTIVE", "BLOCKED"}}
    /\ UNCHANGED <<now, usage, lastAlerted, check, scanning, alerts, misreported, notices>>

Request ==
    /\ usage' \in Usage
    /\ UNCHANGED <<now, status, lastAlerted, check, scanning, alerts, misreported, notices>>

\* A tick ends the cooldown that began before.
Tick ==
    /\ now < MaxTime
    /\ now' = now + 1
    /\ lastAlerted' = None
    /\ alerts' = IF lastAlerted = None THEN alerts ELSE Calm
    /\ misreported' = IF lastAlerted = None THEN misreported ELSE Calm
    /\ UNCHANGED <<status, usage, check, scanning, notices>>

Next ==
    \/ \E c \in Check :
          \/ Begin(c) \/ Measure(c) \/ ListSubscribers(c) \/ Record(c)
          \/ \E a \in Address : SendQuotaAlert(c, a)
    \/ \E s \in Subscription : AlertDecision(s) \/ ChangeSubscription(s)
    \/ AlertAPIDeprecation \/ ResetCooldown \/ CancelScanner \/ Request \/ Tick

Spec == Init /\ [][Next]_vars

-----------------------------------------------------------------------------
\* Between two cooldowns an address gets at most one alert for each check that
\* can be under way at the same time, and one more for each mail that arrived
\* although it was reported as failed.  Hazard: the cooldown is looked at before
\* the mails and started after them, so that checks overlap, and it is not
\* started if every mail seems to have failed.
AlertsBounded == \A a \in Address : alerts[a] <= Cardinality(Check) + misreported[a]
=============================================================================
