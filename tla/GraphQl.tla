-------------------------------- MODULE GraphQl --------------------------------
(***************************************************************************)
(* The mutations of the GraphQL server (internal/graphql/resolver.go) for  *)
(* callers whose tenant the middleware of internal/tenant resolved.  Each  *)
(* statement is a step of its own; every resolver filters by tenant, and   *)
(* announces what it did to the audit log and to the webhooks.             *)
(*                                                                         *)
(* A row is its kind, tenant and status; the goroutines that carry an      *)
(* announcement are left out: told is the order they are started in.       *)
(***************************************************************************)
EXTENDS Naturals, Sequences

CONSTANTS
    Tenant,     \* tenants, by the name a request may give them
    Object,     \* identifiers of rows
    Caller,     \* requests under way
    Status,     \* what an update may set the status of an API to
    Host,       \* hosts of requests, as sequences of labels
    Header,     \* values of X-Tenant-ID and of the claim tenant_id, None included
    RootDomain, \* the domain below which subdomains name tenants, <<>> for none
    MaxTold,    \* bound on the announcements about a row
    MaxFaults,  \* bound on statements that fail
    None, Gone

VARIABLES
    inactive,   \* tenants that are suspended or inactive
    rows,       \* rows[o]: [kind, tenant, status], None or Gone
    call,       \* call[c]: [tenant, at, id, read], or None
    told,       \* told[o]: announcements about o: [op, to, by, row]
    unsure,     \* rows a statement about which failed
    faults

vars == <<inactive, rows, call, told, unsure, faults>>

Init ==
    /\ inactive = {}
    /\ rows = [o \in Object |-> None]
    /\ call = [c \in Caller |-> None]
    /\ told = [o \in Object |-> <<>>]
    /\ unsure = {}
    /\ faults = 0

-----------------------------------------------------------------------------
(* The tenant of a request                                                 *)

\* The label before the root domain; of a host that is not below it, the first
\* label, if there are two.
Subdomain(host) ==
    IF host = RootDomain THEN None
    ELSE IF RootDomain # <<>> /\ (\E n \in DOMAIN host : SubSeq(host, n + 1, Len(host)) = RootDomain)
           THEN host[Len(host) - Len(RootDomain)]
           ELSE IF Len(host) >= 2 THEN host[1] ELSE None

\* The first resolver of the chain that finds a name.
Chain(host, header, claim) ==
    IF Subdomain(host) # None THEN Subdomain(host)
    ELSE IF header # None THEN header ELSE claim

\* RequireTenant lets a request in whose name is that of an active tenant.
Enter(c) ==
    /\ call[c] = None
    /\ \E host \in Host, header, claim \in Header :
          LET t == Chain(host, header, claim) IN
          /\ t \in Tenant \ inactive
          /\ call' = [call EXCEPT ![c] = [tenant |-> t, at |-> "resolve", id |-> None, read |-> None]]
    /\ UNCHANGED <<inactive, rows, told, unsure, faults>>

\* The status of a tenant is read once per request.
Suspend(t) ==
    /\ inactive' = IF t \in inactive THEN inactive \ {t} ELSE inactive \cup {t}
    /\ UNCHANGED <<rows, call, told, unsure, faults>>

-----------------------------------------------------------------------------
(* Statements and announcements                                            *)

At(c, at) == call[c] # None /\ call[c].at = at
Ends(c) == call' = [call EXCEPT ![c] = None]

\* WHERE id = $1 AND tenant_id = $2
Selected(c, kind, o) ==
    /\ rows[o] \notin {None, Gone}
    /\ rows[o].kind = kind
    /\ rows[o].tenant = call[c].tenant

\* Rows of an API and of a subscription are audited and published, a webhook is
\* audited, the other rows are published.
Told(kind) ==
    CASE kind = "webhook" -> {"audit"}
      [] kind \in {"api", "subscription"} -> {"audit", "event"}
      [] OTHER -> {"event"}

Announce(c, op, o, row) ==
    /\ Len(told[o]) < MaxTold
    /\ told' = [told EXCEPT ![o] =
                  Append(@, [op |-> op, to |-> Told(row.kind), by |-> call[c].tenant, row |-> row])]

\* A statement that fails may have been executed.
Fails(o, written) ==
    /\ faults < MaxFaults
    /\ faults' = faults + 1
    /\ unsure' = unsure \cup {o}
    /\ rows' \in {rows, written}
    /\ UNCHANGED told

\* INSERT ... RETURNING, with a new identifier.
Insert(c, kind, o, status) ==
    LET row == [kind |-> kind, tenant |-> call[c].tenant, status |-> status]
        written == [rows EXCEPT ![o] = row] IN
    /\ At(c, "resolve") /\ rows[o] = None
    /\ \/ rows' = written /\ Announce(c, "create", o, row) /\ UNCHANGED <<unsure, faults>>
       \/ Fails(o, written)
    /\ Ends(c)
    /\ UNCHANGED inactive

CreateAPI(c, o) == Insert(c, "api", o, "CREATED")
CreateApplication(c, o) == Insert(c, "application", o, "ACTIVE")
CreateUser(c, o) == Insert(c, "user", o, "ACTIVE")
CreateThrottlePolicy(c, o) == Insert(c, "policy", o, "undeployed")
CreateWebhook(c, o) == Insert(c, "webhook", o, "active")

\* UPDATE ... RETURNING of an API; no row is an error.
SetStatus(c, op, o, status) ==
    LET row == [rows[o] EXCEPT !.status = status]
        written == [rows EXCEPT ![o] = row] IN
    /\ IF Selected(c, "api", o)
         THEN \/ rows' = written /\ Announce(c, op, o, row) /\ UNCHANGED <<unsure, faults>>
              \/ Fails(o, written)
         ELSE UNCHANGED <<rows, told, unsure, faults>>
    /\ Ends(c)
    /\ UNCHANGED inactive

\* An update may set any status, or keep the one there is.
UpdateAPI(c, o) ==
    /\ At(c, "resolve")
    /\ \E status \in Status \cup (IF Selected(c, "api", o) THEN {rows[o].status} ELSE {}) :
          SetStatus(c, "update", o, status)

PublishAPI(c, o) == At(c, "resolve") /\ SetStatus(c, "publish", o, "PUBLISHED")

\* A query, or an update of nothing, only reads.
Read(c) ==
    /\ At(c, "resolve")
    /\ Ends(c)
    /\ UNCHANGED <<inactive, rows, told, unsure, faults>>

-----------------------------------------------------------------------------
(* Subscriptions and deletions                                             *)

\* Subscribe asks nothing about the API and the application; it loads what its
\* tenant has of them afterwards, and ignores an error.
Subscribe(c, o) ==
    LET written == [rows EXCEPT ![o] = [kind |-> "subscription", tenant |-> call[c].tenant,
                                        status |-> "ACTIVE"]] IN
    /\ At(c, "resolve") /\ rows[o] = None
    /\ \/ /\ rows' = written
          /\ call' = [call EXCEPT ![c].at = "load", ![c].id = o, ![c].read = written[o]]
          /\ UNCHANGED <<told, unsure, faults>>
       \/ Fails(o, written) /\ Ends(c)
    /\ UNCHANGED inactive

\* What the loads answer is announced with the row that was inserted.
Load(c) ==
    /\ At(c, "load")
    /\ Announce(c, "create", call[c].id, call[c].read)
    /\ Ends(c)
    /\ UNCHANGED <<inactive, rows, unsure, faults>>

\* deleteAPI and unsubscribe read the row first, and ignore an error.
ReadFirst(c, kind, o) ==
    /\ At(c, "resolve") /\ rows[o] # None
    /\ \/ /\ call' = [call EXCEPT ![c].at = kind, ![c].id = o,
                                   ![c].read = IF Selected(c, kind, o) THEN rows[o] ELSE None]
          /\ UNCHANGED <<rows, unsure, told, faults>>
       \/ /\ Fails(o, rows)
          /\ call' = [call EXCEPT ![c].at = kind, ![c].id = o]
    /\ UNCHANGED inactive

DeleteAPI(c, o) == ReadFirst(c, "api", o)
Unsubscribe(c, o) == ReadFirst(c, "subscription", o)

\* Mutant: the rows the statement affected are not asked for.
DeleteUnasked(c) ==
    LET o == call[c].id
        written == IF Selected(c, call[c].at, o) THEN [rows EXCEPT ![o] = Gone] ELSE rows IN
    /\ call[c] # None /\ call[c].at \in {"api", "subscription"}
    /\ \/ /\ rows' = written
          /\ IF call[c].read # None
               THEN Announce(c, "delete", o, call[c].read)
               ELSE UNCHANGED told
          /\ UNCHANGED <<unsure, faults>>
       \/ Fails(o, written)
    /\ Ends(c)
    /\ UNCHANGED inactive

\* Then comes the DELETE, which is announced, with the row that was read, if it
\* has removed one.
Delete(c) ==
    LET o == call[c].id
        written == IF Selected(c, call[c].at, o) THEN [rows EXCEPT ![o] = Gone] ELSE rows IN
    /\ call[c] # None /\ call[c].at \in {"api", "subscription"}
    /\ \/ /\ rows' = written
          /\ IF written # rows /\ call[c].read # None
               THEN Announce(c, "delete", o, call[c].read)
               ELSE UNCHANGED told
          /\ UNCHANGED <<unsure, faults>>
       \/ Fails(o, written)
    /\ Ends(c)
    /\ UNCHANGED inactive

\* A webhook is switched off, which is announced as often as it is asked for.
DeleteWebhook(c, o) ==
    LET written == [rows EXCEPT ![o].status = "inactive"] IN
    /\ At(c, "resolve")
    /\ IF Selected(c, "webhook", o)
         THEN \/ /\ rows' = written
                 /\ Announce(c, "delete", o, written[o])
                 /\ UNCHANGED <<unsure, faults>>
              \/ Fails(o, written)
         ELSE UNCHANGED <<rows, told, unsure, faults>>
    /\ Ends(c)
    /\ UNCHANGED inactive

Next ==
    \/ \E t \in Tenant : Suspend(t)
    \/ \E c \in Caller :
          \/ Enter(c) \/ Read(c) \/ Load(c) \/ Delete(c)
          \/ \E o \in Object :
                \/ CreateAPI(c, o) \/ CreateApplication(c, o) \/ CreateUser(c, o)
                \/ CreateThrottlePolicy(c, o) \/ CreateWebhook(c, o) \/ Subscribe(c, o)
                \/ UpdateAPI(c, o) \/ PublishAPI(c, o)
                \/ DeleteAPI(c, o) \/ Unsubscribe(c, o) \/ DeleteWebhook(c, o)

Spec == Init /\ [][Next]_vars

-----------------------------------------------------------------------------
Deletions(o) == {i \in DOMAIN told[o] : told[o][i].op = "delete"}

\* The deletion of an API or a subscription is announced once, by the tenant it
\* belonged to, unless a statement about it failed, however many callers ask for
\* it at a time; nothing is announced of one that is still there.
\* Hazard: the row that is announced is read before the one that is deleted.
DeletionsAnnounced ==
    \A o \in Object :
        /\ \A i \in DOMAIN told[o] : told[o][i].by = told[o][i].row.tenant
        /\ rows[o] \in {None, Gone} \/ rows[o].kind = "webhook" \/ Deletions(o) = {}
        /\ rows[o] = Gone =>
              \/ \E i \in Deletions(o) : Deletions(o) = {i}
              \/ Deletions(o) = {} /\ o \in unsure
=============================================================================
