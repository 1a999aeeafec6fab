----------------------------- MODULE MCManagement -----------------------------
(***************************************************************************)
(* The components around the gateway, which share no state: one of them is *)
(* chosen at the start and moves, so that their states add up instead of   *)
(* multiplying.  Names that two modules use are told apart here.           *)
(***************************************************************************)
EXTENDS Integers, Sequences, FiniteSets, TLC

CONSTANTS
  None, Gone,
  Caller,                                                        \* requests of several modules
  Hook, EventType, Subscribed, MaxAttempts, MaxDeliveries,       \* webhooks
  Check, Scanner, Subscription, Address, owner, Rate, Usage, MaxMinutes,   \* alerts
  BufferSize, PageSize, MaxEntries, MaxReads,                    \* audit
  Conn, Pinger, MaxRequests,                                     \* pool
  StoredKey, Attribute, MaxFailures, MaxWrites,                  \* key-value store
  Process, Script, MaxRuns,                                      \* migrations
  RowKey, Parent, parentOf, MaxCalls,                            \* SQL store
  Api, Id, Policy, Creation, Spelling, upper, Method, Path,      \* publisher's tables: resources,
  Document, apiTemplates, Type, lower, MaxTasks,                 \* ... documents and policies
  Writer, Limit, defaultLimit, maxLimit, MaxChanges,             \* change log
  Metered, Event, apiOf, erroneous, Loop, Hour, Retention, Late, MaxTime,   \* aggregator
  Tenant, Object, Status, Host, Header, RootDomain, MaxTold,     \* GraphQL
  maxRetries, MaxFaults

\* What the splitting of a script tells apart.
Character == {"text", "semicolon", "quote", "escape", "down"}

\* An operation of a document or of a template.
Described == [method: Method, path: Path, security: {"public", "unset", "none"}]

\* The limits and bounds of the configuration are numbers, callers are finitely many, ...
ASSUME BoundsAssumption ==
  /\ MaxAttempts \in Nat \ {0} /\ maxRetries \in Nat
  /\ PageSize \in Nat \ {0} /\ MaxDeliveries \in Nat
  /\ IsFiniteSet(Check) /\ IsFiniteSet(Caller)

\* ... what the configuration names is of the kind its module asks for, ...
ASSUME InputsAssumption ==
  /\ owner \in [Subscription -> Address \cup {None}]
  /\ IsFiniteSet(StoredKey)
  /\ Limit \subseteq Int /\ {defaultLimit, maxLimit} \subseteq Nat \ {0}
  /\ apiOf \in [Event -> Metered]
  /\ Script \in Seq(Seq(Character))
  /\ Creation \subseteq [methods: Seq(Spelling), path: Path, auth: BOOLEAN]
  /\ upper \in [Spelling -> Method]
  /\ \A document \in Document : document \subseteq Described /\ IsFiniteSet(document)
  /\ apiTemplates \subseteq Seq(Described)
  /\ {Hour, Retention} \subseteq Nat

\* ... and None and Gone are none of the values they stand in for.
ASSUME AbsenceAssumption ==
  /\ None \notin Conn /\ None \notin Int
  /\ "Shutdown" \notin Loop
  /\ Gone # None
  /\ {None, Gone} \cap [kind: {"api", "application", "user", "policy", "webhook", "subscription"},
                       tenant: Tenant,
                       status: {"CREATED", "ACTIVE", "undeployed", "active", "inactive", "PUBLISHED"}
                                 \cup Status] = {}
  /\ None \notin [url: {"good", "malformed"}, at: {"created", "post", "again", "note", "close", "done"},
                  attempt: Nat, status: {"pending", "retrying", "delivered", "failed"}]
  /\ None \notin [api: Api, method: Method, path: Path, auth: BOOLEAN]
  /\ None \notin [status: {"CREATED", "PUBLISHED"}, throttle: {"gold", ""}]
  /\ None \notin {"api", "application", "subscription", "resource"}
  /\ None \notin [mark: {"a", "b"}, count: Nat]

VARIABLES
  hook, dispatch, event, job, record, wg, waiting, received, acknowledged, awaited,
  minute, status, usage, lastAlerted, check, scanning, alerts, misreported, notices,
  buffer, worker, writing, pending, auditLog, lost, unlogged, queuedLate, closing, overtook, next, reader,
  phase, link, pool, drained, closed, healthy, checking, caller, requests, panicked,
  namespace, records, call, steady, broken, unread, failures, writes,
  done, migrated, run, locked, asked, muddled, undone, calls, migrationFaults,
  tableName, rows, doing, late, behind, expect, unsure, clashed, began, faulty,
  apis, resources, policies, task, told, doubtful, drawn, publisherFaults, tasks,
  log, stamped, clock, browse,
  now, events, recorded, summaries, agg, running, stopCh, crashed, refused, faults, runs,
  inactive, objects, mutation, announced, unclear, graphFaults,
  subject    \* the component that moves

-------------------------------------------------------------------------------
(* Inputs of the modules, which the configuration names.                  *)

\* One hook wants everything, another wants events that do not come.
Subscriptions == {{"*"}, {"other"}}

AddressOf == [s \in {"s1", "s2"} |-> IF s = "s1" THEN "a1" ELSE "a2"]

\* A quoted semicolon, an escaped quote, and a migration of no statements.
Scripts == << <<"text", "semicolon", "quote", "semicolon", "quote", "down", "text">>,
              <<"text", "escape", "quote", "semicolon">>, <<>> >>

OneParent == [k \in {"k1", "k2"} |-> "p"]

Upper == [m \in {"get", "POST", "TRACE"} |-> IF m = "get" THEN "GET" ELSE m]
Lower == [t \in {"API", "application", "weird", ""} |-> IF t = "API" THEN "api" ELSE t]

Requested == {[methods |-> <<"get", "POST">>, path |-> "/p", auth |-> TRUE],
              [methods |-> <<"POST">>, path |-> "/q", auth |-> FALSE],
              [methods |-> <<"get", "get">>, path |-> "", auth |-> FALSE]}

Operation(m, p, s) == [method |-> m, path |-> p, security |-> s]
Documents == {{Operation("GET", "/p", "public"), Operation("TRACE", "/p", "unset")}}
Templates == {<<Operation("GET", "/p", "none"), Operation("POST", "/p", "none")>>}

ApiOf == [e \in {"e1", "e3"} |-> IF e = "e3" THEN "b" ELSE "a"]

\* Below the root domain, elsewhere, at the root domain itself, and of one label.
Root == <<"api", "example">>
Hosts == {<<"t1", "api", "example">>, <<"t2", "other">>, Root, <<"gw">>}
Headers == {None, "t1"}

\* Attributes are interchangeable, and so are processes.
Interchangeable == Permutations(Attribute \cup Process)

-------------------------------------------------------------------------------
Webhooks == INSTANCE Webhooks WITH maxRetries <- MaxAttempts
Alerts == INSTANCE Alerts WITH MaxTime <- MaxMinutes, now <- minute
AuditTrail == INSTANCE AuditTrail WITH late <- queuedLate
KvPool == INSTANCE KvPool WITH Call <- Caller, crashed <- panicked
KvStore == INSTANCE KvStore WITH Key <- StoredKey
Migrations == INSTANCE Migrations WITH recorded <- migrated, waiting <- locked,
                faults <- migrationFaults, MaxCalls <- MaxRuns
SqlStore == INSTANCE SqlStore WITH Key <- RowKey
Tables == INSTANCE PublisherTables WITH Client <- Caller, faults <- publisherFaults,
                                        Request <- Creation, Spec <- Document
Changelog == INSTANCE Changelog WITH MaxEntries <- MaxChanges
Aggregator == INSTANCE Aggregator WITH Api <- Metered
GraphQl == INSTANCE GraphQl WITH rows <- objects, call <- mutation, told <- announced,
             unsure <- unclear, faults <- graphFaults

-------------------------------------------------------------------------------
webhookVars == <<hook, dispatch, event, job, record, wg, waiting, received, acknowledged,
                 awaited>>
alertVars == <<minute, status, usage, lastAlerted, check, scanning, alerts, misreported,
               notices>>
auditVars == <<buffer, worker, writing, pending, auditLog, lost, unlogged, queuedLate, closing,
               overtook, next, reader>>
poolVars == <<phase, link, pool, drained, closed, healthy, checking, caller, requests,
              panicked>>
kvVars == <<namespace, records, call, steady, broken, unread, failures, writes>>
migrationVars == <<done, migrated, run, locked, asked, muddled, undone, calls,
                   migrationFaults>>
sqlVars == <<tableName, rows, doing, late, behind, expect, unsure, clashed, began, faulty>>
tableVars == <<apis, resources, policies, task, told, doubtful, drawn, publisherFaults,
               tasks>>
logVars == <<log, stamped, clock, browse>>
aggregatorVars == <<now, events, recorded, summaries, agg, running, stopCh, crashed,
                    refused, faults, runs>>
graphVars == <<inactive, objects, mutation, announced, unclear, graphFaults>>

Init ==
  /\ subject \in {"webhooks", "alerts", "audit", "pool", "kv", "migrations", "sql", "tables",
                  "changelog", "aggregator", "graphql"}
  /\ Webhooks!Init /\ Alerts!Init /\ AuditTrail!Init /\ KvPool!Init /\ KvStore!Init
  /\ Migrations!Init /\ SqlStore!Init /\ Tables!Init /\ Changelog!Init /\ Aggregator!Init
  /\ GraphQl!Init
  /\ subject # "kv" => namespace = CHOOSE n \in KvStore!Namespaces : TRUE
  /\ subject # "sql" => tableName = CHOOSE t \in SqlStore!Tables : TRUE

\* The others keep their state.
Only(who) ==
  /\ subject = who /\ UNCHANGED subject
  /\ IF who = "webhooks" THEN TRUE ELSE UNCHANGED webhookVars
  /\ IF who = "alerts" THEN TRUE ELSE UNCHANGED alertVars
  /\ IF who = "audit" THEN TRUE ELSE UNCHANGED auditVars
  /\ IF who = "pool" THEN TRUE ELSE UNCHANGED poolVars
  /\ IF who = "kv" THEN TRUE ELSE UNCHANGED kvVars
  /\ IF who = "migrations" THEN TRUE ELSE UNCHANGED migrationVars
  /\ IF who = "sql" THEN TRUE ELSE UNCHANGED sqlVars
  /\ IF who = "tables" THEN TRUE ELSE UNCHANGED tableVars
  /\ IF who = "changelog" THEN TRUE ELSE UNCHANGED logVars
  /\ IF who = "aggregator" THEN TRUE ELSE UNCHANGED aggregatorVars
  /\ IF who = "graphql" THEN TRUE ELSE UNCHANGED graphVars

Next ==
  \/ Only("webhooks") /\ Webhooks!Next
  \/ Only("alerts") /\ Alerts!Next
  \/ Only("audit") /\ AuditTrail!Next
  \/ Only("pool") /\ KvPool!Next
  \/ Only("kv") /\ KvStore!Next
  \/ Only("migrations") /\ Migrations!Next
  \/ Only("sql") /\ SqlStore!Next
  \/ Only("tables") /\ Tables!Next
  \/ Only("changelog") /\ Changelog!Next
  \/ Only("aggregator") /\ Aggregator!Next
  \/ Only("graphql") /\ GraphQl!Next

Everything == <<webhookVars, alertVars, auditVars, poolVars, kvVars, migrationVars, sqlVars,
                tableVars, logVars, aggregatorVars, graphVars, subject>>

ManagementSpec == Init /\ [][Next]_Everything

-------------------------------------------------------------------------------
\* What a shutdown leaves behind: every audit entry is in the table, in the
\* queue, under way, or given up; once the logger is closed its worker writes
\* nothing more; every delivery whose goroutine had been started has ended; a
\* summary exists for what the last aggregation read, unless it could not be
\* inserted; and every open connection of the key-value client is in the pool
\* or in use.  Hazard: calls and goroutines that are under way when the
\* shutdown begins.  (AuditTrail shows which entries no log tells of.)
ShutdownAccounts ==
  /\ AuditTrail!AuditAccounted
  /\ Webhooks!ShutdownWaits
  /\ Aggregator!FinalCovers
  /\ KvPool!ConnsAccounted

\* Rows say what was done: a call that returned without error, by its own
\* answer, has written its row; a recorded migration has been executed; what an
\* answer said was created, by an insertion with its own answer, is there; a
\* delivery recorded as delivered was taken by the receiver and acknowledged,
\* and one recorded as failed was never acknowledged.  Hazard: statements and
\* posts that fail, are repeated, or are executed although their answer was lost.
RowsTrue ==
  /\ SqlStore!WritesKept
  /\ Migrations!RecordedIsDone
  /\ Tables!ToldIsThere
  /\ Webhooks!RecordsTrue

\* Reads of several statements, each of which had its own answer, miss nothing
\* that was there all the time: a search of the key-value store, the pages of
\* the change log and those of the audit log.  Hazard: rows are written between
\* the statements, and statements fail.
ReadsComplete ==
  /\ KvStore!FindsSteady
  /\ Changelog!BrowseComplete
  /\ AuditTrail!PagesComplete

\* What is announced or summed up: each deletion of a row is announced at most
\* once, whoever asks for it; an address gets no more alerts between two
\* cooldowns than checks overlap and mails are wrongly reported as failed; a
\* summary counts only events of its API with time stamps of its hour, and two
\* summaries of an API and an hour are equal.  Hazard: a row is read before the
\* statement that changes it.
ToldOnce ==
  /\ GraphQl!DeletionsAnnounced
  /\ Alerts!AlertsBounded
  /\ Aggregator!SummariesTrue
===============================================================================
