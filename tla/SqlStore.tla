------------------------------ MODULE SqlStore ------------------------------
(***************************************************************************)
(* What the SQL store (pkg/store/store.go) offers of each of its tables,   *)
(* on top of exec, whose connections the module StoreClient models.  exec  *)
(* sends a statement again after any error, an answer of the database that *)
(* refuses it included; an attempt whose deadline passed may be executed   *)
(* at any later time, and leaves an answer on its connection which a later *)
(* statement, of whatever call, takes for its own.                         *)
(*                                                                         *)
(* One table is followed.  A row belongs to a parent (the API of a version *)
(* or a subscription, the client of a token, the key of a counter) and has *)
(* a mark for whatever of its columns is updated; a counter has a count.   *)
(***************************************************************************)
EXTENDS Naturals, Sequences, Functions

CONSTANTS
    Key,          \* primary keys
    Parent, parentOf,   \* parentOf[k]: what the row with key k belongs to
    Caller,
    maxRetries,
    MaxCalls,     \* bound on calls
    MaxFaults,    \* bound on attempts that fail
    None

Tables == {"tenants", "users", "apis", "api_resources", "api_versions", "applications",
           "application_keys", "subscriptions", "oauth2_clients", "tokens", "api_keys",
           "throttle_policies", "analytics_events", "audit_log", "webhooks",
           "webhook_deliveries", "throttle_counters", "api_mocks", "api_changelog",
           "api_schemas", "schema_migrations"}

Marks == {"a", "b"}

VARIABLES
    tableName,
    rows,      \* rows[k]: [mark, count] or None
    doing,     \* doing[c]: statements c has still to execute, and what they are for
    late,      \* statements whose deadline has passed and that may yet be executed
    expect,    \* expect[k]: the row that the calls which returned without error make
    behind,    \* some connection may hold an answer that nobody has read
    unsure,    \* keys with a call that failed, missed a deadline or took another's answer
    clashed,   \* keys with overlapping calls
    began, faulty

sqlVars == <<tableName, rows, doing, late, behind, expect, unsure, clashed, began, faulty>>

Free == [todo |-> <<>>, attempt |-> 0, meant |-> {}]

Init ==
    /\ tableName \in Tables
    /\ rows = [k \in Key |-> None]
    /\ doing = [c \in Caller |-> Free]
    /\ late = {} /\ behind = FALSE
    /\ expect = rows
    /\ unsure = {} /\ clashed = {}
    /\ began = 0 /\ faulty = 0

-----------------------------------------------------------------------------
(* Statements.  Those with "tolerate" may end in an error that is ignored.  *)

Insert(k, mark) == [op |-> "insert", keys |-> {k}, mark |-> mark, tolerate |-> "none"]
Update(k, mark) == [op |-> "update", keys |-> {k}, mark |-> mark, tolerate |-> "none"]
Erase(K) == [op |-> "delete", keys |-> K, mark |-> "a", tolerate |-> "none"]
Upsert(k) == [op |-> "upsert", keys |-> {k}, mark |-> "a", tolerate |-> "none"]
Unknown(k) == [op |-> "unknown", keys |-> {k}, mark |-> "a", tolerate |-> "none"]
Select(tolerate) == [op |-> "select", keys |-> {}, mark |-> "a", tolerate |-> tolerate]

Children(p) == {k \in Key : parentOf[k] = p}
UpdateAll(p, mark, tolerate) ==
    [op |-> "update", keys |-> Children(p), mark |-> mark, tolerate |-> tolerate]

\* The database refuses a second row with the same key, and a statement that
\* names a column the table does not have.
Refused(table, s) ==
    \/ s.op = "insert" /\ \E k \in s.keys : table[k] # None
    \/ s.op = "unknown"

\* What a statement makes of the row with key k: it may be refused.
Effect(row, s, k) ==
    IF k \notin s.keys THEN row
    ELSE CASE s.op = "insert" -> IF row = None THEN [mark |-> s.mark, count |-> 1] ELSE row
           [] s.op = "update" -> IF row = None THEN None ELSE [mark |-> s.mark, count |-> row.count]
           [] s.op = "delete" -> None
           [] s.op = "upsert" -> IF row = None THEN [mark |-> "a", count |-> 1]
                                 ELSE [mark |-> row.mark, count |-> row.count + 1]
           [] OTHER -> row

Apply(table, s) == [k \in Key |-> Effect(table[k], s, k)]

\* What a call means to make of it: no two of the statements it means are about
\* the same row.
Outcome(row, meant, k) ==
    IF \E s \in meant : k \in s.keys THEN Effect(row, CHOOSE s \in meant : k \in s.keys, k) ELSE row

-----------------------------------------------------------------------------
(* exec                                                                    *)

Touched(statements) == UNION {s.keys : s \in statements}

\* Increments of a counter do not disturb each other.
Disturbs(s, t) == ~(s.op = "upsert" /\ t.op = "upsert")

Undertake(c, statements, meant) ==
    /\ doing[c] = Free
    /\ began < MaxCalls /\ began' = began + 1
    /\ doing' = [doing EXCEPT ![c] = [todo |-> statements, attempt |-> 0, meant |-> meant]]
    /\ clashed' = clashed \cup
         {k \in Touched(meant) : \E other \in Caller \ {c} :
             \E s \in meant, t \in doing[other].meant : k \in s.keys \cap t.keys /\ Disturbs(s, t)}
    /\ UNCHANGED <<tableName, rows, late, behind, expect, unsure, faulty>>

Begin(c, statements) == Undertake(c, statements, Range(statements))

\* The statement is done with: the next one, or the end of a call that returns
\* without error.
Proceed(c) ==
    IF Len(doing[c].todo) > 1
      THEN /\ doing' = [doing EXCEPT ![c] = [todo |-> Tail(@.todo), attempt |-> 0, meant |-> @.meant]]
           /\ UNCHANGED expect
      ELSE /\ doing' = [doing EXCEPT ![c] = Free]
           /\ expect' = [k \in Key |-> Outcome(expect[k], doing[c].meant, k)]

\* The attempt failed: another one, or the end of the statement, of which the
\* caller may make nothing.
Again(c) ==
    LET s == Head(doing[c].todo) IN
    IF doing[c].attempt < maxRetries
      THEN doing' = [doing EXCEPT ![c].attempt = @ + 1] /\ UNCHANGED <<expect, unsure>>
    ELSE IF s.tolerate = "all" \/ (s.tolerate = "duplicate" /\ Refused(rows, s))
      THEN /\ Proceed(c)
           /\ unsure' = IF Refused(rows, s) THEN unsure ELSE unsure \cup s.keys
      ELSE /\ doing' = [doing EXCEPT ![c] = Free]
           /\ unsure' = unsure \cup Touched(doing[c].meant)
           /\ UNCHANGED expect

\* The statement is executed, or refused, and answered in time.
Execute(c) ==
    /\ doing[c] # Free
    /\ LET s == Head(doing[c].todo) IN
       IF Refused(rows, s) THEN Again(c) /\ UNCHANGED rows
       ELSE Proceed(c) /\ rows' = Apply(rows, s) /\ UNCHANGED unsure
    /\ UNCHANGED <<tableName, late, behind, clashed, began, faulty>>

\* No connection, or one that breaks before the statement is sent.
Fail(c) ==
    /\ doing[c] # Free
    /\ faulty < MaxFaults /\ faulty' = faulty + 1
    /\ Again(c)
    /\ UNCHANGED <<tableName, rows, late, behind, clashed, began>>

\* The deadline passes before the answer: the statement is executed later, or
\* never, and the connection goes back to the pool.
MissDeadline(c) ==
    /\ doing[c] # Free
    /\ faulty < MaxFaults /\ faulty' = faulty + 1
    /\ LET s == Head(doing[c].todo)
           again == doing[c].attempt < maxRetries IN
       /\ late' = late \cup {s}
       /\ behind' = TRUE
       /\ IF again THEN doing' = [doing EXCEPT ![c].attempt = @ + 1] /\ UNCHANGED expect
          ELSE IF s.tolerate = "all" THEN Proceed(c)
          ELSE doing' = [doing EXCEPT ![c] = Free] /\ UNCHANGED expect
       /\ unsure' = unsure \cup IF again THEN s.keys ELSE Touched(doing[c].meant)
    /\ UNCHANGED <<tableName, rows, clashed, began>>

\* The statement is sent on a connection that holds the answer of another one,
\* which says that all is well, or does not; its own comes too late for it.
TakeOther(c) ==
    /\ doing[c] # Free
    /\ behind
    /\ LET s == Head(doing[c].todo)
           again == doing[c].attempt < maxRetries
           fails == ~again /\ s.tolerate # "all" IN
       /\ late' = late \cup {s}
       /\ \/ Proceed(c) /\ unsure' = unsure \cup s.keys
          \/ /\ IF again THEN doing' = [doing EXCEPT ![c].attempt = @ + 1] /\ UNCHANGED expect
                ELSE IF fails THEN doing' = [doing EXCEPT ![c] = Free] /\ UNCHANGED expect
                ELSE Proceed(c)
             /\ unsure' = unsure \cup IF fails THEN Touched(doing[c].meant) ELSE s.keys
    /\ UNCHANGED <<tableName, rows, behind, clashed, began, faulty>>

\* What was sent is executed after its call has gone on.
ExecuteLate(s) ==
    /\ s \in late
    /\ late' = late \ {s}
    /\ rows' = Apply(rows, s)
    /\ UNCHANGED <<tableName, doing, behind, expect, unsure, clashed, began, faulty>>

-----------------------------------------------------------------------------
(* The operations of each table                                            *)

Create(c) == \E k \in Key, mark \in Marks : Begin(c, <<Insert(k, mark)>>)
Read(c) == Begin(c, <<Select("none")>>)
Change(c) == \E k \in Key, mark \in Marks : Begin(c, <<Update(k, mark)>>)
Delete(c) == \E k \in Key : Begin(c, <<Erase({k})>>)

\* A page, and then its total; without one the length of the page is returned.
Page(c) == Begin(c, <<Select("none"), Select("all")>>)

\* Mutant: the new default is set before the old one is cleared.
SetDefaultFirst(p, k) == <<Update(k, "b"), UpdateAll(p, "a", "all")>>

\* The marks of a version: "b" is the default, "a" is not.
SetDefault(p, k) == <<UpdateAll(p, "a", "all"), Update(k, "b")>>

SetDefaultVersion(c) ==
    \E p \in Parent : \E k \in Children(p) :
       Undertake(c, SetDefault(p, k),
                 {Update(k, "b"), [UpdateAll(p, "a", "all") EXCEPT !.keys = @ \ {k}]})

Tenants(c) == tableName = "tenants" /\ (Create(c) \/ Read(c))
Users(c) == tableName = "users" /\ (Create(c) \/ Read(c) \/ Change(c) \/ Delete(c))
APIs(c) == tableName = "apis" /\ (Create(c) \/ Read(c) \/ Page(c) \/ Change(c) \/ Delete(c))
Resources(c) == tableName = "api_resources" /\ (Create(c) \/ Read(c) \/ Delete(c))
Versions(c) == tableName = "api_versions" /\ (Create(c) \/ Read(c) \/ SetDefaultVersion(c))
Applications(c) ==
    tableName = "applications" /\ (Create(c) \/ Read(c) \/ Page(c) \/ Change(c) \/ Delete(c))
ApplicationKeys(c) == tableName = "application_keys" /\ (Create(c) \/ Read(c) \/ Change(c))

\* ValidateSubscription reads an active subscription of an application to an API.
Subscriptions(c) ==
    tableName = "subscriptions" /\ (Create(c) \/ Read(c) \/ Page(c) \/ Change(c) \/ Delete(c))

Clients(c) == tableName = "oauth2_clients" /\ (Create(c) \/ Read(c))

\* A token is revoked on its own or with all those of its client.
Tokens(c) ==
    /\ tableName = "tokens"
    /\ \/ \E k \in Key : Begin(c, <<Insert(k, "a")>>) \/ Begin(c, <<Update(k, "b")>>)
       \/ \E p \in Parent : Begin(c, <<UpdateAll(p, "b", "none")>>)
       \/ Read(c)

APIKeys(c) == tableName = "api_keys" /\ (Create(c) \/ Read(c) \/ Change(c))
Policies(c) ==
    tableName = "throttle_policies" /\ (Create(c) \/ Read(c) \/ Change(c) \/ Delete(c))

\* Events are inserted; summaries, rankings and usage are read.
Analytics(c) == tableName = "analytics_events" /\ (Create(c) \/ Read(c))
AuditLog(c) == tableName = "audit_log" /\ (Create(c) \/ Page(c))
Hooks(c) == tableName = "webhooks" /\ (Create(c) \/ Read(c) \/ Delete(c))
Deliveries(c) == tableName = "webhook_deliveries" /\ (Create(c) \/ Change(c))

\* A counter is reset for all its windows.
Counters(c) ==
    /\ tableName = "throttle_counters"
    /\ \/ \E k \in Key : Begin(c, <<Upsert(k)>>)
       \/ \E p \in Parent : Begin(c, <<Erase(Children(p))>>)
       \/ Read(c)

\* UpdateMock sets updated_at, a column the table has not got.
Mocks(c) ==
    /\ tableName = "api_mocks"
    /\ \/ Create(c) \/ Read(c) \/ Delete(c)
       \/ \E k \in Key : Begin(c, <<Unknown(k)>>)
       \/ \E p \in Parent : Begin(c, <<Erase(Children(p))>>)

Changelog(c) == tableName = "api_changelog" /\ (Create(c) \/ Read(c))
Schemas(c) == tableName = "api_schemas" /\ (Create(c) \/ Read(c))

Tolerated(k) == [Insert(k, "a") EXCEPT !.tolerate = "duplicate"]

\* RunMigration executes the statements of a script, passing over what exists
\* already, and then records its name: here two tables and the record of one.
RunMigration(c) ==
    \E first, second \in Key :
       first # second /\ Begin(c, <<Tolerated(first), Tolerated(second)>>)

SchemaMigrations(c) == tableName = "schema_migrations" /\ (RunMigration(c) \/ Read(c))

Next ==
    \/ \E c \in Caller :
          \/ Tenants(c) \/ Users(c) \/ APIs(c) \/ Resources(c) \/ Versions(c)
          \/ Applications(c) \/ ApplicationKeys(c) \/ Subscriptions(c)
          \/ Clients(c) \/ Tokens(c) \/ APIKeys(c) \/ Policies(c)
          \/ Analytics(c) \/ AuditLog(c) \/ Hooks(c) \/ Deliveries(c)
          \/ Counters(c) \/ Mocks(c) \/ Changelog(c) \/ Schemas(c) \/ SchemaMigrations(c)
          \/ Execute(c) \/ Fail(c) \/ MissDeadline(c) \/ TakeOther(c)
    \/ \E s \in late : ExecuteLate(s)

Spec == Init /\ [][Next]_sqlVars

-----------------------------------------------------------------------------
\* A row is what the calls that returned without error have made it, unless a
\* call on it failed, missed a deadline, took another's answer for its own, or
\* overlapped with another.  Hazard: an operation of two statements, a statement
\* sent more than once, and one that is executed long after its call has ended.
WritesKept ==
    \A k \in Key \ (unsure \cup clashed) :
        (\A c \in Caller : k \notin Touched(doing[c].meant)) => rows[k] = expect[k]
=============================================================================
