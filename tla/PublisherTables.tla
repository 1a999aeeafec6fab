-------------------------- MODULE PublisherTables --------------------------
(***************************************************************************)
(* Resources, policies, imports, templates and the change log of the       *)
(* publisher (internal/publisher) on their tables.  Every handler reads    *)
(* rows in one statement and writes in later ones, and a statement that    *)
(* fails may have been executed nevertheless.                              *)
(*                                                                         *)
(* The schema keeps identifiers and (API, method, path) of resources       *)
(* unique and an API as long as rows refer to it.  Columns that the        *)
(* conversions of cmd/apim/main.go drop (the policies of an API or of a    *)
(* resource, parameters, whether a policy is deployed) have no row here.   *)
(***************************************************************************)
EXTENDS Naturals, Sequences, FiniteSetsExt

CONSTANTS
    Api, Id, Policy,  \* identifiers of APIs, resources and policies
    Client,           \* concurrent requests
    upper,            \* upper[m]: spelling m trimmed and in upper case
    Request,          \* what a creation asks for: [methods, path, auth]
    Spec,             \* sets of operations of a specification: [method, path, security]
    apiTemplates,     \* sequences of operations
    Type,             \* spellings of policy types
    lower,            \* lower[t]: t in lower case
    MaxFaults,        \* bound on statements that fail
    MaxTasks,         \* bound on requests
    None

VARIABLES
    apis,       \* apis[a]: [status, throttle] or None
    resources,  \* resources[i]: [api, method, path, auth] or None
    policies,   \* policies[p]: the type of p, or None
    task,       \* task[c]: what request c has still to do
    told,       \* resources and policies that answers said are there
    doubtful,   \* identifiers whose deletion was asked for, or of which an insertion
                \* took the answer of another statement for its own
    drawn,      \* identifiers given out
    faults, tasks

vars == <<apis, resources, policies, task, told, doubtful, drawn, faults, tasks>>

validHTTPMethods == {"GET", "POST", "PUT", "DELETE", "PATCH", "HEAD", "OPTIONS"}
validPolicyTypes == {"api", "application", "subscription", "resource"}

Nothing == [at |-> "idle"]

Init ==
    /\ apis = [a \in Api |-> None]
    /\ resources = [i \in Id |-> None]
    /\ policies = [p \in Policy |-> None]
    /\ task = [c \in Client |-> Nothing]
    /\ told = {} /\ doubtful = {} /\ drawn = {}
    /\ faults = 0 /\ tasks = 0

Begin(c, t) ==
    /\ task[c] = Nothing
    /\ tasks < MaxTasks /\ tasks' = tasks + 1
    /\ task' = [task EXCEPT ![c] = t]

Ends(c) == task' = [task EXCEPT ![c] = Nothing]

\* A statement that turns a table into "after", or that the schema refuses:
\* what it leaves, and whether it returns without error.
Executed(table, after, allowed, result, ok) ==
    \/ /\ result = (IF allowed THEN after ELSE table)
       /\ ok = allowed
       /\ UNCHANGED faults
    \/ /\ faults < MaxFaults /\ faults' = faults + 1
       /\ result \in {table} \cup (IF allowed THEN {after} ELSE {})
       /\ ok = FALSE

Outcome(table, after) == {table, after} \X BOOLEAN

-----------------------------------------------------------------------------
(* Rows                                                                    *)

Fits(i, row) ==
    /\ resources[i] = None
    /\ apis[row.api] # None
    /\ \A j \in Id : resources[j] # None =>
          resources[j].api # row.api \/ resources[j].method # row.method \/ resources[j].path # row.path

ListResourcesByAPI(a) == {i \in Id : resources[i] # None /\ resources[i].api = a}

\* What GetResource and its likes answer about resource i of API a.
GetResource(i, a) ==
    IF resources[i] = None THEN "not_found"
    ELSE IF resources[i].api # a THEN "bad_request" ELSE "ok"

\* Other parts of the program create APIs, change their status and delete them.
Elsewhere(a) ==
    /\ \/ /\ apis[a] = None /\ a \notin drawn
          /\ apis' = [apis EXCEPT ![a] = [status |-> "CREATED", throttle |-> "gold"]]
          /\ drawn' = drawn \cup {a}
       \/ /\ apis[a] # None /\ apis[a].status = "CREATED"
          /\ apis' = [apis EXCEPT ![a].status = "PUBLISHED"]
          /\ UNCHANGED drawn
       \/ /\ apis[a] # None /\ ListResourcesByAPI(a) = {}
          /\ apis' = [apis EXCEPT ![a] = None]
          /\ UNCHANGED drawn
    /\ UNCHANGED <<resources, policies, task, told, doubtful, faults, tasks>>

-----------------------------------------------------------------------------
(* Creating resources                                                      *)

validateMethods(methods) ==
    /\ methods # <<>>
    /\ \A k \in DOMAIN methods : upper[methods[k]] \in validHTTPMethods
    /\ \A j, k \in DOMAIN methods : upper[methods[j]] = upper[methods[k]] => j = k

normalizeMethods(methods) == [k \in DOMAIN methods |-> upper[methods[k]]]

\* Resources still to insert; an import goes on after one that fails.
Inserting(a, todo, goOn) == [at |-> "insert", api |-> a, todo |-> todo, goOn |-> goOn, made |-> {}]

\* The API was read; a bad request ends here.  SaveResource inserts a row per
\* method, all of them with the identifier of the resource.
CreateResource(c, a, request, i) ==
    /\ apis[a] # None
    /\ validateMethods(request.methods) /\ request.path # "relative"
    /\ i \notin drawn /\ drawn' = drawn \cup {i}
    /\ LET methods == normalizeMethods(request.methods)
           row(m) == [api |-> a, method |-> m, path |-> request.path, auth |-> request.auth]
       IN  Begin(c, Inserting(a, [k \in DOMAIN methods |-> <<i, row(methods[k])>>], FALSE))
    /\ UNCHANGED <<apis, resources, policies, told, doubtful, faults>>

isPublicOperation(op) == op.security = "public"

Rows(a, ops, ids, guarded) ==
    [k \in DOMAIN ops |-> <<ids[k], [api |-> a, method |-> ops[k].method,
                                     path |-> ops[k].path, auth |-> ops[k] \in guarded]>>]

\* The API of an import or a template is inserted first, and alone.
CreateAPI(c, a, todo, goOn) ==
    /\ a \notin drawn
    /\ drawn' = drawn \cup {a} \cup {todo[k][1] : k \in DOMAIN todo}
    /\ LET after == [apis EXCEPT ![a] = [status |-> "CREATED", throttle |-> ""]] IN
       \E out \in Outcome(apis, after) :
          /\ Executed(apis, after, TRUE, out[1], out[2])
          /\ apis' = out[1]
          /\ Begin(c, IF out[2] THEN Inserting(a, todo, goOn) ELSE [at |-> "failed"])
    /\ UNCHANGED <<resources, policies, told, doubtful>>

Fresh(n) == {ids \in [1 .. n -> Id \ drawn] : \A j, k \in 1 .. n : ids[j] = ids[k] => j = k}

\* The operations come in the order of a map, which is any.  Authentication is
\* required unless the operation is marked public, for a scheme is always found.
Import(c, a, operations) ==
    \E ops \in Bijection(1 .. Cardinality(operations), operations) : \E ids \in Fresh(Len(ops)) :
       CreateAPI(c, a, Rows(a, ops, ids, {op \in operations : ~isPublicOperation(op)}), TRUE)

ImportFromOpenAPI(c, a, spec) == Import(c, a, spec)

\* Swagger 2 knows no TRACE.
Operations(spec) == {op \in spec : op.method # "TRACE"}

ImportFromSwagger2(c, a, spec) == Import(c, a, Operations(spec))

\* No built-in template asks for authentication.
CreateFromTemplate(c, a, template) ==
    \E ids \in Fresh(Len(template)) :
       CreateAPI(c, a, Rows(a, template, ids, {}), FALSE)

Made(i, row) == [id |-> i, api |-> row.api, method |-> row.method]

\* Mutant: a row that could not be inserted is returned with the others.
InsertAll(c) ==
    /\ task[c].at = "insert" /\ task[c].todo # <<>>
    /\ LET i == task[c].todo[1][1]
           row == task[c].todo[1][2]
           after == [resources EXCEPT ![i] = row]
           rest == [task[c] EXCEPT !.todo = Tail(@)]
       IN  \E out \in Outcome(resources, after) :
             /\ Executed(resources, after, Fits(i, row), out[1], out[2])
             /\ resources' = out[1]
             /\ task' = [task EXCEPT ![c] =
                  IF out[2] \/ task[c].goOn THEN [rest EXCEPT !.made = @ \cup {Made(i, row)}]
                  ELSE [at |-> "failed"]]
    /\ UNCHANGED <<apis, policies, told, doubtful, drawn, tasks>>

InsertOne(c) ==
    /\ task[c].at = "insert" /\ task[c].todo # <<>>
    /\ LET i == task[c].todo[1][1]
           row == task[c].todo[1][2]
           after == [resources EXCEPT ![i] = row]
           rest == [task[c] EXCEPT !.todo = Tail(@)]
       IN  \E out \in Outcome(resources, after) :
             /\ Executed(resources, after, Fits(i, row), out[1], out[2])
             /\ resources' = out[1]
             /\ task' = [task EXCEPT ![c] =
                  IF out[2] THEN [rest EXCEPT !.made = @ \cup {Made(i, row)}]
                  ELSE IF task[c].goOn THEN rest ELSE [at |-> "failed"]]
    /\ UNCHANGED <<apis, policies, told, doubtful, drawn, tasks>>

\* The insertion is told that all is well by an answer that is not its own
\* (module StoreClient); it may or may not have been executed.
InsertMisread(c) ==
    /\ task[c].at = "insert" /\ task[c].todo # <<>>
    /\ faults < MaxFaults /\ faults' = faults + 1
    /\ LET i == task[c].todo[1][1]
           row == task[c].todo[1][2]
       IN  /\ \/ UNCHANGED resources
              \/ Fits(i, row) /\ resources' = [resources EXCEPT ![i] = row]
           /\ task' = [task EXCEPT ![c].todo = Tail(@), ![c].made = @ \cup {Made(i, row)}]
           /\ doubtful' = doubtful \cup {i}
    /\ UNCHANGED <<apis, policies, told, drawn, tasks>>

\* The answer names what was inserted.
AnswerCreated(c) ==
    /\ task[c].at = "insert" /\ task[c].todo = <<>>
    /\ told' = told \cup task[c].made
    /\ Ends(c)
    /\ UNCHANGED <<apis, resources, policies, doubtful, drawn, faults, tasks>>

AnswerFailed(c) ==
    /\ task[c].at = "failed"
    /\ Ends(c)
    /\ UNCHANGED <<apis, resources, policies, told, doubtful, drawn, faults, tasks>>

-----------------------------------------------------------------------------
(* Changing and deleting resources                                         *)

\* A change is worked into the row that was read; new methods are answered,
\* but no column is written for them.
UpdateResource(c, i, a, path) ==
    /\ GetResource(i, a) = "ok"
    /\ path # "relative"
    /\ Begin(c, [at |-> "update", id |-> i,
                 row |-> IF path = "" THEN resources[i] ELSE [resources[i] EXCEPT !.path = path]])
    /\ UNCHANGED <<apis, resources, policies, told, doubtful, drawn, faults>>

\* UPDATE ... WHERE id: no row is changed when it is gone, and a path that
\* another resource of the API has with this method is refused.
WriteResource(c) ==
    /\ task[c].at = "update"
    /\ LET i == task[c].id
           row == task[c].row
           after == IF resources[i] = None THEN resources
                    ELSE [resources EXCEPT ![i].path = row.path, ![i].auth = row.auth]
           allowed == \A j \in Id \ {i} : resources[i] # None /\ resources[j] # None =>
                         \/ resources[j].api # resources[i].api
                         \/ resources[j].method # resources[i].method
                         \/ resources[j].path # row.path
       IN  \E out \in Outcome(resources, after) :
             /\ Executed(resources, after, allowed, out[1], out[2])
             /\ resources' = out[1]
    /\ Ends(c)
    /\ UNCHANGED <<apis, policies, told, doubtful, drawn, tasks>>

DeleteResource(c, i, a) ==
    /\ GetResource(i, a) = "ok"
    /\ Begin(c, [at |-> "delete", id |-> i])
    /\ doubtful' = doubtful \cup {i}
    /\ UNCHANGED <<apis, resources, policies, told, drawn, faults>>

EraseResource(c) ==
    /\ task[c].at = "delete"
    /\ LET after == [resources EXCEPT ![task[c].id] = None] IN
       \E out \in Outcome(resources, after) :
          /\ Executed(resources, after, TRUE, out[1], out[2])
          /\ resources' = out[1]
    /\ Ends(c)
    /\ UNCHANGED <<apis, policies, told, doubtful, drawn, tasks>>

-----------------------------------------------------------------------------
(* Policies                                                                *)

Create(c, p, type) ==
    /\ p \notin drawn /\ drawn' = drawn \cup {p}
    /\ Begin(c, [at |-> "policy", id |-> p, type |-> type])
    /\ UNCHANGED <<apis, resources, policies, told, doubtful, faults>>

CreatePolicy(c, p, type) == lower[type] \in validPolicyTypes /\ Create(c, p, lower[type])

\* The types of the built-in templates.
GetPolicyTemplates == {"api", "resource"}

CreatePolicyFromTemplate(c, p) == \E type \in GetPolicyTemplates : Create(c, p, type)

InsertPolicy(c) ==
    /\ task[c].at = "policy"
    /\ LET after == [policies EXCEPT ![task[c].id] = task[c].type] IN
       \E out \in Outcome(policies, after) :
          /\ Executed(policies, after, TRUE, out[1], out[2])
          /\ policies' = out[1]
          /\ told' = IF out[2] THEN told \cup {[id |-> task[c].id]} ELSE told
    /\ Ends(c)
    /\ UNCHANGED <<apis, resources, doubtful, drawn, tasks>>

InsertPolicyMisread(c) ==
    /\ task[c].at = "policy"
    /\ faults < MaxFaults /\ faults' = faults + 1
    /\ LET p == task[c].id IN
       /\ policies' \in {policies, [policies EXCEPT ![p] = task[c].type]}
       /\ told' = told \cup {[id |-> p]}
       /\ doubtful' = doubtful \cup {p}
    /\ Ends(c)
    /\ UNCHANGED <<apis, resources, drawn, tasks>>

UpdatePolicy(c, p, type) ==
    /\ policies[p] # None
    /\ type # "" => lower[type] \in validPolicyTypes
    /\ Begin(c, [at |-> "repolicy", id |-> p, type |-> IF type = "" THEN policies[p] ELSE lower[type]])
    /\ UNCHANGED <<apis, resources, policies, told, doubtful, drawn, faults>>

WritePolicy(c) ==
    /\ task[c].at = "repolicy"
    /\ LET p == task[c].id
           after == [policies EXCEPT ![p] = IF @ = None THEN None ELSE task[c].type]
       IN  \E out \in Outcome(policies, after) :
             /\ Executed(policies, after, TRUE, out[1], out[2])
             /\ policies' = out[1]
    /\ Ends(c)
    /\ UNCHANGED <<apis, resources, told, doubtful, drawn, tasks>>

DeletePolicy(p) ==
    /\ p \in drawn
    /\ doubtful' = doubtful \cup {p}
    /\ LET after == [policies EXCEPT ![p] = None] IN
       \E out \in Outcome(policies, after) :
          /\ Executed(policies, after, TRUE, out[1], out[2])
          /\ policies' = out[1]
    /\ UNCHANGED <<apis, resources, task, told, drawn, tasks>>

\* The policies of an API are not among its columns: reading it gives none, so
\* DetachPolicy finds nothing to detach and ListAttachedPolicies nothing to list.
attachedPolicies(row) == {}

\* Attaching writes back the row of the API as it was read, without its
\* throttle policy.
AttachPolicy(c, a, p) ==
    /\ apis[a] # None /\ policies[p] # None
    /\ p \notin attachedPolicies(apis[a])
    /\ Begin(c, [at |-> "attach", id |-> a, row |-> [apis[a] EXCEPT !.throttle = ""]])
    /\ UNCHANGED <<apis, resources, policies, told, doubtful, drawn, faults>>

WriteAPI(c) ==
    /\ task[c].at = "attach"
    /\ LET a == task[c].id
           after == [apis EXCEPT ![a] = IF @ = None THEN None ELSE task[c].row]
       IN  \E out \in Outcome(apis, after) :
             /\ Executed(apis, after, TRUE, out[1], out[2])
             /\ apis' = out[1]
    /\ Ends(c)
    /\ UNCHANGED <<resources, policies, told, doubtful, drawn, tasks>>

-----------------------------------------------------------------------------
Next ==
    \/ \E a \in Api : Elsewhere(a)
    \/ \E c \in Client, a \in Api :
          \/ \E r \in Request, i \in Id : CreateResource(c, a, r, i)
          \/ \E spec \in Spec : ImportFromOpenAPI(c, a, spec) \/ ImportFromSwagger2(c, a, spec)
          \/ \E t \in apiTemplates : CreateFromTemplate(c, a, t)
          \/ \E i \in Id : DeleteResource(c, i, a) \/ \E r \in Request : UpdateResource(c, i, a, r.path)
          \/ \E p \in Policy : AttachPolicy(c, a, p)
    \/ \E c \in Client :
          \/ InsertOne(c) \/ InsertMisread(c) \/ AnswerCreated(c) \/ AnswerFailed(c)
          \/ WriteResource(c) \/ EraseResource(c) \/ InsertPolicy(c) \/ InsertPolicyMisread(c)
          \/ WritePolicy(c) \/ WriteAPI(c)
          \/ \E p \in Policy : CreatePolicyFromTemplate(c, p)
          \/ \E p \in Policy, type \in Type : CreatePolicy(c, p, type) \/ UpdatePolicy(c, p, type)
    \/ \E p \in Policy : DeletePolicy(p)

PublisherSpec == Init /\ [][Next]_vars

-----------------------------------------------------------------------------
\* What an answer said was created is there, with its API and its method, until
\* somebody asks to delete it, whatever statements fail and whoever else
\* creates, changes or deletes meanwhile.  Not what was inserted by a statement
\* that took another's answer for its own.
ToldIsThere ==
    \A t \in told : t.id \in doubtful \/
        IF "api" \in DOMAIN t
          THEN /\ GetResource(t.id, t.api) = "ok" /\ resources[t.id].method = t.method
               /\ apis[t.api] # None
          ELSE policies[t.id] # None
=============================================================================
