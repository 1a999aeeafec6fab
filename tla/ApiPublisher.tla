----------------------------- MODULE ApiPublisher -----------------------------
(***************************************************************************)
(* The publisher's API registry: every handler of internal/publisher that  *)
(* writes a row of the table apis, run concurrently by the server's        *)
(* goroutines over the publisher's store adapter (cmd/apim/main.go).       *)
(*                                                                         *)
(* A handler reads the row (GetAPI), decides on what it read, and writes   *)
(* later with another statement; nothing ties the write to the read.  A    *)
(* transition writes the status column alone, the other handlers write     *)
(* every column back.                                                      *)
(*                                                                         *)
(* The statements go through exec, as StoreClient has it: exec repeats a   *)
(* statement that was executed when only its answer was lost, and a        *)
(* statement whose answer is no longer waited for may be executed later,   *)
(* even when its request has long been answered.                           *)
(***************************************************************************)
EXTENDS Naturals, FiniteSets

CONSTANTS Ids,         \* the ids uuid.New can return
          Publishers,  \* the goroutines that serve publisher requests
          MaxLate      \* how many statements the connections hold unexecuted

ASSUME PublisherAssumption == "none" \notin Ids
ASSUME LateAssumption == MaxLate \in Nat

VARIABLES apiRow,      \* apiRow[a]: the row of API a in the table apis, or Gone
          used,        \* ids ever chosen for a row to insert
          request,     \* request[r]: what request r has read and is about to write
          late         \* requests whose statement was sent and given up

publisherVars == <<apiRow, used, request, late>>

-------------------------------------------------------------------------------
(* Rows and requests *)

Statuses == {"CREATED", "PROTOTYPED", "PUBLISHED", "BLOCKED", "DEPRECATED",
             "RETIRED"}

\* A row stands for its status.  The empty one is what a row holds once every
\* column was overwritten from an API structure that has only its id.
Blank == ""

ApiRows == Statuses \cup {Blank}

Gone == "GONE"

validTransitions ==
  {<<"CREATED", "PROTOTYPED">>, <<"CREATED", "PUBLISHED">>, <<"CREATED", "RETIRED">>,
   <<"PROTOTYPED", "CREATED">>, <<"PROTOTYPED", "PUBLISHED">>, <<"PROTOTYPED", "RETIRED">>,
   <<"PUBLISHED", "BLOCKED">>, <<"PUBLISHED", "DEPRECATED">>, <<"PUBLISHED", "RETIRED">>,
   <<"BLOCKED", "PUBLISHED">>, <<"BLOCKED", "DEPRECATED">>, <<"BLOCKED", "RETIRED">>,
   <<"DEPRECATED", "RETIRED">>, <<"DEPRECATED", "BLOCKED">>}

\* Mutant: an API without a status counts as just created.
isValidTransitionDefaulted(current, target) ==
  <<IF current = Blank THEN "CREATED" ELSE current, target>> \in validTransitions

isValidTransition(current, target) == <<current, target>> \in validTransitions

\* Targets of the handlers: Prototype, Publish and Unblock, Block, Deprecate,
\* Retire.  No handler goes back to CREATED.
Targets == {"PROTOTYPED", "PUBLISHED", "BLOCKED", "DEPRECATED", "RETIRED"}

Deletable == {"CREATED", "RETIRED"}

Inserts == {"create", "version"}

Ops == Inserts \cup {"transition", "save", "delete", "blankOld", "blankNew"}

NoStatement == [op |-> "idle", api |-> "none", seen |-> Gone, target |-> "", new |-> "none"]

ReqStates == [op: Ops \cup {"idle"}, api: Ids \cup {"none"}, seen: ApiRows \cup {Gone},
              target: Targets \cup {""}, new: Ids \cup {"none"}]

\* The requests that have a statement to be executed.
Unexecuted == late \cup {request[r] : r \in {q \in Publishers : request[q] # NoStatement}}

Exists(a) == apiRow[a] # Gone

\* Request r has read the row of a and goes on to the write of op.
BeginWrite(r, op, a, target) ==
  /\ request[r] = NoStatement
  /\ Exists(a)
  /\ request' = [request EXCEPT ![r] = [op |-> op, api |-> a, seen |-> apiRow[a],
                                        target |-> target, new |-> "none"]]
  /\ UNCHANGED <<apiRow, used, late>>

\* Request r has chosen the id n of a row to insert, made from the API a.
BeginInsert(r, op, a, n) ==
  /\ request[r] = NoStatement
  /\ n \notin used
  /\ request' = [request EXCEPT ![r] = [op |-> op, api |-> a, seen |-> "CREATED",
                                        target |-> "", new |-> n]]
  /\ used' = used \cup {n}
  /\ UNCHANGED <<apiRow, late>>

-------------------------------------------------------------------------------
(* Handlers: the read with its checks *)

BeginCreateAPI(r, n) ==
  BeginInsert(r, "create", n, n)

BeginTransition(r, a, target) ==
  /\ isValidTransition(apiRow[a], target)
  /\ BeginWrite(r, "transition", a, target)

\* Any status but RETIRED; a published API needs an admin, who may be the caller.
BeginUpdateAPI(r, a) ==
  /\ apiRow[a] # "RETIRED"
  /\ BeginWrite(r, "save", a, "")

\* The adapter keeps no policies, so every policy is "not attached yet".
BeginAttachPolicy(r, a) == BeginWrite(r, "save", a, "")

\* Mutant: a blocked API may be deleted as well.
BeginDeleteAPIBlocked(r, a) ==
  /\ apiRow[a] \in Deletable \cup {"BLOCKED"}
  /\ BeginWrite(r, "delete", a, "")

BeginDeleteAPI(r, a) ==
  /\ apiRow[a] \in Deletable
  /\ BeginWrite(r, "delete", a, "")

BeginCreateVersion(r, a, n) ==
  /\ Exists(a)
  /\ BeginInsert(r, "version", a, n)

-------------------------------------------------------------------------------
(* Statements: what the database does when it executes that of a request q *)

\* INSERT INTO apis: the primary key refuses a second row.
InsertRow(old, new) == IF old = Gone THEN new ELSE old

\* Mutant: the store inserts the row that is missing.
WriteRowUpsert(old, new) == new

\* UPDATE apis SET ... WHERE id = a: no row, no effect.
WriteRow(old, new) == IF old = Gone THEN Gone ELSE new

\* The new API, or the new version of one.
CreateAPI(q) ==
  /\ q.op \in Inserts
  /\ apiRow' = [apiRow EXCEPT ![q.new] = InsertRow(@, "CREATED")]

WriteTransition(q) ==
  /\ q.op = "transition"
  /\ apiRow' = [apiRow EXCEPT ![q.api] = WriteRow(@, q.target)]

\* UpdateAPI and AttachPolicy write back every column of the row they read,
\* status included.
SaveAPI(q) ==
  /\ q.op = "save"
  /\ apiRow' = [apiRow EXCEPT ![q.api] = WriteRow(@, q.seen)]

DeleteAPI(q) ==
  /\ q.op = "delete"
  /\ apiRow' = [apiRow EXCEPT ![q.api] = Gone]

\* UpdateAPI(&models.API{ID, VersionSetID, UpdatedAt}), once for each row: every
\* other column is written as its zero value.
LinkVersion(q, a) == apiRow' = [apiRow EXCEPT ![a] = WriteRow(@, Blank)]

LinkOldVersion(q) == q.op = "blankOld" /\ LinkVersion(q, q.api)

LinkNewVersion(q) == q.op = "blankNew" /\ LinkVersion(q, q.new)

Statement(q) ==
  \/ CreateAPI(q)
  \/ WriteTransition(q)
  \/ SaveAPI(q)
  \/ DeleteAPI(q)
  \/ LinkOldVersion(q)
  \/ LinkNewVersion(q)

-------------------------------------------------------------------------------
(* exec *)

Finish(r) == request' = [request EXCEPT ![r] = NoStatement]

\* Rows come back without their version set, so the handler that inserted a
\* version goes on to link both rows to a new one.
LinksNext(r) ==
  \/ /\ request[r].op = "version"
     /\ request' = [request EXCEPT ![r].op = "blankOld"]
  \/ /\ request[r].op = "blankOld"
     /\ request' = [request EXCEPT ![r].op = "blankNew"]

\* exec returns: the handler ends, unless it has versions to link.  The version
\* set may not be saved; whether the old version was linked is ignored.
Answered(r) ==
  \/ LinksNext(r)
  \/ request[r].op # "blankOld" /\ Finish(r)

\* The statement is executed; its answer arrives, or exec sends it again.
Execute(r) ==
  /\ request[r] # NoStatement
  /\ Statement(request[r])
  /\ Answered(r) \/ UNCHANGED request
  /\ UNCHANGED <<used, late>>

\* The statement is refused, or was executed and reported as failed, at every
\* attempt.
WriteFails(r) ==
  /\ request[r] # NoStatement
  /\ IF request[r].op = "blankOld" THEN LinksNext(r) ELSE Finish(r)
  /\ UNCHANGED <<apiRow, used, late>>

\* The deadline of an attempt passes before the statement is executed: exec sends
\* it again, gives up, or takes another statement's answer for the one of this.
GiveUp(r) ==
  /\ request[r] # NoStatement
  /\ Cardinality(late \cup {request[r]}) <= MaxLate
  /\ late' = late \cup {request[r]}
  /\ Answered(r) \/ UNCHANGED request
  /\ UNCHANGED <<apiRow, used>>

\* The database gets to a statement that nobody waits for any more; the same one
\* may be left on another connection too.
ExecuteLate(q) ==
  /\ Statement(q)
  /\ late' \in {late, late \ {q}}
  /\ UNCHANGED <<used, request>>

\* The connection breaks before the database gets to it.
Drop(q) ==
  /\ late' = late \ {q}
  /\ UNCHANGED <<apiRow, used, request>>

-------------------------------------------------------------------------------
(* Specification *)

PublisherInit ==
  /\ apiRow = [a \in Ids |-> Gone]
  /\ used = {}
  /\ request = [r \in Publishers |-> NoStatement]
  /\ late = {}

Reads(r) ==
  \E a \in Ids :
    \/ BeginCreateAPI(r, a)
    \/ \E target \in Targets : BeginTransition(r, a, target)
    \/ BeginUpdateAPI(r, a)
    \/ BeginAttachPolicy(r, a)
    \/ BeginDeleteAPI(r, a)
    \/ \E n \in Ids : BeginCreateVersion(r, a, n)

Writes(r) == Execute(r) \/ WriteFails(r) \/ GiveUp(r)

PublisherNext ==
  \/ \E r \in Publishers : Reads(r) \/ Writes(r)
  \/ \E q \in late : ExecuteLate(q) \/ Drop(q)

PublisherSpec == PublisherInit /\ [][PublisherNext]_publisherVars

-------------------------------------------------------------------------------
(* Properties *)

PublisherTypeOK ==
  /\ apiRow \in [Ids -> ApiRows \cup {Gone}]
  /\ used \subseteq Ids
  /\ request \in [Publishers -> ReqStates]
  /\ late \subseteq ReqStates

\* The move of an API from row s to row t that the lifecycle allows.
LegalMove(s, t) ==
  \/ t = s
  \/ isValidTransition(s, t)
  \/ t = Gone /\ s \in Deletable

\* An API leaves its place in the lifecycle (a move outside validTransitions, a
\* deletion outside CREATED and RETIRED) only by the statement of a request that
\* read the row when it had another status, or by the linking of a new version:
\* the handlers' checks miss nothing else.
IllegalOnlyStale ==
  [][\A a \in Ids :
       \/ apiRow[a] = Gone
       \/ LegalMove(apiRow[a], apiRow'[a])
       \/ \E q \in Unexecuted :
            /\ Statement(q)
            /\ \/ q.api = a /\ q.seen # apiRow[a]
               \/ q.op \in {"blankOld", "blankNew"}]_publisherVars

\* A deleted API returns only by the INSERT that created it, executed once more
\* because its answer was lost or late; no update, transition or link of a version
\* in flight when the row goes ever brings it back.
NoReturn ==
  [][\A a \in used :
       apiRow[a] = Gone /\ apiRow'[a] # Gone
         => \E q \in Unexecuted : q.op \in Inserts /\ q.new = a /\ Statement(q)]_publisherVars

\* Request q read the row of a when it was not blank and is still to write it.
MayMend(q, a) ==
  /\ q.op \in {"save", "transition", "delete"}
  /\ q.api = a
  /\ q.seen # Blank

\* An API whose row was blanked can be neither transitioned nor deleted nor
\* repaired by an update: it stays blank, unless a request that read the row
\* before it was blanked has a statement still to be executed.
BlankForEver ==
  [][\A a \in Ids :
       apiRow[a] = Blank /\ (\A q \in Unexecuted : ~MayMend(q, a))
         => apiRow'[a] = Blank]_publisherVars

\* What the next two state is what the repository says of the lifecycle.

\* RETIRED is a terminal state: a retired API is never in another one.
RetiredIsTerminal ==
  [][\A a \in Ids : apiRow[a] = "RETIRED" => apiRow'[a] \in {"RETIRED", "GONE"}]_publisherVars

\* Every API of the registry is in one of the six lifecycle states.
StatusKnown == \A a \in Ids : Exists(a) => apiRow[a] \in Statuses
===============================================================================
