------------------------- MODULE ApiPublisher_proofs --------------------------
(***************************************************************************)
(* Theorems about the publisher's API registry, for every set of ids, of   *)
(* concurrent requests and every number of late statements.  The inductive *)
(* invariant says what the statement of a request, pending or late, still  *)
(* knows of the row that was read for it: the check its handler made.      *)
(***************************************************************************)
EXTENDS ApiPublisher, TLAPS

USE PublisherAssumption DEF PublisherAssumption

\* What the handler checked before it went on to the statement of q.
PendingOK(q) ==
  /\ q.op \in Ops
  /\ q.api \in Ids
  /\ q.seen \in ApiRows
  /\ q.op = "transition" => isValidTransition(q.seen, q.target) /\ q.target \in Targets
  /\ q.op = "delete" => q.seen \in Deletable
  /\ q.op \in Inserts \cup {"blankOld", "blankNew"} => q.new \in used

\* The inductive invariant.
IInv ==
  /\ PublisherTypeOK
  /\ \A q \in Unexecuted : PendingOK(q)
  /\ \A a \in Ids : apiRow[a] # Gone => a \in used

\* The statuses that handlers write are rows, and a missing row is none.
LEMMA RowFacts ==
  /\ Blank \in ApiRows
  /\ Gone \notin ApiRows
  /\ "CREATED" \in ApiRows
  /\ Targets \subseteq ApiRows
BY DEF Blank, Gone, ApiRows, Statuses, Targets

\* No check passes on a blanked row.
LEMMA BlankFacts ==
  /\ Blank # Gone
  /\ Blank \notin Deletable
  /\ \A t : ~isValidTransition(Blank, t)
BY DEF Blank, Gone, Deletable, isValidTransition, validTransitions

\* A request that is not being served is well typed.
LEMMA IdleFacts ==
  /\ NoStatement \in ReqStates
  /\ NoStatement.op = "idle"
  /\ "idle" \notin Ops
BY DEF NoStatement, ReqStates, Ops, Inserts

\* Before the first request.
LEMMA InitIInv == PublisherInit => IInv
BY IdleFacts DEF PublisherInit, IInv, PublisherTypeOK, Unexecuted

\* The request of a pending statement.
LEMMA InFlight ==
  ASSUME IInv, NEW r \in Publishers, request[r] # NoStatement
  PROVE  /\ request[r] \in Unexecuted
         /\ request[r] \in ReqStates
         /\ PendingOK(request[r])
BY DEF IInv, PublisherTypeOK, Unexecuted

\* When request r goes on as x, its old statement may become a late one: no other
\* statement is new.
LEMMA PendingNext ==
  ASSUME IInv, NEW r \in Publishers, NEW x \in ReqStates, x # NoStatement => PendingOK(x)',
         request' = [request EXCEPT ![r] = x], late' \subseteq Unexecuted,
         used \subseteq used'
  PROVE  /\ request' \in [Publishers -> ReqStates]
         /\ \A q \in Unexecuted' : PendingOK(q)'
<1>1. request' \in [Publishers -> ReqStates]
  BY DEF IInv, PublisherTypeOK
<1>2. ASSUME NEW q \in Unexecuted' PROVE PendingOK(q)'
  <2>1. q \in Unexecuted \/ (q = x /\ x # NoStatement)
    BY DEF Unexecuted, IInv, PublisherTypeOK
  <2>2. CASE q \in Unexecuted
    BY <2>2 DEF PendingOK, IInv
  <2> QED BY <2>1, <2>2
<1> QED BY <1>1, <1>2

\* A step that changes no request and makes no statement late that was not pending.
LEMMA PendingKept ==
  ASSUME IInv, UNCHANGED <<request, used>>, late' \subseteq Unexecuted
  PROVE  \A q \in Unexecuted' : PendingOK(q)'
BY DEF IInv, Unexecuted, PendingOK

\* What exec's return leaves of a request.
LEMMA AnsweredOK ==
  ASSUME IInv, NEW r \in Publishers, request[r] # NoStatement, UNCHANGED used,
         LinksNext(r) \/ Finish(r) \/ UNCHANGED request, late' \subseteq Unexecuted
  PROVE  /\ request' \in [Publishers -> ReqStates]
         /\ \A q \in Unexecuted' : PendingOK(q)'
<1>1. PendingOK(request[r]) /\ request[r] \in ReqStates
  BY InFlight
<1>2. CASE Finish(r)
  BY <1>2, IdleFacts, PendingNext DEF Finish
<1>3. CASE UNCHANGED request
  BY <1>3, PendingKept DEF IInv, PublisherTypeOK
<1>4. ASSUME NEW op \in {"blankOld", "blankNew"},
             request[r].op \in {"version", "blankOld"},
             request' = [request EXCEPT ![r].op = op]
      PROVE  /\ request' \in [Publishers -> ReqStates]
             /\ \A q \in Unexecuted' : PendingOK(q)'
  <2>0. PICK x : x = [request[r] EXCEPT !.op = op]
    OBVIOUS
  <2>1. request' = [request EXCEPT ![r] = x]
    BY <1>4, <2>0 DEF IInv, PublisherTypeOK
  <2>2. /\ x \in ReqStates
        /\ x.op = op /\ x.api = request[r].api /\ x.seen = request[r].seen
        /\ x.new = request[r].new
    BY <1>1, <2>0 DEF ReqStates, Ops
  <2>3. request[r].new \in used
    BY <1>1, <1>4 DEF PendingOK, Inserts
  <2>4. PendingOK(x)'
    BY <1>1, <2>2, <2>3 DEF PendingOK, Ops
  <2> QED BY <2>1, <2>2, <2>4, PendingNext
<1> QED BY <1>2, <1>3, <1>4 DEF LinksNext

\* A request that begins has read an existing row, and has checked what it is about
\* to do against it.
LEMMA BeginOK ==
  ASSUME IInv, NEW r \in Publishers, NEW a \in Ids, NEW op \in {"transition", "save", "delete"},
         NEW target \in Targets \cup {""}, BeginWrite(r, op, a, target),
         op = "transition" => isValidTransition(apiRow[a], target) /\ target \in Targets,
         op = "delete" => apiRow[a] \in Deletable
  PROVE  IInv'
<1>0. PICK x : x = [op |-> op, api |-> a, seen |-> apiRow[a], target |-> target,
                    new |-> "none"]
  OBVIOUS
<1>1. apiRow[a] \in ApiRows
  BY DEF IInv, PublisherTypeOK, BeginWrite, Exists
<1>2. /\ x \in ReqStates
      /\ x.op = op /\ x.api = a /\ x.seen = apiRow[a] /\ x.target = target
  BY <1>0, <1>1 DEF ReqStates, Ops
<1>3. request' = [request EXCEPT ![r] = x] /\ UNCHANGED <<apiRow, used, late>>
  BY <1>0 DEF BeginWrite
<1>4. PendingOK(x)'
  BY <1>1, <1>2 DEF PendingOK, Ops, Inserts
<1> QED BY <1>2, <1>3, <1>4, PendingNext DEF IInv, PublisherTypeOK, Unexecuted

\* A request that begins an insert has chosen an id of its own.
LEMMA BeginInsertOK ==
  ASSUME IInv, NEW r \in Publishers, NEW a \in Ids, NEW n \in Ids, NEW op \in Inserts,
         BeginInsert(r, op, a, n)
  PROVE  IInv'
<1> DEFINE x == [op |-> op, api |-> a, seen |-> "CREATED", target |-> "", new |-> n]
<1>1. /\ x \in ReqStates
      /\ x.op = op /\ x.api = a /\ x.seen = "CREATED" /\ x.new = n
  BY RowFacts DEF ReqStates, Ops
<1>2. request' = [request EXCEPT ![r] = x] /\ UNCHANGED <<apiRow, late>> /\ used' = used \cup {n}
  BY DEF BeginInsert
<1> HIDE DEF x
<1>3. PendingOK(x)'
  BY <1>1, <1>2, RowFacts DEF PendingOK, Ops, Inserts
<1> QED BY <1>1, <1>2, <1>3, PendingNext DEF IInv, PublisherTypeOK, Unexecuted

\* What a statement does to the row of a.
LEMMA StatementFacts ==
  ASSUME IInv, NEW q \in Unexecuted, Statement(q), NEW a \in Ids
  PROVE  \/ apiRow'[a] = apiRow[a]
         \/ apiRow[a] = Gone /\ apiRow'[a] = "CREATED" /\ q.op \in Inserts /\ q.new = a
         \/ /\ apiRow[a] # Gone /\ q.api = a
            /\ \/ q.op = "transition" /\ apiRow'[a] = q.target
               \/ q.op = "save" /\ apiRow'[a] = q.seen
               \/ q.op = "delete" /\ apiRow'[a] = Gone
         \/ apiRow[a] # Gone /\ apiRow'[a] = Blank /\ q.op \in {"blankOld", "blankNew"}
<1>1. CASE CreateAPI(q)
  BY <1>1 DEF CreateAPI, InsertRow, IInv, PublisherTypeOK
<1>2. CASE WriteTransition(q)
  BY <1>2 DEF WriteTransition, WriteRow, IInv, PublisherTypeOK
<1>3. CASE SaveAPI(q)
  BY <1>3 DEF SaveAPI, WriteRow, IInv, PublisherTypeOK
<1>4. CASE DeleteAPI(q)
  BY <1>4 DEF DeleteAPI, IInv, PublisherTypeOK
<1>5. CASE LinkOldVersion(q) \/ LinkNewVersion(q)
  BY <1>5 DEF LinkOldVersion, LinkNewVersion, LinkVersion, WriteRow, IInv, PublisherTypeOK
<1> QED BY <1>1, <1>2, <1>3, <1>4, <1>5 DEF Statement

\* A statement keeps the rows well typed and inserts only a chosen id.
LEMMA StatementOK ==
  ASSUME IInv, NEW q \in Unexecuted, Statement(q)
  PROVE  /\ apiRow' \in [Ids -> ApiRows \cup {Gone}]
         /\ \A a \in Ids : apiRow'[a] # Gone => a \in used
<1>1. PendingOK(q)
  BY DEF IInv
<1>2. ASSUME NEW a \in Ids
      PROVE  apiRow'[a] \in ApiRows \cup {Gone} /\ (apiRow'[a] # Gone => a \in used)
  BY <1>1, <1>2, StatementFacts, RowFacts DEF IInv, PublisherTypeOK, PendingOK
<1>3. \E new : apiRow' = [a \in Ids |-> new[a]]
  BY DEF Statement, CreateAPI, WriteTransition, SaveAPI, DeleteAPI, LinkOldVersion,
         LinkNewVersion, LinkVersion, IInv, PublisherTypeOK
<1> QED BY <1>2, <1>3

\* Every step of a request or of the database.
LEMMA NextIInv == IInv /\ [PublisherNext]_publisherVars => IInv'
<1> SUFFICES ASSUME IInv, [PublisherNext]_publisherVars PROVE IInv'
  OBVIOUS
<1>1. CASE UNCHANGED publisherVars
  BY <1>1 DEF publisherVars, IInv, PublisherTypeOK, Unexecuted, PendingOK
<1>2. ASSUME NEW r \in Publishers, Reads(r) PROVE IInv'
  <2>1. ASSUME NEW a \in Ids, BeginCreateAPI(r, a) PROVE IInv'
    BY <2>1, BeginInsertOK DEF BeginCreateAPI, Inserts
  <2>2. ASSUME NEW a \in Ids, NEW target \in Targets, BeginTransition(r, a, target)
        PROVE  IInv'
    BY <2>2, BeginOK DEF BeginTransition
  <2>3. ASSUME NEW a \in Ids, BeginUpdateAPI(r, a) \/ BeginAttachPolicy(r, a)
        PROVE  IInv'
    BY <2>3, BeginOK DEF BeginUpdateAPI, BeginAttachPolicy
  <2>4. ASSUME NEW a \in Ids, BeginDeleteAPI(r, a) PROVE IInv'
    BY <2>4, BeginOK DEF BeginDeleteAPI
  <2>5. ASSUME NEW a \in Ids, NEW n \in Ids, BeginCreateVersion(r, a, n) PROVE IInv'
    BY <2>5, BeginInsertOK DEF BeginCreateVersion, Inserts
  <2> QED BY <1>2, <2>1, <2>2, <2>3, <2>4, <2>5 DEF Reads
<1>3. ASSUME NEW r \in Publishers, Execute(r) PROVE IInv'
  <2>1. request[r] # NoStatement /\ request[r] \in Unexecuted /\ Statement(request[r])
    BY <1>3, InFlight DEF Execute
  <2>2. /\ LinksNext(r) \/ Finish(r) \/ UNCHANGED request
        /\ UNCHANGED <<used, late>>
    BY <1>3 DEF Execute, Answered
  <2>3. late' \subseteq Unexecuted /\ late' \subseteq ReqStates
    BY <2>2 DEF Unexecuted, IInv, PublisherTypeOK
  <2>4. /\ apiRow' \in [Ids -> ApiRows \cup {Gone}]
        /\ \A a \in Ids : apiRow'[a] # Gone => a \in used
    BY <2>1, StatementOK
  <2>5. /\ request' \in [Publishers -> ReqStates]
        /\ \A q \in Unexecuted' : PendingOK(q)'
    BY <2>1, <2>2, <2>3, AnsweredOK
  <2> QED BY <2>2, <2>3, <2>4, <2>5 DEF IInv, PublisherTypeOK
<1>4. ASSUME NEW r \in Publishers, WriteFails(r) PROVE IInv'
  <2>1. /\ request[r] # NoStatement
        /\ LinksNext(r) \/ Finish(r) \/ UNCHANGED request
        /\ UNCHANGED <<apiRow, used, late>>
    BY <1>4 DEF WriteFails
  <2>2. late' \subseteq Unexecuted /\ late' \subseteq ReqStates
    BY <2>1 DEF Unexecuted, IInv, PublisherTypeOK
  <2>3. /\ request' \in [Publishers -> ReqStates]
        /\ \A q \in Unexecuted' : PendingOK(q)'
    BY <2>1, <2>2, AnsweredOK
  <2> QED BY <2>1, <2>2, <2>3 DEF IInv, PublisherTypeOK
<1>5. ASSUME NEW r \in Publishers, GiveUp(r) PROVE IInv'
  <2>1. /\ request[r] # NoStatement
        /\ LinksNext(r) \/ Finish(r) \/ UNCHANGED request
        /\ UNCHANGED <<apiRow, used>>
        /\ late' = late \cup {request[r]}
    BY <1>5 DEF GiveUp, Answered
  <2>2. late' \subseteq Unexecuted /\ late' \subseteq ReqStates
    BY <2>1, InFlight DEF Unexecuted, IInv, PublisherTypeOK
  <2>3. /\ request' \in [Publishers -> ReqStates]
        /\ \A q \in Unexecuted' : PendingOK(q)'
    BY <2>1, <2>2, AnsweredOK
  <2> QED BY <2>1, <2>2, <2>3 DEF IInv, PublisherTypeOK
<1>6. ASSUME NEW q \in late, ExecuteLate(q) \/ Drop(q) PROVE IInv'
  <2>1. q \in Unexecuted /\ UNCHANGED <<used, request>> /\ late' \subseteq late
    BY <1>6 DEF ExecuteLate, Drop, Unexecuted
  <2>2. /\ apiRow' \in [Ids -> ApiRows \cup {Gone}]
        /\ \A a \in Ids : apiRow'[a] # Gone => a \in used
    BY <1>6, <2>1, StatementOK DEF ExecuteLate, Drop, IInv, PublisherTypeOK
  <2>3. late' \subseteq Unexecuted /\ late' \subseteq ReqStates
    BY <2>1 DEF Unexecuted, IInv, PublisherTypeOK
  <2> QED BY <2>1, <2>2, <2>3, PendingKept DEF IInv, PublisherTypeOK
<1> QED BY <1>1, <1>2, <1>3, <1>4, <1>5, <1>6 DEF PublisherNext, Writes

\* Rows change only by a pending statement.
LEMMA OnlyStatements ==
  ASSUME IInv, PublisherNext
  PROVE  UNCHANGED apiRow \/ \E q \in Unexecuted : Statement(q)
<1>1. ASSUME NEW r \in Publishers, Reads(r) PROVE UNCHANGED apiRow
  BY <1>1 DEF Reads, BeginCreateAPI, BeginTransition, BeginUpdateAPI, BeginAttachPolicy,
              BeginDeleteAPI, BeginCreateVersion, BeginWrite, BeginInsert
<1>2. ASSUME NEW r \in Publishers, Writes(r)
      PROVE  UNCHANGED apiRow \/ \E q \in Unexecuted : Statement(q)
  BY <1>2, InFlight DEF Writes, Execute, WriteFails, GiveUp
<1>3. ASSUME NEW q \in late, ExecuteLate(q) \/ Drop(q)
      PROVE  UNCHANGED apiRow \/ \E p \in Unexecuted : Statement(p)
  BY <1>3 DEF ExecuteLate, Drop, Unexecuted
<1> QED BY <1>1, <1>2, <1>3 DEF PublisherNext

\* The registry stays well typed, whatever the requests do to each other.
THEOREM TypeCorrect == PublisherSpec => []PublisherTypeOK
<1>1. IInv => PublisherTypeOK
  BY DEF IInv
<1> QED BY InitIInv, NextIInv, <1>1, PTL DEF PublisherSpec

\* A deleted API returns only by a repeated or late execution of its own INSERT:
\* every other statement is an UPDATE or a DELETE, which finds no row.
THEOREM DeletedForEver == PublisherSpec => NoReturn
<1>1. IInv /\ [PublisherNext]_publisherVars
        => [\A a \in used :
              apiRow[a] = Gone /\ apiRow'[a] # Gone
                => \E q \in Unexecuted : q.op \in Inserts /\ q.new = a /\ Statement(q)]_publisherVars
  <2> SUFFICES ASSUME IInv, PublisherNext, NEW a \in used, apiRow[a] = Gone, apiRow'[a] # Gone
               PROVE  \E q \in Unexecuted : q.op \in Inserts /\ q.new = a /\ Statement(q)
    BY DEF publisherVars
  <2>1. a \in Ids
    BY DEF IInv, PublisherTypeOK
  <2>2. PICK q \in Unexecuted : Statement(q)
    BY OnlyStatements
  <2> QED BY <2>1, <2>2, StatementFacts
<1> QED BY InitIInv, NextIInv, <1>1, PTL DEF PublisherSpec, NoReturn

\* A blanked API stays blank: no handler's check lets a transition or a deletion
\* start from the empty status, and an update writes back what it read.
THEOREM NoMending == PublisherSpec => BlankForEver
<1>1. IInv /\ [PublisherNext]_publisherVars
        => [\A a \in Ids :
              apiRow[a] = Blank /\ (\A q \in Unexecuted : ~MayMend(q, a))
                => apiRow'[a] = Blank]_publisherVars
  <2> SUFFICES ASSUME IInv, PublisherNext, NEW a \in Ids, apiRow[a] = Blank,
                      \A q \in Unexecuted : ~MayMend(q, a), apiRow'[a] # Blank
               PROVE  FALSE
    BY DEF publisherVars
  <2>1. PICK q \in Unexecuted : Statement(q)
    BY OnlyStatements
  <2>2. PendingOK(q) /\ ~MayMend(q, a)
    BY DEF IInv
  <2>3. /\ q.api = a /\ q.op \in {"transition", "save", "delete"}
        /\ q.op = "save" => apiRow'[a] = q.seen
    BY <2>1, BlankFacts, StatementFacts
  <2>4. q.seen = Blank
    BY <2>2, <2>3 DEF MayMend
  <2> QED BY <2>2, <2>3, <2>4, BlankFacts DEF PendingOK
<1> QED BY InitIInv, NextIInv, <1>1, PTL DEF PublisherSpec, BlankForEver

\* The lifecycle is left only by a stale statement or by the linking of a version.
THEOREM LeavesOnlyStale == PublisherSpec => IllegalOnlyStale
<1>1. IInv /\ [PublisherNext]_publisherVars
        => [\A a \in Ids :
              \/ apiRow[a] = Gone
              \/ LegalMove(apiRow[a], apiRow'[a])
              \/ \E q \in Unexecuted :
                   /\ Statement(q)
                   /\ \/ q.api = a /\ q.seen # apiRow[a]
                      \/ q.op \in {"blankOld", "blankNew"}]_publisherVars
  <2> SUFFICES ASSUME IInv, PublisherNext, NEW a \in Ids, apiRow[a] # Gone, apiRow'[a] # apiRow[a],
                      \A q \in Unexecuted : Statement(q) =>
                        /\ q.api = a => q.seen = apiRow[a]
                        /\ q.op \notin {"blankOld", "blankNew"}
               PROVE  LegalMove(apiRow[a], apiRow'[a])
    BY DEF publisherVars, LegalMove
  <2>1. PICK q \in Unexecuted : Statement(q)
    BY OnlyStatements
  <2>2. PendingOK(q) /\ q.op \notin {"blankOld", "blankNew"}
    BY <2>1 DEF IInv
  <2>3. /\ q.api = a
        /\ \/ q.op = "transition" /\ apiRow'[a] = q.target
           \/ q.op = "save" /\ apiRow'[a] = q.seen
           \/ q.op = "delete" /\ apiRow'[a] = Gone
    BY <2>1, <2>2, StatementFacts
  <2>4. q.seen = apiRow[a]
    BY <2>1, <2>3
  <2> QED BY <2>2, <2>3, <2>4 DEF PendingOK, LegalMove
<1> QED BY InitIInv, NextIInv, <1>1, PTL DEF PublisherSpec, IllegalOnlyStale
===============================================================================
