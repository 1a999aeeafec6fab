----------------------------- MODULE AuditTrail -----------------------------
(***************************************************************************)
(* The audit log (internal/audit): AuditLogger queues entries for a worker *)
(* that writes them to the table, the middleware of the HTTP servers      *)
(* writes its own in a goroutine, and a reader pages through the entries   *)
(* of its tenant with GET /audit-logs, the newest first.                   *)
(*                                                                         *)
(* An entry is a number and whether the reader's query, its tenant         *)
(* included, selects it.                                                   *)
(***************************************************************************)
EXTENDS Naturals, Sequences, FiniteSets, Functions

CONSTANTS
    BufferSize,  \* capacity of the buffer, 1000 in the code
    PageSize,    \* limit of a page
    MaxEntries,  \* bound on entries
    MaxReads     \* bound on the pages that are asked for

VARIABLES
    buffer,    \* entries queued for the worker
    worker,    \* "new", "run", "drain" or "done"
    writing,   \* entries the worker is writing, at most one
    pending,   \* entries the middleware's goroutines are writing
    auditLog,  \* the table; the ids of entries are in the order of their timestamps
    lost,      \* entries that were dropped, or whose write failed
    unlogged,  \* those of them that no line of the program's own log tells of
    late,      \* entries queued after the worker had ended
    closing,   \* Close: "no", "waiting" or "returned"
    overtook,  \* Close returned before the worker had begun
    next,      \* the next entry
    reader     \* [at, offset, total, before, seen, due, misled, reads]

logVars == <<buffer, worker, writing, pending, auditLog, lost, unlogged, late, closing,
             overtook, next>>

vars == <<logVars, reader>>

Resting(reads) ==
    [at |-> "idle", offset |-> 0, total |-> 0, before |-> 0, seen |-> {}, due |-> {},
     misled |-> FALSE, reads |-> reads]

Init ==
    /\ buffer = <<>> /\ worker = "new" /\ writing = {}
    /\ pending = {} /\ auditLog = {} /\ lost = {} /\ unlogged = {} /\ late = {}
    /\ closing = "no" /\ overtook = FALSE
    /\ next = 1
    /\ reader = Resting(0)

NewEntry(selected) == [id |-> next, selected |-> selected]

-----------------------------------------------------------------------------
(* Writers                                                                 *)

\* Log, to which LogAPIAction and the like lead, drops the entry if the buffer
\* is full, and logs a warning.
Log(selected) ==
    /\ next <= MaxEntries
    /\ next' = next + 1
    /\ \/ /\ Len(buffer) < BufferSize
          /\ buffer' = Append(buffer, NewEntry(selected))
          /\ late' = IF worker = "done" THEN late \cup {NewEntry(selected)} ELSE late
          /\ UNCHANGED lost
       \/ /\ Len(buffer) >= BufferSize
          /\ lost' = lost \cup {NewEntry(selected)}
          /\ UNCHANGED <<buffer, late>>
    /\ UNCHANGED <<worker, writing, pending, auditLog, unlogged, closing, overtook, reader>>

\* The middleware starts a goroutine after the request, unless its path is
\* excluded or it is an unimportant GET that did not fail.
Middleware(excluded, get, important, failed, selected) ==
    /\ ~excluded /\ (get => important \/ failed)
    /\ next <= MaxEntries
    /\ next' = next + 1
    /\ pending' = pending \cup {NewEntry(selected)}
    /\ UNCHANGED <<buffer, worker, writing, auditLog, lost, unlogged, late, closing, overtook, reader>>

\* A write to the table.
Write(e) ==
    \/ auditLog' = auditLog \cup {e} /\ UNCHANGED lost
    \/ lost' = lost \cup {e} /\ UNCHANGED auditLog

\* The goroutine of the middleware drops the error: nothing is logged.
InsertEntry(e) ==
    /\ e \in pending
    /\ pending' = pending \ {e}
    /\ Write(e)
    /\ unlogged' = unlogged \cup (lost' \ lost)
    /\ UNCHANGED <<buffer, worker, writing, late, closing, overtook, next, reader>>

\* The goroutine registers itself with the wait group when it begins to run.
WorkerBegins ==
    /\ worker = "new"
    /\ worker' = "run"
    /\ UNCHANGED <<buffer, writing, pending, auditLog, lost, unlogged, late, closing, overtook, next, reader>>

Take ==
    /\ worker \in {"run", "drain"} /\ writing = {}
    /\ buffer # <<>>
    /\ writing' = {Head(buffer)}
    /\ buffer' = Tail(buffer)
    /\ UNCHANGED <<worker, pending, auditLog, lost, unlogged, late, closing, overtook, next, reader>>

\* The worker logs the error of its write.
InsertAuditLog(e) ==
    /\ e \in writing
    /\ writing' = {}
    /\ Write(e)
    /\ UNCHANGED <<buffer, worker, pending, unlogged, late, closing, overtook, next, reader>>

SeeDone ==
    /\ worker = "run" /\ writing = {}
    /\ closing # "no"
    /\ worker' = "drain"
    /\ UNCHANGED <<buffer, writing, pending, auditLog, lost, unlogged, late, closing, overtook, next, reader>>

\* Mutant: the worker ends with what it was writing, without a drain.
EndAtOnce ==
    /\ worker = "drain" /\ writing = {}
    /\ worker' = "done"
    /\ UNCHANGED <<buffer, writing, pending, auditLog, lost, unlogged, late, closing, overtook, next, reader>>

WorkerEnds ==
    /\ worker = "drain" /\ writing = {}
    /\ buffer = <<>>
    /\ worker' = "done"
    /\ UNCHANGED <<buffer, writing, pending, auditLog, lost, unlogged, late, closing, overtook, next, reader>>

Close ==
    /\ closing = "no"
    /\ closing' = "waiting"
    /\ UNCHANGED <<buffer, worker, writing, pending, auditLog, lost, unlogged, late, overtook, next, reader>>

\* wg.Wait returns also when nobody has registered yet.
CloseReturns ==
    /\ closing = "waiting" /\ worker \in {"new", "done"}
    /\ closing' = "returned"
    /\ overtook' = (worker = "new")
    /\ UNCHANGED <<buffer, worker, writing, pending, auditLog, lost, unlogged, late, next, reader>>

-----------------------------------------------------------------------------
(* ListAuditLogs                                                           *)

Selected == {e \in auditLog : e.selected}

\* A reader begins with the first page, and is due what the table holds.
BeginRead ==
    /\ reader.at = "idle"
    /\ reader.reads < MaxReads
    /\ reader' = [Resting(reader.reads) EXCEPT !.at = "count", !.due = Selected]
    /\ UNCHANGED logVars

\* queryWithFilters counts first; a count that fails, or is answered by another
\* statement's answer, is zero ...
Count ==
    /\ reader.at = "count"
    /\ reader' \in {[reader EXCEPT !.at = "rows", !.total = Cardinality(Selected), !.before = Cardinality(Selected)],
                    [reader EXCEPT !.at = "rows", !.total = 0, !.misled = TRUE]}
    /\ UNCHANGED logVars

\* The newest first: by the time an entry was made, not by when it was written.
Newer(entries, e) == Cardinality({f \in entries : f.id > e.id})

Page(entries) ==
    {e \in entries : Newer(entries, e) \in reader.offset .. reader.offset + PageSize - 1}

\* Mutant: has_more compares with the last position instead of the length.
HasMoreButOne(rows) == reader.offset + rows < reader.total - 1

HasMore(rows) == reader.offset + rows < reader.total

\* ... and reads the page in another statement, before has_more is worked out
\* from both; the reader goes on with the next page, or has finished.  An answer
\* that is another statement's (module StoreClient) has none of its rows.
Rows ==
    LET raced == reader.misled \/ Cardinality(Selected) # reader.before
        Turn(page, misled) ==
          [reader EXCEPT !.at = IF HasMore(Cardinality(page)) THEN "count" ELSE "read",
                         !.seen = @ \cup page,
                         !.offset = @ + PageSize,
                         !.reads = @ + 1,
                         !.misled = misled]
    IN
    /\ reader.at = "rows"
    /\ reader.reads < MaxReads
    /\ reader' \in {Turn(Page(Selected), raced), Turn({}, TRUE)}
    /\ UNCHANGED logVars

EndRead ==
    /\ reader.at = "read"
    /\ reader' = Resting(reader.reads)
    /\ UNCHANGED logVars

Next ==
    \/ \E selected \in BOOLEAN :
          \/ Log(selected)
          \/ \E excluded, get, important, failed \in BOOLEAN :
                Middleware(excluded, get, important, failed, selected)
    \/ \E e \in pending : InsertEntry(e)
    \/ \E e \in writing : InsertAuditLog(e)
    \/ WorkerBegins \/ Take \/ SeeDone \/ WorkerEnds
    \/ Close \/ CloseReturns
    \/ BeginRead \/ Count \/ Rows \/ EndRead

Spec == Init /\ [][Next]_vars

-----------------------------------------------------------------------------
\* Every entry is queued, being written, in the table or given up; once Close
\* has returned, the worker writes nothing any more, and what is left in the
\* queue, unlogged, was put there after the drain.  Hazard: the worker registers
\* with the wait group only when it begins to run, so that a Close that comes
\* first waits for nothing.
AuditAccounted ==
    /\ {e.id : e \in Range(buffer) \cup writing \cup pending \cup auditLog \cup lost}
           = 1 .. next - 1
    /\ closing = "returned" /\ ~overtook => writing = {} /\ Range(buffer) \subseteq late

\* A reader that has gone through all pages has seen every entry that was there
\* when it began, although entries are added on top meanwhile, unless one came
\* between the count and the rows of a page, the count failed, or an answer was
\* another statement's.
PagesComplete == reader.at = "read" /\ ~reader.misled => reader.due \subseteq reader.seen

\* Entries are never silently dropped (logger.go:3), but written or logged as
\* errors (logger.go:19): once nothing is under way, every entry that was not
\* queued after the worker's end is in the table or was logged as lost.  Hazard:
\* the insertion that fails in a goroutine nobody asks.
NeverSilentlyDropped ==
    closing = "returned" /\ worker = "done" /\ pending = {} =>
        {e.id : e \in auditLog \cup (lost \ unlogged) \cup late} = 1 .. next - 1
=============================================================================
