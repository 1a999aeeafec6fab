----------------------------- MODULE Changelog -----------------------------
(***************************************************************************)
(* The change log of an API (internal/publisher/changelog.go).  LogChange  *)
(* stamps an entry with its own clock before it inserts it, so entries may *)
(* be inserted in another order than they are listed in; a page is cut out *)
(* of the whole list, newest first, as it is when the page is asked for.   *)
(***************************************************************************)
EXTENDS Naturals, FiniteSets

CONSTANTS
    Writer,
    Limit,         \* limits a client asks for
    defaultLimit, maxLimit,   \* 20 and 100 in the code
    MaxEntries,    \* bound on entries
    None

VARIABLES
    log,       \* entries in the table
    stamped,   \* stamped[w]: the entry w is about to insert, or None
    clock,     \* the last stamp
    browse     \* the client that reads page after page: [on, offset, known, got, misled]

vars == <<log, stamped, clock, browse>>

NoBrowse == [on |-> FALSE, offset |-> 0, known |-> {}, got |-> {}, misled |-> FALSE]

Init ==
    /\ log = {}
    /\ stamped = [w \in Writer |-> None]
    /\ clock = 0
    /\ browse = NoBrowse

\* Entries are their stamps.  One whose API or type is missing is refused.
LogChange(w) ==
    /\ stamped[w] = None
    /\ clock < MaxEntries /\ clock' = clock + 1
    /\ stamped' = [stamped EXCEPT ![w] = clock + 1]
    /\ UNCHANGED <<log, browse>>

\* The insertion, which may fail.
InsertChangelog(w) ==
    /\ stamped[w] # None
    /\ log' \in {log, log \cup {stamped[w]}}
    /\ stamped' = [stamped EXCEPT ![w] = None]
    /\ UNCHANGED <<clock, browse>>

\* The position of an entry in the list, newest first.
GetChangelog(e) == Cardinality({f \in log : f > e})

Clamped(limit) == IF limit <= 0 THEN defaultLimit ELSE IF limit > maxLimit THEN maxLimit ELSE limit

\* Mutant: the last entry of a page is left to the next one.
PageButOne(limit, offset) ==
    {e \in log : GetChangelog(e) \in offset .. offset + Clamped(limit) - 2}

\* The list from offset on, cut at the limit or at its end.
GetChangelogPaginated(limit, offset) ==
    {e \in log : GetChangelog(e) \in offset .. offset + Clamped(limit) - 1}

\* The client goes on by the number of entries it asked for, at most the
\* greatest limit, until it is past the total.  An answer that is another
\* statement's (module StoreClient) has none of the rows.
Browse(limit) ==
    /\ LET b == IF browse.on THEN browse ELSE [NoBrowse EXCEPT !.on = TRUE, !.known = log]
           page == GetChangelogPaginated(limit, b.offset)
           turn == [b EXCEPT !.offset = @ + Clamped(limit)]
       IN  browse' \in {[turn EXCEPT !.got = @ \cup page], [turn EXCEPT !.misled = TRUE]}
    /\ browse.offset < Cardinality(log)
    /\ UNCHANGED <<log, stamped, clock>>

BrowseEnds ==
    /\ browse.on /\ browse.offset >= Cardinality(log)
    /\ browse' = NoBrowse
    /\ UNCHANGED <<log, stamped, clock>>

Next ==
    \/ \E w \in Writer : LogChange(w) \/ InsertChangelog(w)
    \/ \E limit \in Limit : Browse(limit)
    \/ BrowseEnds

LogSpec == Init /\ [][Next]_vars

-----------------------------------------------------------------------------
\* A client that reads to the end has seen every entry that was there when it
\* began, although entries are inserted meanwhile, also before ones it has read,
\* unless a page was answered by another statement's answer.
BrowseComplete ==
    browse.on /\ browse.offset >= Cardinality(log) /\ ~browse.misled => browse.known \subseteq browse.got
=============================================================================
