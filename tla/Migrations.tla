----------------------------- MODULE Migrations -----------------------------
(***************************************************************************)
(* The migrator (internal/migrations/migrator.go).  Instances of the       *)
(* program run the pending migrations statement by statement over a        *)
(* connection of their own and record each one after its last statement;   *)
(* an administrator rolls migrations back the same way.  The database has  *)
(* no transaction around any of it.                                        *)
(*                                                                         *)
(* A request that misses its deadline leaves its answer on the connection, *)
(* where the next request takes it for its own.  Scripts are sequences of  *)
(* the characters that the splitting tells apart.                          *)
(***************************************************************************)
EXTENDS Naturals, Sequences, FiniteSets, Functions

CONSTANTS
    Process,    \* instances of the program
    Script,     \* Script[m]: the file of migration m; files are numbered in order
    MaxCalls,   \* bound on calls of Up, UpTo and Down
    MaxFaults,  \* bound on crashes, missed deadlines and statements that fail
    None

Migration == DOMAIN Script

VARIABLES
    done,      \* statements <<m, i>> whose effect the database has
    recorded,  \* schema_migrations: the recorded migrations, in order of their ids
    run,       \* run[p]: [at, todo, stmt, down]: what process p is doing
    waiting,   \* waiting[p]: answers on its connection that nobody has read
    asked,     \* asked[p]: p has sent a request and not read an answer yet
    muddled,   \* some answer was left behind on a connection
    undone,    \* migrations a rollback of which has begun
    calls, faults

vars == <<done, recorded, run, waiting, asked, muddled, undone, calls, faults>>

Stopped == [at |-> "idle", todo |-> <<>>, stmt |-> 1, down |-> FALSE]

Init ==
    /\ done = {} /\ recorded = <<>>
    /\ run = [p \in Process |-> Stopped]
    /\ waiting = [p \in Process |-> <<>>]
    /\ asked = [p \in Process |-> FALSE]
    /\ muddled = FALSE
    /\ undone = {}
    /\ calls = 0 /\ faults = 0

Fault == faults < MaxFaults /\ faults' = faults + 1

-----------------------------------------------------------------------------
(* The scripts                                                             *)

\* The part of a sequence before the first element that is not good.
Leading(s, Good(_)) == SubSeq(s, 1, Cardinality({i \in DOMAIN s : \A j \in 1 .. i : Good(s[j])}))

\* What follows the marker undoes what precedes it.
splitUpDown(s) ==
    LET up == Leading(s, LAMBDA c : c # "down")
    IN  [up |-> up, down |-> SubSeq(s, Len(up) + 2, Len(s))]

\* Where the splitting is after n characters: behind a backslash, within quotes,
\* and whether anything has come since the last statement.
Splitter(s, n) ==
    LET step(t, c) ==
          IF t.escaped THEN [t EXCEPT !.escaped = FALSE]
          ELSE CASE c = "escape" -> [t EXCEPT !.escaped = TRUE, !.rest = TRUE]
                 [] c = "quote" -> [t EXCEPT !.quoted = ~@, !.rest = TRUE]
                 [] c = "semicolon" /\ ~t.quoted -> [t EXCEPT !.rest = FALSE]
                 [] OTHER -> [t EXCEPT !.rest = TRUE]
        after[i \in 0 .. n] ==
          IF i = 0 THEN [quoted |-> FALSE, escaped |-> FALSE, rest |-> FALSE]
          ELSE step(after[i - 1], s[i])
    IN  after[n]

EndsStatement(s, i) ==
    LET before == Splitter(s, i - 1) IN s[i] = "semicolon" /\ ~before.quoted /\ ~before.escaped

\* The number of statements: a semicolon ends one unless it is quoted or
\* escaped, and so does the end of the script if anything is left.
splitStatements(s) ==
    Cardinality({i \in DOMAIN s : EndsStatement(s, i)}) + (IF Splitter(s, Len(s)).rest THEN 1 ELSE 0)

Ups(m) == splitStatements(splitUpDown(Script[m]).up)
Downs(m) == splitStatements(splitUpDown(Script[m]).down)

Statements(m, down) == IF down THEN Downs(m) ELSE Ups(m)

-----------------------------------------------------------------------------
(* Requests                                                                *)

Ask(p, answer) ==
    /\ asked' = [asked EXCEPT ![p] = TRUE]
    /\ waiting' = [waiting EXCEPT ![p] = Append(@, answer)]

\* sendRequest returns the first answer on the connection.
Answer(p) == Head(waiting[p])

Read(p) ==
    /\ asked[p]
    /\ asked' = [asked EXCEPT ![p] = FALSE]
    /\ waiting' = [waiting EXCEPT ![p] = Tail(@)]

\* The deadline passes first: the call ends with an error.
MissDeadline(p) ==
    /\ asked[p]
    /\ Fault
    /\ asked' = [asked EXCEPT ![p] = FALSE]
    /\ muddled' = TRUE
    /\ run' = [run EXCEPT ![p] = Stopped]
    /\ UNCHANGED <<done, recorded, waiting, undone, calls>>

\* The process dies, and begins again with a new connection.
Crash(p) ==
    /\ run[p].at # "idle"
    /\ Fault
    /\ run' = [run EXCEPT ![p] = Stopped]
    /\ waiting' = [waiting EXCEPT ![p] = <<>>]
    /\ asked' = [asked EXCEPT ![p] = FALSE]
    /\ UNCHANGED <<done, recorded, muddled, undone, calls>>

-----------------------------------------------------------------------------
(* Up, UpTo and Down                                                       *)

\* GetAppliedMigrations is sent; target is the last migration to apply, or the
\* number of migrations to roll back.
Begin(p, down, target) ==
    /\ run[p].at = "idle"
    /\ calls < MaxCalls /\ calls' = calls + 1
    /\ Ask(p, [rows |-> recorded, status |-> "ok"])
    /\ run' = [run EXCEPT ![p] = [at |-> "list", todo |-> <<target>>, stmt |-> 1, down |-> down]]
    /\ UNCHANGED <<done, recorded, muddled, undone, faults>>

Proceed(p, todo, down) ==
    run' = [run EXCEPT ![p] = IF todo = <<>> THEN Stopped
                              ELSE [at |-> "send", todo |-> todo, stmt |-> 1, down |-> down]]

Pending(applied, target) == {m \in Migration \ Range(applied) : m <= target /\ Ups(m) > 0}

\* The sequence of a set of migrations in the order of their files.
InOrder(S) ==
    {todo \in [1 .. Cardinality(S) -> S] : \A i, j \in DOMAIN todo : i < j => todo[i] < todo[j]}

\* The last ones recorded, newest first, as far as each has a way down.
Rollback(applied, n) ==
    LET newest == [i \in 1 .. IF n < Len(applied) THEN n ELSE Len(applied) |->
                     applied[Len(applied) - i + 1]]
    IN  Leading(newest, LAMBDA m : Downs(m) > 0)

\* An answer that is another request's has no rows: nothing seems to be applied.
List(p) ==
    /\ run[p].at = "list"
    /\ Read(p)
    /\ IF Answer(p).status = "ok"
         THEN \E todo \in IF run[p].down THEN {Rollback(Answer(p).rows, run[p].todo[1])}
                          ELSE InOrder(Pending(Answer(p).rows, run[p].todo[1])) :
                Proceed(p, todo, run[p].down)
         ELSE run' = [run EXCEPT ![p] = Stopped]
    /\ UNCHANGED <<done, recorded, muddled, undone, calls, faults>>

Reply(status) == [rows |-> <<>>, status |-> status]

\* The next statement is executed, or refused: what exists already changes
\* nothing.  A statement on the way down may undo all of its migration.
Send(p) ==
    LET m == Head(run[p].todo)
        i == run[p].stmt
    IN
    /\ run[p].at = "send"
    /\ \/ /\ done' = IF run[p].down THEN done \ {<<m, j>> : j \in 1 .. Ups(m)} ELSE done \cup {<<m, i>>}
          /\ Ask(p, Reply("ok"))
          /\ UNCHANGED faults
       \/ /\ <<m, i>> \in done /\ ~run[p].down
          /\ Ask(p, Reply("exists"))
          /\ UNCHANGED <<done, faults>>
       \/ /\ Fault
          /\ Ask(p, Reply("error"))
          /\ UNCHANGED done
    /\ undone' = IF run[p].down THEN undone \cup {m} ELSE undone
    /\ run' = [run EXCEPT ![p].at = "reply"]
    /\ UNCHANGED <<recorded, muddled, calls>>

\* Mutant: an error of a statement does not stop the migration.
AcceptedAlways(p) == TRUE

\* On the way up what exists already counts as done.
Accepted(p) == Answer(p).status = "ok" \/ (Answer(p).status = "exists" /\ ~run[p].down)

Receive(p) ==
    LET m == Head(run[p].todo) IN
    /\ run[p].at = "reply"
    /\ Read(p)
    /\ run' = [run EXCEPT ![p] =
                 IF ~Accepted(p) THEN Stopped
                 ELSE IF run[p].stmt < Statements(m, run[p].down) THEN [@ EXCEPT !.at = "send", !.stmt = run[p].stmt + 1]
                 ELSE [@ EXCEPT !.at = "record"]]
    /\ UNCHANGED <<done, recorded, muddled, undone, calls, faults>>

\* A name is recorded once.
Without(m) ==
    LET at == CHOOSE i \in DOMAIN recorded : recorded[i] = m
    IN  IF m \in Range(recorded)
          THEN SubSeq(recorded, 1, at - 1) \o SubSeq(recorded, at + 1, Len(recorded)) ELSE recorded
With(m) == IF m \in Range(recorded) THEN recorded ELSE Append(recorded, m)

\* INSERT OR IGNORE, or DELETE, of the migration's name, unless it is refused.
Record(p) ==
    LET m == Head(run[p].todo) IN
    /\ run[p].at = "record"
    /\ \/ /\ recorded' = IF run[p].down THEN Without(m) ELSE With(m)
          /\ Ask(p, Reply("ok"))
          /\ UNCHANGED faults
       \/ /\ Fault
          /\ Ask(p, Reply("error"))
          /\ UNCHANGED recorded
    /\ run' = [run EXCEPT ![p].at = "recorded"]
    /\ UNCHANGED <<done, muddled, undone, calls>>

Recorded(p) ==
    /\ run[p].at = "recorded"
    /\ Read(p)
    /\ IF Answer(p).status = "ok" THEN Proceed(p, Tail(run[p].todo), run[p].down)
       ELSE run' = [run EXCEPT ![p] = Stopped]
    /\ UNCHANGED <<done, recorded, muddled, undone, calls, faults>>

Next ==
    \E p \in Process :
       \/ \E down \in BOOLEAN, target \in Migration : Begin(p, down, target)
       \/ List(p) \/ Send(p) \/ Receive(p) \/ Record(p) \/ Recorded(p)
       \/ MissDeadline(p) \/ Crash(p)

Spec == Init /\ [][Next]_vars

-----------------------------------------------------------------------------
\* A recorded migration has had the effect of every one of its statements,
\* whatever crashed, unless its rollback has begun or an answer was left behind
\* on a connection and taken for that of another request.  Hazard: statements
\* run one by one, twice after a crash, by two instances at once.
RecordedIsDone ==
    \A m \in Range(recorded) \ undone :
        muddled \/ {<<m, i>> : i \in 1 .. Ups(m)} \subseteq done
=============================================================================
