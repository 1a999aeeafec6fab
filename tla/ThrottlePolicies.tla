-------------------------- MODULE ThrottlePolicies --------------------------
(***************************************************************************)
(* The throttle policies of internal/traffic/policy.go.  Administrators    *)
(* change rows of the policy table through the handlers of traffic/        *)
(* server.go; the engine evaluates requests against compiled policies in   *)
(* memory, which are replaced as a whole by every reload, and one by one   *)
(* by LoadPolicy and UnloadPolicy.                                         *)
(*                                                                         *)
(* Strings are model values.  What a pattern matches is the constant       *)
(* TextMatches, and Malformed are the patterns that do not compile.        *)
(***************************************************************************)
EXTENDS Integers, Sequences, FiniteSetsExt, Functions

CONSTANTS
    Policy,      \* identifiers of policies
    Row,         \* rows an administrator may save
    Request,     \* [ip, text, hour, tier] of a request
    Reloader,    \* goroutines that reload, the refresh loop among them
    Loader,      \* goroutines that load one policy
    TextMatches, \* <<operator, value, pattern>> that match
    Malformed,   \* patterns that do not compile
    Empty,       \* the empty string
    MaxEdits,    \* bound on changes by administrators
    MaxFailures, \* bound on outages of the store
    None

VARIABLES
    table,     \* table[p]: the row of policy p, or None
    policies,  \* policies[p]: the compiled policy in memory, or None
    reload,    \* reload[r]: the rows goroutine r has listed, or None
    load,      \* load[l]: the policy goroutine l has read, [id, row], or None
    answer,    \* the last evaluation: [request, policy, action]
    edits, outages

vars == <<table, policies, reload, load, answer, edits, outages>>

NoPolicies == [p \in Policy |-> None]

Init ==
    /\ table = NoPolicies
    /\ policies = NoPolicies
    /\ reload = [r \in Reloader |-> None]
    /\ load = [l \in Loader |-> None]
    /\ answer = None
    /\ edits = 0 /\ outages = 0

-----------------------------------------------------------------------------
(* Conditions                                                              *)

\* compileCondition refuses a bad regular expression and a bad network.
compileCondition(c) ==
    /\ c.operator \in {"regex", "match"} => c.value \notin Malformed
    /\ c.type = "IP" /\ c.operator = "range" => c.value \notin Malformed

CompilePolicy(row) == \A i \in DOMAIN row.conditions : compileCondition(row.conditions[i])

matchStringValue(v, c) ==
    CASE c.operator = "eq" -> v = c.value
      [] c.operator = "ne" -> v # c.value
      [] c.operator = "in" -> v \in c.values
      [] c.operator = "exists" -> v # Empty
      [] c.operator = "not_exists" -> v = Empty
      [] c.operator \in {"contains", "startswith", "endswith", "regex", "match"} ->
             <<c.operator, v, c.value>> \in TextMatches
      [] OTHER -> FALSE

matchIntRange(n, c) ==
    CASE c.operator = "eq" -> n = c.value
      [] c.operator = "ne" -> n # c.value
      [] c.operator = "lt" -> n < c.value
      [] c.operator = "lte" -> n <= c.value
      [] c.operator = "gt" -> n > c.value
      [] c.operator = "gte" -> n >= c.value
      [] OTHER -> FALSE

evaluateIPCondition(c, q) ==
    /\ q.ip # Empty
    /\ CASE c.operator = "eq" -> q.ip = c.value
         [] c.operator = "ne" -> q.ip # c.value
         [] c.operator = "in" -> q.ip \in c.values
         [] c.operator = "range" -> <<"range", q.ip, c.value>> \in TextMatches
         [] OTHER -> FALSE

evaluateCondition(c, q) ==
    CASE c.type = "IP" -> evaluateIPCondition(c, q)
      [] c.type \in {"Header", "QueryParam", "JWTClaim", "UserAgent"} ->
             matchStringValue(q.text[c.type], c)
      [] c.type = "Time" -> matchIntRange(q.hour, c)
      [] OTHER -> FALSE

-----------------------------------------------------------------------------
(* Evaluation                                                              *)

evaluateConditions(p, q) ==
    \A i \in DOMAIN p.conditions : evaluateCondition(p.conditions[i], q)

evaluateTierMatch(p, q) == p.tier = Empty \/ p.tier = q.tier

\* The pipeline stops at its first stage, the conditions, if the policy blocks
\* or throttles; only other policies get as far as the match of the tier.
evaluatePolicy(p, q) ==
    /\ evaluateConditions(p, q)
    /\ p.action \in {"BLOCK", "THROTTLE"} \/ evaluateTierMatch(p, q)

\* Mutant: the lower one is lost.
Overwrite(s, i, j) == [s EXCEPT ![i] = s[j]]

Exchange(s, i, j) == [s EXCEPT ![i] = s[j], ![j] = s[i]]

Raise(s, i, j) == IF policies[s[j]].priority > policies[s[i]].priority THEN Exchange(s, i, j) ELSE s

\* The inner loop of the sort: position i is compared with those after it.
Pass(s, i) ==
    LET loop[j \in i .. Len(s)] == IF j = i THEN s ELSE Raise(loop[j - 1], i, j)
    IN  loop[Len(s)]

sortPoliciesByPriority(s) ==
    LET loop[i \in 0 .. Len(s)] == IF i = 0 THEN s ELSE Pass(loop[i - 1], i)
    IN  loop[Len(s)]

Enabled == {p \in Policy : policies[p] # None /\ policies[p].enabled}

\* Evaluate takes the enabled policies in the order in which the map yields
\* them, sorts them, and answers with the first that matches.
Evaluate(q) ==
    \E order \in Bijection(1 .. Cardinality(Enabled), Enabled) :
        LET sorted == sortPoliciesByPriority(order)
            matching == {i \in DOMAIN sorted : evaluatePolicy(policies[sorted[i]], q)}
            first == sorted[Min(matching)]
        IN  /\ answer' = IF matching = {}
                           THEN [request |-> q, policy |-> None, action |-> "ALLOW"]
                           ELSE [request |-> q, policy |-> first, action |-> policies[first].action]
            /\ UNCHANGED <<table, policies, reload, load, edits, outages>>

-----------------------------------------------------------------------------
(* Administration                                                          *)

Edit == edits < MaxEdits /\ edits' = edits + 1

\* handleCreatePolicy and handleUpdatePolicy save the row they were sent, which
\* the engine is not told.
SavePolicy(p, row) ==
    /\ Edit
    /\ table' = [table EXCEPT ![p] = row]
    /\ UNCHANGED <<policies, reload, load, answer, outages>>

DeletePolicy(p) ==
    /\ Edit
    /\ table[p] # None
    /\ table' = [table EXCEPT ![p] = None]
    /\ UNCHANGED <<policies, reload, load, answer, outages>>

\* UnloadPolicy takes a policy from memory until the next reload.
UnloadPolicy(p) ==
    /\ Edit
    /\ policies[p] # None
    /\ policies' = [policies EXCEPT ![p] = None]
    /\ UNCHANGED <<table, reload, load, answer, outages>>

\* LoadPolicy reads a row; one that does not exist or compile ends it ...
GetPolicy(l, p) ==
    /\ Edit
    /\ load[l] = None
    /\ table[p] # None /\ CompilePolicy(table[p])
    /\ load' = [load EXCEPT ![l] = [id |-> p, row |-> table[p]]]
    /\ UNCHANGED <<table, policies, reload, answer, outages>>

\* ... and installs it in a later step.
InstallPolicy(l) ==
    /\ load[l] # None
    /\ policies' = [policies EXCEPT ![load[l].id] = load[l].row]
    /\ load' = [load EXCEPT ![l] = None]
    /\ UNCHANGED <<table, reload, answer, edits, outages>>

-----------------------------------------------------------------------------
(* Reload                                                                  *)

\* The rows that compile; the others are skipped.
Compiled(rows) ==
    [p \in Policy |-> IF rows[p] # None /\ CompilePolicy(rows[p]) THEN rows[p] ELSE None]

\* ReloadAllPolicies lists the rows of the table, or fails to ...
ListPolicies(r) ==
    /\ reload[r] = None
    /\ \/ /\ reload' = [reload EXCEPT ![r] = Compiled(table)]
          /\ UNCHANGED outages
       \/ /\ outages < MaxFailures
          /\ outages' = outages + 1
          /\ UNCHANGED reload
    /\ UNCHANGED <<table, policies, load, answer, edits>>

\* Mutant: a policy that is no longer listed stays in memory.
InstallMerged(r) ==
    /\ reload[r] # None
    /\ policies' = [p \in Policy |-> IF reload[r][p] # None THEN reload[r][p] ELSE policies[p]]
    /\ reload' = [reload EXCEPT ![r] = None]
    /\ UNCHANGED <<table, load, answer, edits, outages>>

\* ... and replaces all that is in memory with them.
InstallReload(r) ==
    /\ reload[r] # None
    /\ policies' = reload[r]
    /\ reload' = [reload EXCEPT ![r] = None]
    /\ UNCHANGED <<table, load, answer, edits, outages>>

Next ==
    \/ \E q \in Request : Evaluate(q)
    \/ \E p \in Policy :
          \/ \E row \in Row : SavePolicy(p, row)
          \/ DeletePolicy(p) \/ UnloadPolicy(p)
          \/ \E l \in Loader : GetPolicy(l, p)
    \/ \E l \in Loader : InstallPolicy(l)
    \/ \E r \in Reloader : ListPolicies(r) \/ InstallReload(r)

\* refreshLoop reloads at every tick for as long as the program runs, and a
\* goroutine that has read rows goes on to install them.
Fairness ==
    /\ \A l \in Loader : WF_vars(InstallPolicy(l))
    /\ \A r \in Reloader : WF_vars(ListPolicies(r)) /\ WF_vars(InstallReload(r))

Spec == Init /\ [][Next]_vars /\ Fairness

-----------------------------------------------------------------------------
\* The answer is one of the most important policies among those that match.
\* Hazard: the map yields policies in any order, and the sort is not stable, so
\* that among equal priorities either may answer, but never a lower one.
Important ==
    \A p \in Enabled :
        answer' # answer /\ evaluatePolicy(policies[p], answer'.request) =>
            /\ answer'.policy \in Enabled
            /\ policies[answer'.policy].priority >= policies[p].priority

MostImportantAnswers == [][Important]_vars

\* Once administrators are done the engine comes to hold exactly the rows of
\* the table that compile.  Hazard: a reload that listed the table earlier is
\* installed over newer policies, and a deleted policy is loaded again.
Converges == <>[](policies = Compiled(table))
=============================================================================
