------------------------------- MODULE KvStore -------------------------------
(***************************************************************************)
(* The records of the key-value client (pkg/store/vedadb.go).  A namespace *)
(* holds the records of one entity under their identifiers.  Finding a     *)
(* record by anything else lists the keys and fetches them one by one;     *)
(* revoking a token fetches it and stores it again.  Namespaces do not     *)
(* touch each other: one of them is looked at.                             *)
(*                                                                         *)
(* A record is its attribute (a name, a context, an owner) and, of tokens, *)
(* whether it is revoked.  Module KvPool says how a request may fail.  An  *)
(* attempt whose deadline passes leaves its answer on the connection, and  *)
(* since identifiers of requests are not compared, a later request, of any *)
(* goroutine and namespace, takes it for its own.  A request that is then  *)
(* executed late is one more request to the database.                      *)
(***************************************************************************)
EXTENDS Naturals, Sequences, FiniteSets, Functions

CONSTANTS
    Key, Attribute,
    Caller,      \* goroutines that use the client
    MaxFailures, \* bound on requests that fail and on attempts that miss a deadline
    MaxWrites,   \* bound on writes
    None

Namespaces == {"apis", "applications", "subscriptions", "users", "tokens", "policies", "analytics"}

VARIABLES
    namespace,
    records,   \* records[k]: [attribute, revoked] or None
    call,      \* call[c]: [at, want, left, got, first]
    steady,    \* steady[c]: keys that have matched since the search of c began
    broken,    \* goroutines whose search a failure or another's answer has disturbed
    unread,    \* some connection may hold an answer that nobody has read
    failures, writes

vars == <<namespace, records, call, steady, broken, unread, failures, writes>>

Idle == [at |-> "idle", want |-> None, left |-> <<>>, got |-> {}, first |-> FALSE]

Init ==
    /\ namespace \in Namespaces
    /\ records = [k \in Key |-> None]
    /\ call = [c \in Caller |-> Idle]
    /\ steady = [c \in Caller |-> {}]
    /\ broken = {} /\ unread = FALSE
    /\ failures = 0 /\ writes = 0

\* All attempts of a request fail, perhaps one of them at its deadline ...
Fails == failures < MaxFailures /\ failures' = failures + 1 /\ unread' \in {unread, TRUE}

\* ... or one misses its deadline, and the request goes on with the next.
MissDeadline ==
    /\ failures < MaxFailures /\ failures' = failures + 1
    /\ unread' = TRUE
    /\ UNCHANGED <<records, call, broken, writes>>

\* A request is answered, by whatever was sent on its connection.
Answered == UNCHANGED <<failures, unread>>

Matches(k, want) == records[k] # None /\ (want = "any" \/ records[k].attribute = want)

\* Part of every step: what still matches after it.
Observe ==
    steady' = [c \in Caller |->
                 IF call'[c].at = "idle" THEN {}
                 ELSE IF call[c].at = "idle" THEN {k \in Key : Matches(k, call'[c].want)}
                 ELSE {k \in steady[c] : Matches(k, call[c].want)'}]

-----------------------------------------------------------------------------
(* Set, Get and Delete, and the operations that are no more than these     *)

\* A write that fails may have been applied all the same, and one that took
\* another's answer may not have been applied yet.
Write(k, record) ==
    /\ writes < MaxWrites /\ writes' = writes + 1
    /\ \/ records' = [records EXCEPT ![k] = record] /\ Answered
       \/ records' \in {records, [records EXCEPT ![k] = record]} /\ (Fails \/ (unread /\ Answered))

Store(c, k) ==
    /\ call[c].at = "idle"
    /\ \E a \in Attribute : Write(k, [attribute |-> a, revoked |-> FALSE])
    /\ UNCHANGED <<call, broken>>

Delete(c, k) ==
    /\ call[c].at = "idle"
    /\ Write(k, None)
    /\ UNCHANGED <<call, broken>>

\* What a request for a record may be answered.
Answers(k) ==
    {IF records[k] = None THEN {} ELSE {k}}
        \cup (IF unread THEN {{}} \cup {{j} : j \in Key} ELSE {})

Get(c, k) ==
    /\ call[c].at = "idle"
    /\ \/ /\ \E found \in Answers(k) : call' = [call EXCEPT ![c] = [Idle EXCEPT !.at = "found", !.got = found]]
          /\ Answered
       \/ Fails /\ UNCHANGED call
    /\ UNCHANGED <<records, broken, writes>>

-----------------------------------------------------------------------------
(* List, and the searches                                                  *)

\* A search goes on while keys are left.
Searching(want, left, got, first) ==
    [at |-> IF left = <<>> THEN "found" ELSE "fetch", want |-> want, left |-> left, got |-> got,
     first |-> first]

\* The keys of a namespace, in any order, or those of another list.
List(c, want, first) ==
    /\ call[c].at = "idle"
    /\ \E listed \in SUBSET Key :
          /\ \/ listed = {k \in Key : records[k] # None} /\ UNCHANGED broken
             \/ unread /\ broken' = broken \cup {c}
          /\ \E keys \in Bijection(1 .. Cardinality(listed), listed) :
                call' = [call EXCEPT ![c] = Searching(want, keys, {}, first)]
    /\ UNCHANGED <<records, unread, failures, writes>>

\* The search goes on after the record of k, which matches or does not.
Took(c, k, hit) ==
    call' = [call EXCEPT ![c] = Searching(@.want, IF hit /\ @.first THEN <<>> ELSE Tail(@.left),
                                          IF hit THEN @.got \cup {k} ELSE @.got, @.first)]

\* Mutant: a search ends at a record that is gone.
FetchOrStop(c) ==
    /\ call[c].at = "fetch"
    /\ LET k == Head(call[c].left) IN
       \/ /\ IF records[k] = None THEN call' = [call EXCEPT ![c] = Searching(@.want, <<>>, @.got, @.first)]
             ELSE Took(c, k, Matches(k, call[c].want))
          /\ UNCHANGED broken /\ Answered
       \/ Took(c, k, FALSE) /\ broken' = broken \cup {c} /\ Fails
       \/ unread /\ broken' = broken \cup {c} /\ Answered
            /\ \E j \in Key, hit \in BOOLEAN : Took(c, j, hit)
    /\ UNCHANGED <<records, writes>>

\* A key whose record cannot be fetched, or is gone, is skipped; a search for
\* one record ends at the first that matches.  Another's answer holds whatever
\* record that one asked for, or none.
Fetch(c) ==
    /\ call[c].at = "fetch"
    /\ LET k == Head(call[c].left) IN
       \/ Took(c, k, Matches(k, call[c].want)) /\ UNCHANGED broken /\ Answered
       \/ Took(c, k, FALSE) /\ broken' = broken \cup {c} /\ Fails
       \/ unread /\ broken' = broken \cup {c} /\ Answered
            /\ \E j \in Key, hit \in BOOLEAN : Took(c, j, hit)
    /\ UNCHANGED <<records, writes>>

Return(c) ==
    /\ call[c].at = "found"
    /\ call' = [call EXCEPT ![c] = Idle]
    /\ broken' = broken \ {c}
    /\ UNCHANGED <<records, unread, failures, writes>>

Search(c, first) == \E a \in Attribute : List(c, a, first)

-----------------------------------------------------------------------------
(* RevokeToken                                                             *)

\* The token that was read, which may be another one, is written under its own
\* identifier.
GetForRevoke(c, k) ==
    /\ call[c].at = "idle"
    /\ \E j \in Key, a \in Attribute :
          /\ unread \/ (j = k /\ records[k] # None /\ records[k].attribute = a)
          /\ call' = [call EXCEPT ![c] = [Idle EXCEPT !.at = "revoke", !.want = a, !.left = <<j>>]]
    /\ UNCHANGED <<records, broken, unread, failures, writes>>

\* StoreToken writes back all that was read, whatever was stored since.
StoreRevoked(c) ==
    /\ call[c].at = "revoke"
    /\ Write(call[c].left[1], [attribute |-> call[c].want, revoked |-> TRUE])
    /\ call' = [call EXCEPT ![c] = Idle]
    /\ UNCHANGED broken

-----------------------------------------------------------------------------
(* What the client offers of each entity                                   *)

Records(c) == \E k \in Key : Store(c, k) \/ Get(c, k)

APIs(c) ==
    namespace = "apis" /\ (Records(c) \/ (\E k \in Key : Delete(c, k)) \/ Search(c, TRUE) \/ List(c, "any", FALSE))

Applications(c) ==
    namespace = "applications"
        /\ (Records(c) \/ (\E k \in Key : Delete(c, k)) \/ Search(c, TRUE) \/ List(c, "any", FALSE))

\* By application, all that match; by API and application, one.
Subscriptions(c) ==
    namespace = "subscriptions"
        /\ (Records(c) \/ (\E k \in Key : Delete(c, k)) \/ \E first \in BOOLEAN : Search(c, first))

\* By name or by address.
Users(c) ==
    namespace = "users" /\ (Records(c) \/ (\E k \in Key : Delete(c, k)) \/ Search(c, TRUE))

Tokens(c) ==
    namespace = "tokens"
        /\ (Records(c) \/ Search(c, TRUE) \/ \E k \in Key : GetForRevoke(c, k))

Policies(c) ==
    namespace = "policies" /\ (Records(c) \/ Search(c, TRUE) \/ List(c, "any", FALSE))

\* Events are stored; queries run in the database.
Analytics(c) == namespace = "analytics" /\ \E k \in Key : Store(c, k)

Next ==
    /\ \/ \E c \in Caller :
             \/ APIs(c) \/ Applications(c) \/ Subscriptions(c) \/ Users(c) \/ Tokens(c)
             \/ Policies(c) \/ Analytics(c)
             \/ Fetch(c) \/ Return(c) \/ StoreRevoked(c)
       \/ MissDeadline
    /\ Observe
    /\ UNCHANGED namespace

Spec == Init /\ [][Next]_vars

-----------------------------------------------------------------------------
\* A search whose requests all worked, each with its own answer, returns what
\* matched all the time: all of it, or one record if it asked for one.  Hazard:
\* the keys are listed once, and records come and go while they are fetched one
\* by one.  (What a request makes of another's answer may be anything.)
FindsSteady ==
    \A c \in Caller : call[c].at = "found" /\ call[c].want # None /\ c \notin broken =>
        IF call[c].first THEN steady[c] # {} => call[c].got # {}
        ELSE steady[c] \subseteq call[c].got
=============================================================================
