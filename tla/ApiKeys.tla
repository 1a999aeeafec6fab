-------------------------------- MODULE ApiKeys --------------------------------
(***************************************************************************)
(* API keys of the key manager (internal/keymanager/apikey.go) over the    *)
(* table api_keys, through the adapter of cmd/apim/main.go.                *)
(*                                                                         *)
(* The manager keeps the keys it generated in a map, consults the map      *)
(* before the table, and never puts a key it read from the table into the  *)
(* map.  The map has a lock, the table is reached without it: a call is a  *)
(* sequence of statements and map operations, one action each.  A          *)
(* statement may fail, and may then have been applied all the same.        *)
(*                                                                         *)
(* Expiry is left out: map and table hold the same ValidTo.                *)
(***************************************************************************)
EXTENDS Naturals, FiniteSets

CONSTANTS Keys,         \* keys that can be generated
          Calls,        \* calls of the manager that overlap
          MaxFailures   \* bound on the failed statements

ASSUME KeysAssumption == "none" \notin Keys

ASSUME FailuresAssumption == MaxFailures \in Nat

VARIABLES row,        \* row[k]: the row of key k in api_keys
          keys,       \* the map: keys found without asking the table
          known,      \* keys whose raw value was returned to somebody
          call,       \* call[c]: where call c is, about which key
          touched,    \* keys whose Update after a validation is still to run
          failures,   \* failed statements so far
          overtaken,  \* keys put into the map after they were revoked
          unsure,     \* keys revoked by a statement that was reported as failed
          validated,  \* keys ever accepted by ValidateKey
          parent      \* parent[k]: the key that k was regenerated from

history == <<overtaken, unsure, validated, parent>>

keyVars == <<row, keys, known, call, touched, failures, history>>

-------------------------------------------------------------------------------
(* Rows and calls *)

\* A row is its status and whether the name and scopes it was given are there.
Rows == [status: {"absent", "active", "revoked"}, named: BOOLEAN]

Absent == [status |-> "absent", named |-> FALSE]

Idle == [at |-> "idle", key |-> "none", named |-> FALSE]

\* key is the key the call is about; from "create" to "insert" it is the key
\* the new one replaces, if any, and named whether that had name and scopes.
CallStates ==
  [at: {"idle", "create", "fetch", "revoke", "evict", "replace", "replaceEvict"},
   key: Keys \cup {"none"}, named: BOOLEAN]
    \cup [at: {"insert"}, key: Keys, named: BOOLEAN]

At(c, where) == call[c].at = where

Leave(c) == call' = [call EXCEPT ![c] = Idle]

Go(c, where) == call' = [call EXCEPT ![c].at = where]

Enter(c, where, k, named) ==
  call' = [call EXCEPT ![c] = [at |-> where, key |-> k, named |-> named]]

Fails == failures < MaxFailures /\ failures' = failures + 1

Works == UNCHANGED failures

-------------------------------------------------------------------------------
(* GenerateKey and GenerateJWTAPIKey *)

BeginGenerate(c) ==
  /\ At(c, "idle")
  /\ Enter(c, "create", "none", TRUE)
  /\ UNCHANGED <<row, keys, known, touched, failures, history>>

\* Mutant: a regenerated key starts without name and scopes.
CreateBare(c, k) ==
  /\ At(c, "create")
  /\ row[k] = Absent
  /\ row' = [row EXCEPT ![k] = [status |-> "active", named |-> call[c].key = "none"]]
  /\ parent' = [parent EXCEPT ![k] = call[c].key]
  /\ \/ Works /\ Enter(c, "insert", k, FALSE)
     \/ Fails /\ Leave(c)
  /\ UNCHANGED <<keys, known, touched, overtaken, unsure, validated>>

\* GenerateKey inserts the row of a key that nobody had before...
Create(c, k) ==
  /\ At(c, "create")
  /\ row[k] = Absent
  /\ row' = [row EXCEPT ![k] = [status |-> "active", named |-> call[c].named]]
  /\ parent' = [parent EXCEPT ![k] = call[c].key]
  /\ \/ Works /\ Enter(c, "insert", k, FALSE)
     \/ Fails /\ Leave(c)
  /\ UNCHANGED <<keys, known, touched, overtaken, unsure, validated>>

\* ...and only then, under the lock, puts the key into the map.
Insert(c) ==
  /\ At(c, "insert")
  /\ LET k == call[c].key IN
       /\ keys' = keys \cup {k}
       /\ known' = known \cup {k}
       /\ overtaken' = IF row[k].status = "revoked" THEN overtaken \cup {k}
                       ELSE overtaken
  /\ Leave(c)
  /\ UNCHANGED <<row, touched, failures, unsure, validated, parent>>

\* A self-signed key has a row, but neither a hash nor the row's id in its
\* token, and is not put into the map.
GenerateJWTAPIKey(c, k) ==
  /\ At(c, "idle")
  /\ row[k] = Absent
  /\ row' = [row EXCEPT ![k] = [status |-> "active", named |-> TRUE]]
  /\ UNCHANGED <<keys, known, call, touched, failures, history>>

-------------------------------------------------------------------------------
(* ValidateKey, ValidateKeyByHash *)

Accept(k) ==
  /\ touched' = touched \cup {k}
  /\ validated' = validated \cup {k}

\* A key in the map was not revoked when it was put there, and that is all that
\* is looked at.
ValidateFromMap(c, k) ==
  /\ At(c, "idle")
  /\ k \in known \cap keys
  /\ Accept(k)
  /\ UNCHANGED <<row, keys, known, call, failures, overtaken, unsure, parent>>

ValidateMiss(c, k) ==
  /\ At(c, "idle")
  /\ k \in known \ keys
  /\ Enter(c, "fetch", k, FALSE)
  /\ UNCHANGED <<row, keys, known, touched, failures, history>>

\* The fallback to the store: GetByKey finds active rows only.
Fetch(c) ==
  /\ At(c, "fetch")
  /\ IF row[call[c].key].status = "active" THEN Accept(call[c].key)
     ELSE UNCHANGED <<touched, validated>>
  /\ Leave(c)
  /\ UNCHANGED <<row, keys, known, failures, overtaken, unsure, parent>>

\* Mutant: the usage is counted by writing back the key as it was when accepted.
UpdateWhole(k) ==
  /\ k \in touched
  /\ touched' = touched \ {k}
  /\ row' = [row EXCEPT ![k] = [status |-> "active", named |-> FALSE]]
  /\ UNCHANGED <<keys, known, call, failures, history>>

\* The goroutine that counts the usage passes a key that has only its id, and
\* the adapter writes that key's name and scopes.
Update(k) ==
  /\ k \in touched
  /\ touched' = touched \ {k}
  /\ row' = [row EXCEPT ![k].named = FALSE]
  /\ UNCHANGED <<keys, known, call, failures, history>>

\* Its error is ignored.
UpdateFails(k) ==
  /\ k \in touched
  /\ touched' = touched \ {k}
  /\ Fails
  /\ UNCHANGED <<row, keys, known, call, history>>

-------------------------------------------------------------------------------
(* RevokeKey and RegenerateKey *)

BeginRevoke(c, k) ==
  /\ At(c, "idle")
  /\ row[k].status = "active"
  /\ Enter(c, "revoke", k, FALSE)
  /\ UNCHANGED <<row, keys, known, touched, failures, history>>

\* RegenerateKey reads the old key, revoked or not.
BeginRegenerate(c, k) ==
  /\ At(c, "idle")
  /\ row[k] # Absent
  /\ Enter(c, IF row[k].status = "active" THEN "replace" ELSE "create",
           k, row[k].named)
  /\ UNCHANGED <<row, keys, known, touched, failures, history>>

Revoked(k) == row' = [row EXCEPT ![k].status = "revoked"]

\* Mutant: a key that is being replaced is left to expire.
RevokeOnly(c) ==
  /\ call[c].at \in {"revoke", "replace"}
  /\ IF At(c, "revoke") THEN Revoked(call[c].key) ELSE UNCHANGED row
  /\ Works
  /\ Go(c, IF At(c, "revoke") THEN "evict" ELSE "replaceEvict")
  /\ UNCHANGED <<keys, known, touched, history>>

Revoke(c) ==
  /\ call[c].at \in {"revoke", "replace"}
  /\ Revoked(call[c].key)
  /\ Works
  /\ Go(c, IF At(c, "revoke") THEN "evict" ELSE "replaceEvict")
  /\ UNCHANGED <<keys, known, touched, history>>

\* The statement fails: the call ends before it reaches the map.
RevokeFails(c) ==
  /\ call[c].at \in {"revoke", "replace"}
  /\ Fails
  /\ \/ UNCHANGED <<row, unsure>>
     \/ Revoked(call[c].key) /\ unsure' = unsure \cup {call[c].key}
  /\ Leave(c)
  /\ UNCHANGED <<keys, known, touched, overtaken, validated, parent>>

\* Mutant: only RevokeKey removes the key from the map.
EvictRevoked(c) ==
  /\ call[c].at \in {"evict", "replaceEvict"}
  /\ keys' = IF At(c, "evict") THEN keys \ {call[c].key} ELSE keys
  /\ IF At(c, "evict") THEN Leave(c) ELSE Go(c, "create")
  /\ UNCHANGED <<row, known, touched, failures, history>>

Evict(c) ==
  /\ call[c].at \in {"evict", "replaceEvict"}
  /\ keys' = keys \ {call[c].key}
  /\ IF At(c, "evict") THEN Leave(c) ELSE Go(c, "create")
  /\ UNCHANGED <<row, known, touched, failures, history>>

\* A statement fails before anything changed: reads, and the insert of a row.
StatementFails(c) ==
  /\ call[c].at \in {"create", "fetch"}
  /\ Fails
  /\ Leave(c)
  /\ UNCHANGED <<row, keys, known, touched, history>>

-------------------------------------------------------------------------------
(* The process restarts: the map and everything under way are gone *)

Restart ==
  /\ keys' = {}
  /\ touched' = {}
  /\ call' = [c \in Calls |-> Idle]
  /\ UNCHANGED <<row, known, failures, history>>

-------------------------------------------------------------------------------
KeyInit ==
  /\ row = [k \in Keys |-> Absent]
  /\ keys = {} /\ known = {} /\ touched = {}
  /\ call = [c \in Calls |-> Idle]
  /\ failures = 0
  /\ overtaken = {} /\ unsure = {} /\ validated = {}
  /\ parent = [k \in Keys |-> "none"]

KeyNext ==
  \/ \E c \in Calls :
       \/ BeginGenerate(c) \/ Insert(c) \/ Fetch(c) \/ Revoke(c)
       \/ RevokeFails(c) \/ Evict(c) \/ StatementFails(c)
       \/ \E k \in Keys :
            \/ Create(c, k) \/ GenerateJWTAPIKey(c, k)
            \/ ValidateFromMap(c, k) \/ ValidateMiss(c, k)
            \/ BeginRevoke(c, k) \/ BeginRegenerate(c, k)
  \/ \E k \in Keys : Update(k) \/ UpdateFails(k)
  \/ Restart

KeySpec == KeyInit /\ [][KeyNext]_keyVars

-------------------------------------------------------------------------------
(* Properties *)

KeyTypeOK ==
  /\ row \in [Keys -> Rows]
  /\ keys \subseteq Keys /\ known \subseteq Keys /\ touched \subseteq Keys
  /\ call \in [Calls -> CallStates]
  /\ failures \in 0..MaxFailures
  /\ overtaken \subseteq Keys /\ unsure \subseteq Keys /\ validated \subseteq Keys
  /\ parent \in [Keys -> Keys \cup {"none"}]

Evicting(k) == \E c \in Calls : call[c].at \in {"evict", "replaceEvict"}
                                /\ call[c].key = k

\* A key that is revoked in the table is still accepted from the map only until
\* the call that revoked it has removed it there, unless the statement that
\* revoked it was reported as failed, or the key was put into the map by the
\* GenerateKey that a revocation had overtaken.
StaleOnlyBy ==
  \A k \in keys : row[k].status = "revoked" =>
    Evicting(k) \/ k \in unsure \/ k \in overtaken

\* Whatever a goroutine still writes to count a usage, a revoked key is never
\* active again.
RevokedForEver ==
  [][\A k \in Keys : row[k].status = "revoked" => row'[k].status = "revoked"]_keyVars

\* A key that replaces another exists only once that other is revoked, whichever
\* statement of RegenerateKey fails and whoever revokes the same key meanwhile.
ReplacedRevoked ==
  \A k \in Keys : parent[k] # "none" => row[parent[k]].status = "revoked"

\* A key loses its name and scopes only by being used, or by being made from a
\* key that had lost them.
ScopesLostByUse ==
  \A k \in Keys : row[k] # Absent /\ ~row[k].named =>
    \/ k \in validated
    \/ parent[k] # "none" /\ ~row[parent[k]].named
===============================================================================
