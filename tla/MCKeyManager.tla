----------------------------- MODULE MCKeyManager -----------------------------
(***************************************************************************)
(* The two components of internal/keymanager, which share no state: the    *)
(* OAuth2 server and the API key manager.  One of them is chosen at the    *)
(* start and moves.                                                        *)
(***************************************************************************)
EXTENDS OAuth2, ApiKeys, TLC

VARIABLE subject    \* the component that moves

ManagerInit ==
  /\ subject \in {"oauth2", "api_keys"}
  /\ Init /\ KeyInit

ManagerNext ==
  /\ UNCHANGED subject
  /\ \/ subject = "oauth2" /\ Next /\ UNCHANGED keyVars
     \/ subject = "api_keys" /\ KeyNext /\ UNCHANGED vars

ManagerSpec == ManagerInit /\ [][ManagerNext]_<<vars, keyVars, subject>>

Symmetry == Permutations(Handlers) \cup Permutations(Tokens)
              \cup Permutations(Keys) \cup Permutations(Calls)
===============================================================================
