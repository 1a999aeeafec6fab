------------------------------ MODULE OAuth2_proofs ------------------------------
(***************************************************************************)
(* Safety of the token endpoints for any number of requests, clients,      *)
(* codes and tokens.                                                       *)
(***************************************************************************)
EXTENDS OAuth2, FiniteSetTheorems, TLAPS

USE NamesAssumption, StoreFailuresAssumption DEF NamesAssumption, StoreFailuresAssumption

\* A request knows its client, and the grant it is about to spend.
RowsOK ==
  \A h \in Handlers :
    /\ ~HandlerAt(h, "idle") => req[h].client \in Clients
    /\ HandlerAt(h, "use") => req[h].origin \in Codes
    /\ HandlerAt(h, "rotate") => /\ req[h].origin \in Tokens
                          /\ token[req[h].origin].state # "free"

\* The inductive invariant.
IInv == TypeOK /\ RowsOK

\* The rows of requests.
Rows == [at: Places, client: Maybe(Clients), origin: Maybe(Origins), refresh: BOOLEAN]

\* A row that is well formed on its own, with the tokens of the next state.
GoodRow(row) ==
  /\ row \in Rows
  /\ row.at # "idle" => row.client \in Clients
  /\ row.at = "use" => row.origin \in Codes
  /\ row.at = "rotate" => /\ row.origin \in Tokens
                          /\ token'[row.origin].state # "free"

-------------------------------------------------------------------------------
(* Type correctness *)

\* Tokens are saved and revoked, never forgotten.
NoTokenForgotten == \A t \in Tokens : token[t].state # "free" => token'[t].state # "free"

\* The rows of requests after a step of request h.
LEMMA RowStep ==
  ASSUME IInv, NoTokenForgotten, NEW h \in Handlers, NEW row, GoodRow(row),
         req' = [req EXCEPT ![h] = row]
  PROVE  req' \in [Handlers -> Rows] /\ RowsOK'
  <1>1. req' \in [Handlers -> Rows]
    BY DEF IInv, TypeOK, GoodRow, Rows
  <1>2. \A g \in Handlers : req'[g] = IF g = h THEN row ELSE req[g]
    BY DEF IInv, TypeOK
  <1>3. ASSUME NEW g \in Handlers, g # h
        PROVE  /\ req'[g].at # "idle" => req'[g].client \in Clients
               /\ req'[g].at = "use" => req'[g].origin \in Codes
               /\ req'[g].at = "rotate" => /\ req'[g].origin \in Tokens
                                           /\ token'[req'[g].origin].state # "free"
    BY <1>2, <1>3 DEF IInv, RowsOK, HandlerAt, NoTokenForgotten
  <1> QED BY <1>1, <1>2, <1>3 DEF RowsOK, HandlerAt, GoodRow

\* The rows when a request ends.
LEMMA LeaveStep ==
  ASSUME IInv, NoTokenForgotten, NEW h \in Handlers, HandlerLeaves(h)
  PROVE  req' \in [Handlers -> Rows] /\ RowsOK'
  <1>1. GoodRow(IdleHandler)
    BY DEF GoodRow, Rows, IdleHandler, Places, Maybe, Origins
  <1> QED BY <1>1, RowStep DEF HandlerLeaves

\* The rows when a request begins.
LEMMA BeginStep ==
  ASSUME IInv, NoTokenForgotten, NEW h \in Handlers, NEW c \in Clients,
         NEW where \in Requests \cup {"disable"}, Begin(h, where, c)
  PROVE  req' \in [Handlers -> Rows] /\ RowsOK'
  <1> DEFINE row == [at |-> where, client |-> c, origin |-> "none", refresh |-> FALSE]
  <1>1. GoodRow(row)
    BY DEF GoodRow, Rows, Requests, Places, Maybe, Origins
  <1> HIDE DEF row
  <1>2. req' = [req EXCEPT ![h] = row]
    BY DEF Begin, row
  <1> QED BY <1>1, <1>2, RowStep

\* The rows when a request has chosen its grant.
LEMMA GrantedStep ==
  ASSUME IInv, NoTokenForgotten, NEW h \in Handlers, HandlerAt(h, "token"),
         NEW where \in {"use", "rotate", "issue"}, NEW origin \in Maybe(Origins),
         where = "use" => origin \in Codes,
         where = "rotate" => origin \in Tokens /\ token'[origin].state # "free",
         NEW refresh \in BOOLEAN, Granted(h, where, origin, refresh)
  PROVE  req' \in [Handlers -> Rows] /\ RowsOK'
  <1> DEFINE row == [at |-> where, client |-> req[h].client, origin |-> origin,
                     refresh |-> refresh]
  <1>1. req[h].client \in Clients
    BY DEF IInv, RowsOK, HandlerAt
  <1>2. GoodRow(row)
    BY <1>1 DEF GoodRow, Rows, Places, Maybe
  <1> HIDE DEF row
  <1>3. req' = [req EXCEPT ![h] = row]
    BY DEF Granted, row
  <1> QED BY <1>2, <1>3, RowStep

\* The rows when a request goes on to a place that says nothing of its origin.
LEMMA GoStep ==
  ASSUME IInv, NoTokenForgotten, NEW h \in Handlers, ~HandlerAt(h, "idle"),
         NEW where \in {"issue", "sweep"}, HandlerGoes(h, where)
  PROVE  req' \in [Handlers -> Rows] /\ RowsOK'
  <1> DEFINE row == [req[h] EXCEPT !.at = where]
  <1>1. req[h] \in Rows
    BY DEF IInv, TypeOK, Rows
  <1>2. row \in Rows /\ row.at = where /\ row.client = req[h].client
    BY <1>1 DEF Rows, Places
  <1>3. row.client \in Clients
    BY <1>2 DEF IInv, RowsOK
  <1>4. req' = [req EXCEPT ![h] = row]
    BY DEF HandlerGoes, IInv, TypeOK
  <1> HIDE DEF row
  <1>5. GoodRow(row)
    BY <1>2, <1>3 DEF GoodRow
  <1> QED BY <1>4, <1>5, RowStep

\* Revoking a token that was saved keeps the types.
LEMMA MarkRevoked ==
  ASSUME IInv, NEW t \in Tokens, token[t].state # "free",
         token' = [token EXCEPT ![t].state = "revoked"]
  PROVE  /\ token' \in [Tokens -> [state: {"free", "live", "revoked"},
                                   client: Maybe(Clients), origin: Maybe(Origins),
                                   refresh: BOOLEAN]]
         /\ \A s \in Tokens : token'[s].state = "free" <=> token'[s].client = "none"
         /\ NoTokenForgotten
  BY DEF IInv, TypeOK, NoTokenForgotten

\* The state that a step leaves alone keeps its types, if the rest does.
LEMMA TypeStep ==
  ASSUME IInv, req' \in [Handlers -> Rows],
         UNCHANGED client \/ client' \in [Clients -> {"none", "enabled", "disabled"}],
         UNCHANGED code \/ code' \in [Codes -> [state: {"none", "valid", "used", "expired"},
                                                client: Maybe(Clients)]],
         \/ UNCHANGED token
         \/ /\ token' \in [Tokens -> [state: {"free", "live", "revoked"},
                                      client: Maybe(Clients), origin: Maybe(Origins),
                                      refresh: BOOLEAN]]
            /\ \A s \in Tokens : token'[s].state = "free" <=> token'[s].client = "none",
         UNCHANGED swept \/ swept' \subseteq Clients,
         UNCHANGED storeFailures \/ StoreFails
  PROVE  TypeOK'
  <1>1. storeFailures' \in 0 .. MaxStoreFailures
    BY DEF IInv, TypeOK, StoreFails
  <1>2. /\ token' \in [Tokens -> [state: {"free", "live", "revoked"},
                                  client: Maybe(Clients), origin: Maybe(Origins),
                                  refresh: BOOLEAN]]
        /\ \A s \in Tokens : token'[s].state = "free" <=> token'[s].client = "none"
    BY DEF IInv, TypeOK
  <1>3. client' \in [Clients -> {"none", "enabled", "disabled"}]
    BY DEF IInv, TypeOK
  <1>4. code' \in [Codes -> [state: {"none", "valid", "used", "expired"},
                             client: Maybe(Clients)]]
    BY DEF IInv, TypeOK
  <1>5. swept' \subseteq Clients
    BY DEF IInv, TypeOK
  <1> QED BY <1>1, <1>2, <1>3, <1>4, <1>5 DEF TypeOK, Rows

\* A step that leaves the tokens alone forgets none.
LEMMA TokensKept == UNCHANGED token => NoTokenForgotten
  BY DEF NoTokenForgotten

\* The initial state.
LEMMA InitInv == Init => IInv
  <1> SUFFICES ASSUME Init PROVE IInv
    OBVIOUS
  <1>1. TypeOK
    BY DEF Init, TypeOK, NoToken, IdleHandler, Places, Maybe, Origins
  <1>2. RowsOK
    BY DEF Init, RowsOK, IdleHandler, HandlerAt
  <1> QED BY <1>1, <1>2 DEF IInv

\* Every step.
LEMMA StepInv == IInv /\ [Next]_vars => IInv'
  <1> SUFFICES ASSUME IInv, [Next]_vars PROVE IInv'
    OBVIOUS
  <1> USE TokensKept
  <1>1. ASSUME NEW h \in Handlers, NEW c \in Clients, RegisterClient(h, c) PROVE IInv'
    <2>1. client' \in [Clients -> {"none", "enabled", "disabled"}]
      BY <1>1 DEF RegisterClient, IInv, TypeOK
    <2> QED BY <1>1, <2>1, TypeStep DEF RegisterClient, IInv, TypeOK, Rows, RowsOK, HandlerAt
  <1>2. ASSUME NEW h \in Handlers, NEW c \in Clients, NEW where \in Requests,
               Authenticate(h, c, where)
        PROVE  IInv'
    <2>1. req' \in [Handlers -> Rows] /\ RowsOK'
      BY <1>2, BeginStep DEF Authenticate
    <2> QED BY <1>2, <2>1, TypeStep DEF Authenticate, IInv
  <1>3. ASSUME NEW h \in Handlers, Reject(h) PROVE IInv'
    <2>1. req' \in [Handlers -> Rows] /\ RowsOK'
      BY <1>3, LeaveStep DEF Reject
    <2> QED BY <1>3, <2>1, TypeStep DEF Reject, IInv
  <1>4. ASSUME NEW h \in Handlers, NEW k \in Codes, SaveAuthCode(h, k) PROVE IInv'
    <2>1. req' \in [Handlers -> Rows] /\ RowsOK'
      BY <1>4, LeaveStep DEF SaveAuthCode
    <2>2. req[h].client \in Clients
      BY <1>4 DEF SaveAuthCode, IInv, RowsOK, HandlerAt
    <2>3. code' \in [Codes -> [state: {"none", "valid", "used", "expired"},
                               client: Maybe(Clients)]]
      BY <1>4, <2>2 DEF SaveAuthCode, IInv, TypeOK, Maybe
    <2> QED BY <1>4, <2>1, <2>3, TypeStep DEF SaveAuthCode, IInv
  <1>5. ASSUME NEW h \in Handlers, NEW refresh \in BOOLEAN, DirectGrant(h, refresh)
        PROVE  IInv'
    <2>1. req' \in [Handlers -> Rows] /\ RowsOK'
      BY <1>5, GrantedStep DEF DirectGrant, Maybe
    <2> QED BY <1>5, <2>1, TypeStep DEF DirectGrant, IInv
  <1>6. ASSUME NEW h \in Handlers, NEW k \in Codes, LoadCode(h, k) PROVE IInv'
    <2>1. req' \in [Handlers -> Rows] /\ RowsOK'
      BY <1>6, GrantedStep DEF LoadCode, Maybe, Origins
    <2> QED BY <1>6, <2>1, TypeStep DEF LoadCode, IInv
  <1>7. ASSUME NEW h \in Handlers, UseAuthCode(h) PROVE IInv'
    <2>1. req' \in [Handlers -> Rows] /\ RowsOK'
      BY <1>7, GoStep DEF UseAuthCode, HandlerAt
    <2>2. UNCHANGED code \/ code' \in [Codes -> [state: {"none", "valid", "used", "expired"},
                                                 client: Maybe(Clients)]]
      BY <1>7 DEF UseAuthCode, IInv, TypeOK
    <2> QED BY <1>7, <2>1, <2>2, TypeStep DEF UseAuthCode, StoreWorks, IInv
  <1>8. ASSUME NEW h \in Handlers, NEW t \in Tokens, LoadRefresh(h, t) PROVE IInv'
    <2>1. token'[t].state # "free"
      BY <1>8 DEF LoadRefresh
    <2>2. req' \in [Handlers -> Rows] /\ RowsOK'
      BY <1>8, <2>1, GrantedStep DEF LoadRefresh, Maybe, Origins
    <2> QED BY <1>8, <2>2, TypeStep DEF LoadRefresh, IInv
  <1>9. ASSUME NEW h \in Handlers, RevokeOld(h) PROVE IInv'
    <2> DEFINE t == req[h].origin
    <2>1. t \in Tokens /\ token[t].state # "free"
      BY <1>9 DEF RevokeOld, IInv, RowsOK
    <2>2. CASE token' = [token EXCEPT ![t].state = "revoked"] /\ StoreWorks
      <3>1. req' \in [Handlers -> Rows] /\ RowsOK'
        BY <1>9, <2>1, <2>2, MarkRevoked, GoStep DEF RevokeOld, HandlerAt
      <3> QED BY <1>9, <2>1, <2>2, <3>1, MarkRevoked, TypeStep
              DEF RevokeOld, StoreWorks, IInv
    <2>3. CASE UNCHANGED token /\ StoreFails
      <3>1. req' \in [Handlers -> Rows] /\ RowsOK'
        BY <1>9, <2>3, GoStep DEF RevokeOld, HandlerAt
      <3> QED BY <1>9, <2>3, <3>1, TypeStep DEF RevokeOld, IInv
    <2> QED BY <1>9, <2>2, <2>3 DEF RevokeOld
  <1>10. ASSUME NEW h \in Handlers, NEW t \in Tokens, Issue(h, t) PROVE IInv'
    <2>1. CASE UNCHANGED token
      <3>1. req' \in [Handlers -> Rows] /\ RowsOK'
        BY <1>10, <2>1, LeaveStep DEF Issue
      <3> QED BY <1>10, <2>1, <3>1, TypeStep DEF Issue, StoreWorks, IInv
    <2>2. CASE token' = [token EXCEPT ![t] = [state |-> "live", client |-> req[h].client,
                                              origin |-> req[h].origin,
                                              refresh |-> req[h].refresh]]
      <3>1. /\ req[h].client \in Clients /\ req[h].origin \in Maybe(Origins)
            /\ req[h].refresh \in BOOLEAN
        BY <1>10 DEF Issue, IInv, TypeOK, RowsOK, HandlerAt
      <3>2. token' \in [Tokens -> [state: {"free", "live", "revoked"},
                                   client: Maybe(Clients), origin: Maybe(Origins),
                                   refresh: BOOLEAN]]
        BY <2>2, <3>1 DEF IInv, TypeOK, Maybe
      <3>3. \A s \in Tokens : token'[s].state = "free" <=> token'[s].client = "none"
        BY <2>2, <3>1 DEF IInv, TypeOK, Maybe
      <3>4. NoTokenForgotten
        BY <2>2 DEF NoTokenForgotten, IInv, TypeOK
      <3>5. req' \in [Handlers -> Rows] /\ RowsOK'
        BY <1>10, <3>4, LeaveStep DEF Issue
      <3> QED BY <1>10, <3>2, <3>3, <3>5, TypeStep DEF Issue, StoreWorks, IInv
    <2> QED BY <1>10, <2>1, <2>2 DEF Issue
  <1>11. ASSUME NEW h \in Handlers, NEW t \in Tokens, RevokeToken(h, t) PROVE IInv'
    <2>1. CASE token' = [token EXCEPT ![t].state = "revoked"] /\ StoreWorks
      <3>1. req' \in [Handlers -> Rows] /\ RowsOK'
        BY <1>11, <2>1, MarkRevoked, LeaveStep DEF RevokeToken
      <3> QED BY <1>11, <2>1, <3>1, MarkRevoked, TypeStep DEF RevokeToken, StoreWorks, IInv
    <2>2. CASE UNCHANGED token /\ StoreFails
      <3>1. req' \in [Handlers -> Rows] /\ RowsOK'
        BY <1>11, <2>2, LeaveStep DEF RevokeToken
      <3> QED BY <1>11, <2>2, <3>1, TypeStep DEF RevokeToken, IInv
    <2> QED BY <1>11, <2>1, <2>2 DEF RevokeToken
  <1>12. ASSUME NEW h \in Handlers, NEW c \in Clients, LoadClient(h, c) PROVE IInv'
    <2>1. req' \in [Handlers -> Rows] /\ RowsOK'
      BY <1>12, BeginStep DEF LoadClient
    <2> QED BY <1>12, <2>1, TypeStep DEF LoadClient, IInv
  <1>13. ASSUME NEW h \in Handlers, DisableClient(h) PROVE IInv'
    <2>1. UNCHANGED client \/ client' \in [Clients -> {"none", "enabled", "disabled"}]
      BY <1>13 DEF DisableClient, IInv, TypeOK
    <2>2. req' \in [Handlers -> Rows] /\ RowsOK'
      BY <1>13, GoStep, LeaveStep DEF DisableClient, HandlerAt
    <2> QED BY <1>13, <2>1, <2>2, TypeStep DEF DisableClient, StoreWorks, IInv
  <1>14. ASSUME NEW h \in Handlers, RevokeTokensByClient(h) PROVE IInv'
    <2> DEFINE c == req[h].client
    <2>1. c \in Clients
      BY <1>14 DEF RevokeTokensByClient, IInv, RowsOK, HandlerAt
    <2>2. CASE UNCHANGED <<token, swept>> /\ StoreFails
      <3>1. req' \in [Handlers -> Rows] /\ RowsOK'
        BY <1>14, <2>2, LeaveStep DEF RevokeTokensByClient
      <3> QED BY <1>14, <2>2, <3>1, TypeStep DEF RevokeTokensByClient, IInv
    <2>3. CASE /\ token' = [t \in Tokens |-> IF token[t].client = c
                                             THEN [token[t] EXCEPT !.state = "revoked"]
                                             ELSE token[t]]
               /\ swept' = swept \cup {c}
               /\ StoreWorks
      <3>1. token' \in [Tokens -> [state: {"free", "live", "revoked"},
                                   client: Maybe(Clients), origin: Maybe(Origins),
                                   refresh: BOOLEAN]]
        BY <2>3 DEF IInv, TypeOK
      <3>2. \A s \in Tokens : token'[s].state = "free" <=> token'[s].client = "none"
        BY <2>1, <2>3 DEF IInv, TypeOK
      <3>3. NoTokenForgotten
        BY <2>3 DEF NoTokenForgotten, IInv, TypeOK
      <3>4. req' \in [Handlers -> Rows] /\ RowsOK'
        BY <1>14, <3>3, LeaveStep DEF RevokeTokensByClient
      <3>5. swept' \subseteq Clients
        BY <2>1, <2>3 DEF IInv, TypeOK
      <3> QED BY <1>14, <2>3, <3>1, <3>2, <3>4, <3>5, TypeStep
              DEF RevokeTokensByClient, StoreWorks, IInv
    <2> QED BY <1>14, <2>2, <2>3 DEF RevokeTokensByClient
  <1>15. ASSUME NEW k \in Codes, ExpireCode(k) PROVE IInv'
    <2>1. code' \in [Codes -> [state: {"none", "valid", "used", "expired"},
                               client: Maybe(Clients)]]
      BY <1>15 DEF ExpireCode, IInv, TypeOK
    <2> QED BY <1>15, <2>1, TypeStep DEF ExpireCode, IInv, TypeOK, Rows, RowsOK, HandlerAt
  <1>16. ASSUME NEW t \in Tokens, ExpireRefresh(t) PROVE IInv'
    <2>1. /\ token' \in [Tokens -> [state: {"free", "live", "revoked"},
                                    client: Maybe(Clients), origin: Maybe(Origins),
                                    refresh: BOOLEAN]]
          /\ \A s \in Tokens : /\ token'[s].state = token[s].state
                               /\ token'[s].client = token[s].client
      BY <1>16 DEF ExpireRefresh, IInv, TypeOK
    <2>2. \A s \in Tokens : token'[s].state = "free" <=> token'[s].client = "none"
      BY <2>1 DEF IInv, TypeOK
    <2>3. RowsOK'
      BY <1>16, <2>1 DEF ExpireRefresh, IInv, RowsOK, HandlerAt
    <2> QED BY <1>16, <2>1, <2>2, <2>3, TypeStep DEF ExpireRefresh, IInv, TypeOK, Rows
  <1>17. CASE UNCHANGED vars
    BY <1>17, TypeStep DEF vars, IInv, TypeOK, Rows, RowsOK, HandlerAt
  <1> QED BY <1>1, <1>2, <1>3, <1>4, <1>5, <1>6, <1>7, <1>8, <1>9, <1>10, <1>11, <1>12,
             <1>13, <1>14, <1>15, <1>16, <1>17
          DEF Next, Handle, TokenHandler, DeleteClientHandler

\* The state keeps its types, and a token has a client exactly if it was saved.
THEOREM TypeCorrect == Spec => []TypeOK
  <1>1. IInv => TypeOK
    BY DEF IInv
  <1> QED BY InitInv, StepInv, <1>1, PTL DEF Spec

-------------------------------------------------------------------------------
(* What one grant yields *)

\* The requests that loaded grant o and have not been answered yet, and those of
\* them that are past marking or revoking it.
Waiting(o) == {h \in Handlers : req[h].origin = o /\ req[h].at \in {"use", "rotate", "issue"}}

Finishing(o) == {h \in Handlers : req[h].origin = o /\ HandlerAt(h, "issue")}

\* A grant that can be loaded, and one that does not exist yet.
Open(o) == \/ o \in Codes /\ code[o].state = "valid"
           \/ o \in Tokens /\ token[o].state = "live"

Unborn(o) == \/ o \in Codes /\ code[o].state = "none"
             \/ o \in Tokens /\ token[o].state = "free"

\* As long as a grant is open, only failures can have let a request past it.
Bounded(o) ==
  /\ Cardinality(IssuedFor(o)) + Cardinality(Waiting(o)) <= Cardinality(Handlers) + storeFailures
  /\ Open(o) => Cardinality(IssuedFor(o)) + Cardinality(Finishing(o)) <= storeFailures
  /\ Unborn(o) => IssuedFor(o) = {} /\ Waiting(o) = {}

\* And so for every grant.
GInv == \A o \in Origins : Bounded(o)

\* The sets counted are finite, in every state.
LEMMA Counts ==
  ASSUME NEW o
  PROVE  /\ IsFiniteSet(IssuedFor(o)) /\ Cardinality(IssuedFor(o)) \in Nat
         /\ IsFiniteSet(Waiting(o)) /\ Cardinality(Waiting(o)) \in Nat
         /\ Cardinality(Waiting(o)) <= Cardinality(Handlers)
         /\ IsFiniteSet(Finishing(o)) /\ Cardinality(Finishing(o)) \in Nat
         /\ Cardinality(Handlers) \in Nat
  <1>1. IssuedFor(o) \subseteq Tokens /\ Waiting(o) \subseteq Handlers
        /\ Finishing(o) \subseteq Handlers
    BY DEF IssuedFor, Waiting, Finishing
  <1> QED BY <1>1, FS_Subset, FS_CardinalityType

\* And in the next one.
LEMMA CountsPrimed ==
  ASSUME NEW o
  PROVE  /\ IsFiniteSet(IssuedFor(o)') /\ Cardinality(IssuedFor(o)') \in Nat
         /\ IsFiniteSet(Waiting(o)') /\ Cardinality(Waiting(o)') \in Nat
         /\ Cardinality(Waiting(o)') <= Cardinality(Handlers)
         /\ IsFiniteSet(Finishing(o)') /\ Cardinality(Finishing(o)') \in Nat
  <1>1. IssuedFor(o)' \subseteq Tokens /\ Waiting(o)' \subseteq Handlers
        /\ Finishing(o)' \subseteq Handlers
    BY DEF IssuedFor, Waiting, Finishing
  <1> QED BY <1>1, FS_Subset, FS_CardinalityType

\* One more element adds at most one.
LEMMA AddOne ==
  ASSUME NEW S, NEW x, IsFiniteSet(S)
  PROVE  /\ IsFiniteSet(S \cup {x})
         /\ Cardinality(S \cup {x}) \in Nat
         /\ Cardinality(S \cup {x}) <= Cardinality(S) + 1
  <1>1. Cardinality(S) \in Nat
    BY FS_CardinalityType
  <1>2. CASE x \in S
    <2>1. S \cup {x} = S
      BY <1>2
    <2>2. Cardinality(S \cup {x}) = Cardinality(S)
      BY <2>1
    <2>3. IsFiniteSet(S \cup {x})
      BY <2>1
    <2> QED BY <1>1, <2>2, <2>3
  <1>3. CASE x \notin S
    <2>1. /\ IsFiniteSet(S \cup {x})
          /\ Cardinality(S \cup {x}) = Cardinality(S) + 1
      BY <1>3, FS_AddElement
    <2> QED BY <1>1, <2>1
  <1> QED BY <1>2, <1>3

\* A step that brings nobody closer to a token from grant o.
LEMMA Shrink ==
  ASSUME IInv, NEW o \in Origins, Bounded(o),
         IssuedFor(o)' \subseteq IssuedFor(o),
         Waiting(o)' \subseteq Waiting(o), Finishing(o)' \subseteq Finishing(o),
         storeFailures' \in Nat, storeFailures' >= storeFailures,
         Open(o)' => Open(o) \/ Unborn(o), Unborn(o)' => Unborn(o)
  PROVE  Bounded(o)'
  <1>0. storeFailures \in Nat
    BY DEF IInv, TypeOK
  <1>1. /\ Cardinality(Waiting(o)') <= Cardinality(Waiting(o))
        /\ Cardinality(Finishing(o)') <= Cardinality(Finishing(o))
        /\ Cardinality(IssuedFor(o)') <= Cardinality(IssuedFor(o))
    BY Counts, FS_Subset
  <1>2. Cardinality(IssuedFor(o)') + Cardinality(Waiting(o)')
          <= Cardinality(Handlers) + storeFailures'
    BY <1>0, <1>1, Counts, CountsPrimed DEF Bounded
  <1>3. Open(o)' => Cardinality(IssuedFor(o)') + Cardinality(Finishing(o)') <= storeFailures'
    <2>1. CASE Open(o)
      BY <1>0, <1>1, <2>1, Counts, CountsPrimed DEF Bounded
    <2>2. CASE Unborn(o)
      <3>1. IssuedFor(o)' = {} /\ Finishing(o)' = {}
        BY <2>2 DEF Bounded, Finishing, Waiting, HandlerAt
      <3>2. Cardinality({}) = 0
        BY FS_EmptySet
      <3>3. Cardinality(IssuedFor(o)') = 0 /\ Cardinality(Finishing(o)') = 0
        BY <3>1, <3>2
      <3> QED BY <1>0, <3>3
    <2> QED BY <2>1, <2>2
  <1>4. Unborn(o)' => IssuedFor(o)' = {} /\ Waiting(o)' = {}
    BY DEF Bounded
  <1> QED BY <1>2, <1>3, <1>4 DEF Bounded

\* A request loads grant o.
LEMMA Load ==
  ASSUME IInv, NEW o \in Origins, Bounded(o), Open(o),
         IssuedFor(o)' = IssuedFor(o), Finishing(o)' = Finishing(o),
         NEW h \in Handlers, Waiting(o)' = Waiting(o) \cup {h},
         storeFailures' = storeFailures, Open(o)', ~Unborn(o)'
  PROVE  Bounded(o)'
  <1>0. storeFailures \in Nat
    BY DEF IInv, TypeOK
  <1>1. IssuedFor(o)' = IssuedFor(o) /\ Cardinality(IssuedFor(o)) <= storeFailures
    BY <1>0, Counts DEF Bounded
  <1>2. Cardinality(IssuedFor(o)') + Cardinality(Waiting(o)')
          <= Cardinality(Handlers) + storeFailures'
    <2>1. Cardinality(IssuedFor(o)') <= storeFailures
          /\ Cardinality(IssuedFor(o)') \in Nat
      BY <1>1, Counts
    <2>2. Cardinality(Waiting(o)') <= Cardinality(Handlers)
          /\ Cardinality(Waiting(o)') \in Nat
      BY CountsPrimed
    <2>3. Cardinality(Handlers) \in Nat
      BY Counts
    <2> QED BY <1>0, <2>1, <2>2, <2>3
  <1>3. Cardinality(IssuedFor(o)') + Cardinality(Finishing(o)') <= storeFailures'
    BY Counts DEF Bounded
  <1> QED BY <1>2, <1>3 DEF Bounded

\* A request goes past grant o: either the grant is closed, or a call failed.
LEMMA Pass ==
  ASSUME IInv, NEW o \in Origins, Bounded(o),
         NEW h \in Waiting(o),
         IssuedFor(o)' = IssuedFor(o), Waiting(o)' = Waiting(o),
         Finishing(o)' \subseteq Finishing(o) \cup {h},
         \/ storeFailures' = storeFailures /\ ~Open(o)'
         \/ storeFailures' = storeFailures + 1 /\ (Open(o)' => Open(o)),
         Unborn(o)' => Unborn(o)
  PROVE  Bounded(o)'
  <1>0. storeFailures \in Nat
    BY DEF IInv, TypeOK
  <1>1. ~Unborn(o)'
    BY DEF Bounded
  <1>2. Cardinality(IssuedFor(o)') + Cardinality(Waiting(o)')
          <= Cardinality(Handlers) + storeFailures'
    BY <1>0, Counts DEF Bounded
  <1>3. Cardinality(Finishing(o)') <= Cardinality(Finishing(o)) + 1
    <2>1. /\ IsFiniteSet(Finishing(o) \cup {h})
          /\ Cardinality(Finishing(o) \cup {h}) <= Cardinality(Finishing(o)) + 1
      BY Counts, AddOne
    <2>2. Cardinality(Finishing(o)') <= Cardinality(Finishing(o) \cup {h})
      BY <2>1, FS_Subset
    <2>3. Cardinality(Finishing(o) \cup {h}) \in Nat
      BY <2>1, FS_CardinalityType
    <2> QED BY <2>1, <2>2, <2>3, Counts, CountsPrimed
  <1>4. Open(o)' => Cardinality(IssuedFor(o)') + Cardinality(Finishing(o)') <= storeFailures'
    BY <1>0, <1>3, Counts, CountsPrimed DEF Bounded
  <1> QED BY <1>1, <1>2, <1>4 DEF Bounded

\* A request that is past grant o gets its token.
LEMMA Yield ==
  ASSUME IInv, NEW o \in Origins, Bounded(o),
         NEW h \in Finishing(o), NEW t \in Tokens,
         IssuedFor(o)' = IssuedFor(o) \cup {t},
         Waiting(o)' = Waiting(o) \ {h}, Finishing(o)' = Finishing(o) \ {h},
         storeFailures' = storeFailures, Open(o)' => Open(o), ~Unborn(o)'
  PROVE  Bounded(o)'
  <1>0. storeFailures \in Nat
    BY DEF IInv, TypeOK
  <1>1. h \in Waiting(o)
    BY DEF Finishing, Waiting, HandlerAt
  <1>2. Cardinality(Waiting(o)') = Cardinality(Waiting(o)) - 1
    BY <1>1, Counts, FS_RemoveElement
  <1>3. Cardinality(Finishing(o)') = Cardinality(Finishing(o)) - 1
    BY Counts, FS_RemoveElement
  <1>4. Cardinality(IssuedFor(o)') <= Cardinality(IssuedFor(o)) + 1
    BY Counts, AddOne
  <1>5. Cardinality(IssuedFor(o)') + Cardinality(Waiting(o)')
          <= Cardinality(Handlers) + storeFailures'
    <2>1. /\ Cardinality(IssuedFor(o)') \in Nat
          /\ Cardinality(Waiting(o)) \in Nat /\ Cardinality(IssuedFor(o)) \in Nat
          /\ Cardinality(Handlers) \in Nat
      BY Counts, CountsPrimed
    <2>2. Cardinality(IssuedFor(o)) + Cardinality(Waiting(o))
            <= Cardinality(Handlers) + storeFailures
      BY DEF Bounded
    <2> QED BY <1>0, <1>2, <1>4, <2>1, <2>2
  <1>6. Open(o)' => Cardinality(IssuedFor(o)') + Cardinality(Finishing(o)') <= storeFailures'
    <2>1. /\ Cardinality(IssuedFor(o)') \in Nat
          /\ Cardinality(Finishing(o)) \in Nat /\ Cardinality(IssuedFor(o)) \in Nat
      BY Counts, CountsPrimed
    <2>2. Open(o)' => Cardinality(IssuedFor(o)) + Cardinality(Finishing(o)) <= storeFailures
      BY DEF Bounded
    <2> QED BY <1>0, <1>3, <1>4, <2>1, <2>2
  <1> QED BY <1>5, <1>6 DEF Bounded


\* A step that loads no grant, marks none and saves no token.
LEMMA Quiet ==
  ASSUME IInv, GInv,
         \A t \in Tokens : /\ token'[t].origin = token[t].origin
                           /\ token'[t].state = "live" => token[t].state = "live"
                           /\ token'[t].state = "free" => token[t].state = "free",
         \A k \in Codes : /\ code'[k].state = "valid" => code[k].state \in {"valid", "none"}
                          /\ code'[k].state = "none" => code[k].state = "none",
         \A h \in Handlers : \/ req'[h] = req[h]
                             \/ req'[h].at \notin {"use", "rotate", "issue"}
                             \/ req'[h].origin = "none",
         storeFailures' \in Nat, storeFailures' >= storeFailures
  PROVE  GInv'
  <1> SUFFICES ASSUME NEW o \in Origins PROVE Bounded(o)'
    BY DEF GInv
  <1>1. Bounded(o)
    BY DEF GInv
  <1>2. IssuedFor(o)' \subseteq IssuedFor(o)
    BY DEF IssuedFor
  <1>3. o # "none"
    BY DEF Origins
  <1>4. Waiting(o)' \subseteq Waiting(o) /\ Finishing(o)' \subseteq Finishing(o)
    BY <1>3 DEF Waiting, Finishing, HandlerAt
  <1>5. (Open(o)' => Open(o) \/ Unborn(o)) /\ (Unborn(o)' => Unborn(o))
    BY DEF Open, Unborn
  <1> QED BY <1>1, <1>2, <1>4, <1>5, Shrink

\* A step that moves request h alone from a grant to the next place, or to none.
LEMMA Others ==
  ASSUME IInv, GInv, NEW h \in Handlers, NEW o \in Origins,
         \A g \in Handlers : g # h => req'[g] = req[g],
         req'[h].origin # o \/ req'[h].at = "idle",
         \A t \in Tokens : /\ token'[t].origin \in {token[t].origin, req[h].origin}
                           /\ token'[t].state = "live" => token[t].state \in {"live", "free"}
                           /\ token'[t].state = "free" => token[t].state = "free",
         \A k \in Codes : /\ code'[k].state = "valid" => code[k].state = "valid"
                          /\ code'[k].state = "none" => code[k].state = "none",
         req[h].origin # o, storeFailures' \in Nat, storeFailures' >= storeFailures
  PROVE  Bounded(o)'
  <1>1. Bounded(o)
    BY DEF GInv
  <1>2. IssuedFor(o)' \subseteq IssuedFor(o)
    BY DEF IssuedFor
  <1>3. Waiting(o)' \subseteq Waiting(o) /\ Finishing(o)' \subseteq Finishing(o)
    BY DEF Waiting, Finishing, HandlerAt
  <1>4. (Open(o)' => Open(o) \/ Unborn(o)) /\ (Unborn(o)' => Unborn(o))
    BY DEF Open, Unborn
  <1> QED BY <1>1, <1>2, <1>3, <1>4, Shrink

\* Nothing was loaded or issued yet.
LEMMA InitGInv == Init => GInv
  <1> SUFFICES ASSUME Init, NEW o \in Origins PROVE Bounded(o)
    BY DEF GInv
  <1>1. o # "none"
    BY DEF Origins
  <1>2. IssuedFor(o) = {} /\ Waiting(o) = {} /\ Finishing(o) = {}
    BY <1>1 DEF Init, IssuedFor, Waiting, Finishing, NoToken, IdleHandler, HandlerAt
  <1>3. ~Open(o)
    BY DEF Init, Open, NoToken
  <1>4. Cardinality({}) = 0
    BY FS_EmptySet
  <1>5. Cardinality(IssuedFor(o)) = 0 /\ Cardinality(Waiting(o)) = 0
    BY <1>2, <1>4
  <1>6. Cardinality(Handlers) \in Nat /\ storeFailures = 0
    BY Counts DEF Init
  <1> QED BY <1>2, <1>3, <1>5, <1>6 DEF Bounded


\* Request h loads grant o, and every other request stays where it is.
GrantLoaded(h, o) ==
  /\ \A g \in Handlers \ {h} : req'[g] = req[g]
  /\ req[h].at = "token"
  /\ req'[h].at \in {"use", "rotate"} /\ req'[h].origin = o

\* Request h goes past its grant, and every other request stays where it is.
GrantPassed(h) ==
  /\ \A g \in Handlers \ {h} : req'[g] = req[g]
  /\ req[h].at \in {"use", "rotate"}
  /\ req'[h].at = "issue" /\ req'[h].origin = req[h].origin

\* The bounds when a request loads a grant.
LEMMA LoadStep ==
  ASSUME IInv, GInv, NEW h \in Handlers, NEW o \in Origins, GrantLoaded(h, o),
         Open(o), ~Unborn(o), UNCHANGED <<client, code, token, swept, storeFailures>>
  PROVE  GInv'
  <1> SUFFICES ASSUME NEW p \in Origins PROVE Bounded(p)'
    BY DEF GInv
  <1>1. Bounded(p)
    BY DEF GInv
  <1>2. IssuedFor(p)' = IssuedFor(p)
    BY DEF IssuedFor
  <1>3. Finishing(p)' = Finishing(p)
    BY DEF Finishing, HandlerAt, GrantLoaded
  <1>4. (Open(p)' <=> Open(p)) /\ (Unborn(p)' <=> Unborn(p))
    BY DEF Open, Unborn
  <1>5. storeFailures' = storeFailures /\ storeFailures \in Nat
    BY DEF IInv, TypeOK
  <1>6. CASE p = o
    <2>1. Waiting(p)' = Waiting(p) \cup {h}
      BY <1>6 DEF Waiting, GrantLoaded
    <2> QED BY <1>1, <1>2, <1>3, <1>4, <1>5, <1>6, <2>1, Load
  <1>7. CASE p # o
    <2>1. Waiting(p)' \subseteq Waiting(p)
      BY <1>7 DEF Waiting, GrantLoaded
    <2> QED BY <1>1, <1>2, <1>3, <1>4, <1>5, <2>1, Shrink
  <1> QED BY <1>6, <1>7

\* The bounds when a request goes past its grant.
LEMMA PassStep ==
  ASSUME IInv, GInv, NEW h \in Handlers, NEW o \in Origins, req[h].origin = o,
         GrantPassed(h),
         \/ storeFailures' = storeFailures /\ ~Open(o)'
         \/ storeFailures' = storeFailures + 1 /\ (Open(o)' => Open(o)),
         Unborn(o)' => Unborn(o),
         \A t \in Tokens : /\ token'[t].origin = token[t].origin
                           /\ token'[t].state = "live" => token[t].state = "live"
                           /\ token'[t].state = "free" => token[t].state = "free",
         \A k \in Codes : /\ code'[k].state = "valid" => code[k].state = "valid"
                          /\ code'[k].state = "none" => code[k].state = "none"
  PROVE  GInv'
  <1> SUFFICES ASSUME NEW p \in Origins PROVE Bounded(p)'
    BY DEF GInv
  <1>1. Bounded(p)
    BY DEF GInv
  <1>2. IssuedFor(p)' = IssuedFor(p)
    BY DEF IssuedFor
  <1>3. Waiting(p)' = Waiting(p)
    BY DEF Waiting, GrantPassed
  <1>4. storeFailures \in Nat /\ storeFailures' \in Nat /\ storeFailures' >= storeFailures
    BY DEF IInv, TypeOK
  <1>5. CASE p = o
    <2>1. h \in Waiting(p) /\ Finishing(p)' \subseteq Finishing(p) \cup {h}
      BY <1>5 DEF Waiting, Finishing, HandlerAt, GrantPassed
    <2> QED BY <1>1, <1>2, <1>3, <1>5, <2>1, Pass
  <1>6. CASE p # o
    <2>1. Finishing(p)' \subseteq Finishing(p)
      BY <1>6 DEF Finishing, HandlerAt, GrantPassed
    <2>2. (Open(p)' => Open(p) \/ Unborn(p)) /\ (Unborn(p)' => Unborn(p))
      BY DEF Open, Unborn
    <2> QED BY <1>1, <1>2, <1>3, <1>4, <2>1, <2>2, Shrink
  <1> QED BY <1>5, <1>6

\* The bounds when a request gets its token: the token itself is not a grant
\* that anybody waits for, as it did not exist.
LEMMA YieldStep ==
  ASSUME IInv, GInv, NEW h \in Handlers, NEW t \in Tokens, Issue(h, t),
         token[t].state = "free", StoreWorks,
         token' = [token EXCEPT ![t] = [state |-> "live", client |-> req[h].client,
                                        origin |-> req[h].origin,
                                        refresh |-> req[h].refresh]]
  PROVE  GInv'
  <1>0. PICK o : o = req[h].origin
    OBVIOUS
  <1>1. /\ \A g \in Handlers : g # h => req'[g] = req[g]
        /\ req'[h] = IdleHandler /\ req[h].at = "issue"
    BY DEF Issue, HandlerLeaves, HandlerAt, IInv, TypeOK
  <1>2. UNCHANGED <<code, storeFailures>> /\ storeFailures \in Nat
    BY DEF Issue, StoreWorks, IInv, TypeOK
  <1>3. \A s \in Tokens : /\ s # t => token'[s] = token[s]
                          /\ token'[t].state = "live" /\ token'[t].origin = o
    BY <1>0 DEF IInv, TypeOK
  <1>4. ASSUME NEW p \in Origins, p # o PROVE Bounded(p)'
    <2>1. \A s \in Tokens : /\ token'[s].origin \in {token[s].origin, req[h].origin}
                            /\ token'[s].state = "live" => token[s].state \in {"live", "free"}
                            /\ token'[s].state = "free" => token[s].state = "free"
      BY <1>0, <1>3
    <2> QED BY <1>0, <1>1, <1>2, <1>4, <2>1, Others DEF IdleHandler
  <1>5. ASSUME o \in Origins PROVE Bounded(o)'
    <2>1. Bounded(o) /\ h \in Finishing(o) /\ h \in Waiting(o)
      BY <1>0, <1>1, <1>5 DEF GInv, Finishing, Waiting, HandlerAt
    <2>2. ~Unborn(o)
      BY <2>1 DEF Bounded
    <2>3. o # t
      BY <2>2 DEF Unborn
    <2>4. IssuedFor(o)' = IssuedFor(o) \cup {t}
      BY <1>0, <1>3 DEF IssuedFor
    <2>5. o # "none"
      BY <1>5 DEF Origins
    <2>6. Waiting(o)' = Waiting(o) \ {h} /\ Finishing(o)' = Finishing(o) \ {h}
      BY <1>1, <2>5 DEF Waiting, Finishing, HandlerAt, IdleHandler
    <2>7. (Open(o)' => Open(o)) /\ ~Unborn(o)'
      BY <1>2, <1>3, <2>2, <2>3 DEF Open, Unborn
    <2> QED BY <1>2, <1>5, <2>1, <2>4, <2>6, <2>7, Yield
  <1> QED BY <1>4, <1>5 DEF GInv

\* The failures of the next state, in every step.
LEMMA FailuresGrow ==
  ASSUME IInv, StoreWorks \/ StoreFails
  PROVE  storeFailures' \in Nat /\ storeFailures' >= storeFailures
  BY DEF IInv, TypeOK, StoreWorks, StoreFails

\* Revoking the tokens of a client revives none and forgets none.
LEMMA Swept ==
  ASSUME IInv, NEW h \in Handlers, RevokeTokensByClient(h)
  PROVE  \A s \in Tokens : /\ token'[s].origin = token[s].origin
                           /\ token'[s].client = token[s].client
                           /\ token'[s].state = "live" => token[s].state = "live"
                           /\ token'[s].state = "free" => token[s].state = "free"
  <1>1. CASE UNCHANGED token
    BY <1>1
  <1>2. CASE token' = [t \in Tokens |-> IF token[t].client = req[h].client
                                        THEN [token[t] EXCEPT !.state = "revoked"]
                                        ELSE token[t]]
    BY <1>2 DEF IInv, TypeOK
  <1> QED BY <1>1, <1>2 DEF RevokeTokensByClient

\* Every step keeps the bounds of every grant.
LEMMA StepGInv == IInv /\ GInv /\ [Next]_vars => GInv'
  <1> SUFFICES ASSUME IInv, GInv, [Next]_vars PROVE GInv'
    OBVIOUS
  <1>0. storeFailures \in Nat
    BY DEF IInv, TypeOK
  <1>1. ASSUME NEW h \in Handlers, NEW c \in Clients, RegisterClient(h, c) PROVE GInv'
    BY <1>0, <1>1, Quiet DEF RegisterClient
  <1>2. ASSUME NEW h \in Handlers, NEW c \in Clients, NEW where \in Requests,
               Authenticate(h, c, where)
        PROVE  GInv'
    BY <1>0, <1>2, Quiet DEF Authenticate, Begin, IInv, TypeOK
  <1>3. ASSUME NEW h \in Handlers, Reject(h) PROVE GInv'
    BY <1>0, <1>3, Quiet DEF Reject, HandlerLeaves, IdleHandler, IInv, TypeOK
  <1>4. ASSUME NEW h \in Handlers, NEW k \in Codes, SaveAuthCode(h, k) PROVE GInv'
    <2>1. \A g \in Handlers : req'[g] = req[g] \/ req'[g].origin = "none"
      BY <1>4 DEF SaveAuthCode, HandlerLeaves, IdleHandler, IInv, TypeOK
    <2>2. \A j \in Codes : /\ code'[j].state = "valid" => code[j].state \in {"valid", "none"}
                           /\ code'[j].state = "none" => code[j].state = "none"
      BY <1>4 DEF SaveAuthCode, IInv, TypeOK
    <2> QED BY <1>0, <1>4, <2>1, <2>2, Quiet DEF SaveAuthCode
  <1>5. ASSUME NEW h \in Handlers, NEW refresh \in BOOLEAN, DirectGrant(h, refresh)
        PROVE  GInv'
    BY <1>0, <1>5, Quiet DEF DirectGrant, Granted, IInv, TypeOK
  <1>6. ASSUME NEW h \in Handlers, NEW k \in Codes, LoadCode(h, k) PROVE GInv'
    <2>1. Open(k) /\ ~Unborn(k) /\ k \in Origins
      BY <1>6 DEF LoadCode, Open, Unborn, Origins
    <2>2. GrantLoaded(h, k)
      BY <1>6 DEF LoadCode, Granted, GrantLoaded, IInv, TypeOK, HandlerAt
    <2> QED BY <1>6, <2>1, <2>2, LoadStep DEF LoadCode
  <1>7. ASSUME NEW h \in Handlers, UseAuthCode(h) PROVE GInv'
    <2>0. PICK k : k = req[h].origin
      OBVIOUS
    <2>1. k \in Codes /\ k \in Origins /\ k \notin Tokens
      BY <1>7, <2>0 DEF UseAuthCode, IInv, RowsOK, Origins
    <2>2. GrantPassed(h)
      BY <1>7 DEF UseAuthCode, HandlerGoes, GrantPassed, IInv, TypeOK, HandlerAt
    <2>3. \A j \in Codes : code'[j].state \in {code[j].state, "used"}
      BY <1>7, <2>0 DEF UseAuthCode, IInv, TypeOK
    <2>4. \/ storeFailures' = storeFailures /\ ~Open(k)'
          \/ storeFailures' = storeFailures + 1 /\ (Open(k)' => Open(k))
      BY <1>7, <2>0, <2>1 DEF UseAuthCode, StoreWorks, StoreFails, Open, IInv, TypeOK
    <2>5. Unborn(k)' => Unborn(k)
      BY <1>7, <2>1, <2>3 DEF UseAuthCode, Unborn
    <2>6. \A j \in Codes : /\ code'[j].state = "valid" => code[j].state = "valid"
                           /\ code'[j].state = "none" => code[j].state = "none"
      BY <2>3
    <2> QED BY <1>7, <2>0, <2>1, <2>2, <2>4, <2>5, <2>6, PassStep DEF UseAuthCode
  <1>8. ASSUME NEW h \in Handlers, NEW t \in Tokens, LoadRefresh(h, t) PROVE GInv'
    <2>1. Open(t) /\ ~Unborn(t) /\ t \in Origins
      BY <1>8 DEF LoadRefresh, Open, Unborn, Origins
    <2>2. GrantLoaded(h, t)
      BY <1>8 DEF LoadRefresh, Granted, GrantLoaded, IInv, TypeOK, HandlerAt
    <2> QED BY <1>8, <2>1, <2>2, LoadStep DEF LoadRefresh
  <1>9. ASSUME NEW h \in Handlers, RevokeOld(h) PROVE GInv'
    <2>0. PICK t : t = req[h].origin
      OBVIOUS
    <2>1. t \in Tokens /\ t \in Origins /\ t \notin Codes
      BY <1>9, <2>0 DEF RevokeOld, IInv, RowsOK, Origins
    <2>2. GrantPassed(h)
      BY <1>9 DEF RevokeOld, HandlerGoes, GrantPassed, IInv, TypeOK, HandlerAt
    <2>3. \A s \in Tokens : /\ token'[s].origin = token[s].origin
                            /\ token'[s].state \in {token[s].state, "revoked"}
      BY <1>9, <2>0 DEF RevokeOld, IInv, TypeOK
    <2>4. \/ storeFailures' = storeFailures /\ ~Open(t)'
          \/ storeFailures' = storeFailures + 1 /\ (Open(t)' => Open(t))
      BY <1>9, <2>0, <2>1 DEF RevokeOld, StoreWorks, StoreFails, Open, IInv, TypeOK
    <2>5. Unborn(t)' => Unborn(t)
      BY <2>1, <2>3 DEF Unborn
    <2>6. \A s \in Tokens : /\ token'[s].state = "live" => token[s].state = "live"
                            /\ token'[s].state = "free" => token[s].state = "free"
      BY <2>3
    <2> QED BY <1>9, <2>0, <2>1, <2>2, <2>3, <2>4, <2>5, <2>6, PassStep DEF RevokeOld
  <1>10. ASSUME NEW h \in Handlers, NEW t \in Tokens, Issue(h, t) PROVE GInv'
    <2>1. CASE UNCHANGED token
      <3>1. \A g \in Handlers : req'[g] = req[g] \/ req'[g].origin = "none"
        BY <1>10 DEF Issue, HandlerLeaves, IdleHandler, IInv, TypeOK
      <3>2. storeFailures' \in Nat /\ storeFailures' >= storeFailures
        BY <1>10, FailuresGrow DEF Issue, StoreWorks
      <3> QED BY <1>10, <2>1, <3>1, <3>2, Quiet DEF Issue
    <2>2. CASE /\ token[t].state = "free" /\ StoreWorks
               /\ token' = [token EXCEPT ![t] = [state |-> "live", client |-> req[h].client,
                                                 origin |-> req[h].origin,
                                                 refresh |-> req[h].refresh]]
      BY <1>10, <2>2, YieldStep
    <2> QED BY <1>10, <2>1, <2>2 DEF Issue
  <1>11. ASSUME NEW h \in Handlers, NEW t \in Tokens, RevokeToken(h, t) PROVE GInv'
    <2>1. \A g \in Handlers : req'[g] = req[g] \/ req'[g].origin = "none"
      BY <1>11 DEF RevokeToken, HandlerLeaves, IdleHandler, IInv, TypeOK
    <2>2. \A s \in Tokens : /\ token'[s].origin = token[s].origin
                            /\ token'[s].state = "live" => token[s].state = "live"
                            /\ token'[s].state = "free" => token[s].state = "free"
      BY <1>11 DEF RevokeToken, IInv, TypeOK
    <2>3. storeFailures' \in Nat /\ storeFailures' >= storeFailures
      BY <1>11, FailuresGrow DEF RevokeToken
    <2> QED BY <1>11, <2>1, <2>2, <2>3, Quiet DEF RevokeToken
  <1>12. ASSUME NEW h \in Handlers, NEW c \in Clients, LoadClient(h, c) PROVE GInv'
    BY <1>0, <1>12, Quiet DEF LoadClient, Begin, IInv, TypeOK
  <1>13. ASSUME NEW h \in Handlers, DisableClient(h) PROVE GInv'
    <2>1. \A g \in Handlers : \/ req'[g] = req[g]
                              \/ req'[g].at \notin {"use", "rotate", "issue"}
      BY <1>13 DEF DisableClient, HandlerLeaves, HandlerGoes, IdleHandler, IInv, TypeOK
    <2>2. storeFailures' \in Nat /\ storeFailures' >= storeFailures
      BY <1>13, FailuresGrow DEF DisableClient
    <2> QED BY <1>13, <2>1, <2>2, Quiet DEF DisableClient
  <1>14. ASSUME NEW h \in Handlers, RevokeTokensByClient(h) PROVE GInv'
    <2>1. \A g \in Handlers : req'[g] = req[g] \/ req'[g].origin = "none"
      BY <1>14 DEF RevokeTokensByClient, HandlerLeaves, IdleHandler, IInv, TypeOK
    <2>2. \A s \in Tokens : /\ token'[s].origin = token[s].origin
                            /\ token'[s].state = "live" => token[s].state = "live"
                            /\ token'[s].state = "free" => token[s].state = "free"
      BY <1>14, Swept
    <2>3. storeFailures' \in Nat /\ storeFailures' >= storeFailures
      BY <1>14, FailuresGrow DEF RevokeTokensByClient
    <2> QED BY <1>14, <2>1, <2>2, <2>3, Quiet DEF RevokeTokensByClient
  <1>15. ASSUME NEW k \in Codes, ExpireCode(k) PROVE GInv'
    <2>1. \A j \in Codes : /\ code'[j].state = "valid" => code[j].state \in {"valid", "none"}
                           /\ code'[j].state = "none" => code[j].state = "none"
      BY <1>15 DEF ExpireCode, IInv, TypeOK
    <2> QED BY <1>0, <1>15, <2>1, Quiet DEF ExpireCode
  <1>16. ASSUME NEW t \in Tokens, ExpireRefresh(t) PROVE GInv'
    <2>1. \A s \in Tokens : /\ token'[s].origin = token[s].origin
                            /\ token'[s].state = token[s].state
      BY <1>16 DEF ExpireRefresh, IInv, TypeOK
    <2> QED BY <1>0, <1>16, <2>1, Quiet DEF ExpireRefresh
  <1>17. CASE UNCHANGED vars
    BY <1>0, <1>17, Quiet DEF vars
  <1> QED BY <1>1, <1>2, <1>3, <1>4, <1>5, <1>6, <1>7, <1>8, <1>9, <1>10, <1>11, <1>12,
             <1>13, <1>14, <1>15, <1>16, <1>17
          DEF Next, Handle, TokenHandler, DeleteClientHandler

\* One code or refresh token yields at most one token for each request served
\* at the same time, and one for each failure of the store.
THEOREM GrantBounded == Spec => []GrantBound
  <1>1. IInv /\ GInv => GrantBound
    <2> SUFFICES ASSUME IInv, GInv, NEW o \in Origins
                 PROVE  Cardinality(IssuedFor(o)) <= Cardinality(Handlers) + storeFailures
      BY DEF GrantBound
    <2>1. storeFailures \in Nat
      BY DEF IInv, TypeOK
    <2> QED BY <2>1, Counts DEF GInv, Bounded
  <1> QED BY InitInv, StepInv, InitGInv, StepGInv, <1>1, PTL DEF Spec

-------------------------------------------------------------------------------
(* Tokens that survive their rotation *)

\* Live tokens for which a successor was issued, or is about to be.
Survivors ==
  {t \in Live : \/ \E s \in Tokens : token[s].origin = t
               \/ \E h \in Handlers : HandlerAt(h, "issue") /\ req[h].origin = t}

\* What is refreshed was saved: a new token has no successor yet.
BornFirst ==
  /\ \A s, t \in Tokens : token[s].origin = t => token[t].state # "free"
  /\ \A h \in Handlers, t \in Tokens :
        HandlerAt(h, "issue") /\ req[h].origin = t => token[t].state # "free"

RInv == BornFirst /\ Cardinality(Survivors) <= storeFailures

\* A step in which no token survives that did not before.
LEMMA NoSurvivor ==
  ASSUME IInv, RInv, BornFirst', Survivors' \subseteq Survivors,
         storeFailures' \in Nat, storeFailures' >= storeFailures
  PROVE  RInv'
  <1>1. IsFiniteSet(Survivors)
    BY FS_Subset DEF Survivors, Live
  <1>2. Cardinality(Survivors') <= Cardinality(Survivors)
    BY <1>1, FS_Subset
  <1>3. Cardinality(Survivors) \in Nat /\ Cardinality(Survivors') \in Nat
    BY <1>1, FS_Subset, FS_CardinalityType
  <1>4. storeFailures \in Nat
    BY DEF IInv, TypeOK
  <1> QED BY <1>2, <1>3, <1>4 DEF RInv

\* A step that saves no token and sends no request past its grant.
LEMMA RQuiet ==
  ASSUME IInv, RInv,
         \A t \in Tokens : /\ token'[t].origin = token[t].origin
                           /\ token'[t].state = "live" => token[t].state = "live"
                           /\ token'[t].state = "free" => token[t].state = "free",
         \A h \in Handlers : \/ req'[h] = req[h]
                             \/ req'[h].at # "issue"
                             \/ req'[h].origin = "none",
         storeFailures' \in Nat, storeFailures' >= storeFailures
  PROVE  RInv'
  <1>1. BornFirst'
    BY DEF RInv, BornFirst, HandlerAt
  <1>2. Survivors' \subseteq Survivors
    BY DEF Survivors, Live, HandlerAt
  <1> QED BY <1>1, <1>2, NoSurvivor

\* A token is refreshed: it is revoked, or one failure more is known.
LEMMA RRevokeOld ==
  ASSUME IInv, RInv, NEW h \in Handlers, RevokeOld(h)
  PROVE  RInv'
  <1>0. PICK t : t = req[h].origin
    OBVIOUS
  <1>1. t \in Tokens /\ token[t].state # "free"
    BY <1>0 DEF RevokeOld, IInv, RowsOK
  <1>2. /\ \A g \in Handlers : g # h => req'[g] = req[g]
        /\ req'[h].origin = t
    BY <1>0 DEF RevokeOld, HandlerGoes, IInv, TypeOK
  <1>3. \A s \in Tokens : /\ token'[s].origin = token[s].origin
                          /\ token'[s].state \in {token[s].state, "revoked"}
                          /\ token'[s].state = "free" => token[s].state = "free"
    BY <1>0 DEF RevokeOld, IInv, TypeOK
  <1>4. BornFirst'
    BY <1>1, <1>2, <1>3 DEF RInv, BornFirst, HandlerAt
  <1>5. Survivors' \subseteq Survivors \cup {t}
    BY <1>1, <1>2, <1>3 DEF Survivors, Live, HandlerAt
  <1>6. CASE token' = [token EXCEPT ![req[h].origin].state = "revoked"] /\ StoreWorks
    <2>1. token'[t].state = "revoked"
      BY <1>0, <1>1, <1>6 DEF IInv, TypeOK
    <2>2. t \notin Survivors'
      BY <2>1 DEF Survivors, Live
    <2>3. Survivors' \subseteq Survivors
      BY <1>5, <2>2
    <2> QED BY <1>4, <1>6, <2>3, NoSurvivor, FailuresGrow
  <1>7. CASE UNCHANGED token /\ StoreFails
    <2>1. IsFiniteSet(Survivors)
      BY FS_Subset DEF Survivors, Live
    <2>2. /\ IsFiniteSet(Survivors \cup {t})
          /\ Cardinality(Survivors \cup {t}) \in Nat
          /\ Cardinality(Survivors \cup {t}) <= Cardinality(Survivors) + 1
      BY <2>1, AddOne
    <2>3. /\ Cardinality(Survivors') <= Cardinality(Survivors \cup {t})
          /\ Cardinality(Survivors') \in Nat
      BY <1>5, <2>2, FS_Subset, FS_CardinalityType
    <2>4. /\ storeFailures \in Nat /\ storeFailures' = storeFailures + 1
          /\ Cardinality(Survivors) \in Nat
      BY <1>7, <2>1, FS_CardinalityType DEF StoreFails, IInv, TypeOK
    <2> QED BY <1>4, <2>2, <2>3, <2>4 DEF RInv
  <1> QED BY <1>6, <1>7 DEF RevokeOld

\* A token is saved: its origin was about to have a successor already.
LEMMA RIssue ==
  ASSUME IInv, RInv, NEW h \in Handlers, NEW t \in Tokens, Issue(h, t)
  PROVE  RInv'
  <1>1. \A g \in Handlers : req'[g] = req[g] \/ req'[g].at = "idle"
    BY DEF Issue, HandlerLeaves, IdleHandler, IInv, TypeOK
  <1>2. storeFailures' \in Nat /\ storeFailures' >= storeFailures
    BY FailuresGrow DEF Issue, StoreWorks
  <1>3. CASE UNCHANGED token
    BY <1>1, <1>2, <1>3, RQuiet
  <1>4. CASE /\ token[t].state = "free"
             /\ token' = [token EXCEPT ![t] = [state |-> "live", client |-> req[h].client,
                                               origin |-> req[h].origin,
                                               refresh |-> req[h].refresh]]
    <2>0. PICK o : o = req[h].origin
      OBVIOUS
    <2>1. /\ \A s \in Tokens : s # t => token'[s] = token[s]
          /\ token'[t].state = "live" /\ token'[t].origin = o
      BY <1>4, <2>0 DEF IInv, TypeOK
    <2>2. HandlerAt(h, "issue") /\ t # o
      BY <1>4, <2>0 DEF Issue, RInv, BornFirst
    <2>3. BornFirst'
      BY <1>1, <1>4, <2>0, <2>1, <2>2 DEF RInv, BornFirst, HandlerAt
    <2>4. t \notin Survivors'
      BY <1>1, <1>4, <2>1, <2>2 DEF RInv, BornFirst, Survivors, HandlerAt
    <2>5. Survivors' \subseteq Survivors
      BY <1>1, <2>0, <2>1, <2>2, <2>4 DEF Survivors, Live, HandlerAt
    <2> QED BY <1>2, <2>3, <2>5, NoSurvivor
  <1> QED BY <1>3, <1>4 DEF Issue


LEMMA InitRInv == Init => RInv
  <1> SUFFICES ASSUME Init PROVE RInv
    OBVIOUS
  <1>1. Survivors = {}
    BY DEF Init, Survivors, Live, NoToken
  <1>2. Cardinality(Survivors) = 0 /\ storeFailures = 0
    BY <1>1, FS_EmptySet DEF Init
  <1>3. BornFirst
    BY DEF Init, BornFirst, NoToken, IdleHandler, HandlerAt
  <1> QED BY <1>2, <1>3 DEF RInv

LEMMA StepRInv == IInv /\ RInv /\ [Next]_vars => RInv'
  <1> SUFFICES ASSUME IInv, RInv, [Next]_vars PROVE RInv'
    OBVIOUS
  <1>0. storeFailures \in Nat
    BY DEF IInv, TypeOK
  <1>1. ASSUME NEW h \in Handlers, NEW c \in Clients,
               RegisterClient(h, c) \/ LoadClient(h, c)
               \/ \E where \in Requests : Authenticate(h, c, where)
        PROVE  RInv'
    BY <1>0, <1>1, RQuiet DEF RegisterClient, LoadClient, Authenticate, Begin, IInv, TypeOK
  <1>2. ASSUME NEW h \in Handlers, Reject(h) \/ \E k \in Codes : SaveAuthCode(h, k)
        PROVE  RInv'
    BY <1>0, <1>2, RQuiet DEF Reject, SaveAuthCode, HandlerLeaves, IdleHandler, IInv, TypeOK
  <1>3. ASSUME NEW h \in Handlers,
               \/ \E refresh \in BOOLEAN : DirectGrant(h, refresh)
               \/ \E k \in Codes : LoadCode(h, k)
               \/ \E t \in Tokens : LoadRefresh(h, t)
        PROVE  RInv'
    BY <1>0, <1>3, RQuiet DEF DirectGrant, LoadCode, LoadRefresh, Granted, IInv, TypeOK
  <1>4. ASSUME NEW h \in Handlers, UseAuthCode(h) PROVE RInv'
    <2>1. req[h].origin \in Codes /\ req[h].origin \notin Tokens
      BY <1>4 DEF UseAuthCode, IInv, RowsOK
    <2>2. \A g \in Handlers : req'[g] = req[g] \/ req'[g].origin = req[h].origin
      BY <1>4 DEF UseAuthCode, HandlerGoes, IInv, TypeOK
    <2>3. \A g \in Handlers : req'[g] = req[g] \/ req'[g].origin \notin Tokens
      BY <2>1, <2>2
    <2>4. UNCHANGED token
      BY <1>4 DEF UseAuthCode
    <2>5. BornFirst' /\ Survivors' \subseteq Survivors
      BY <2>3, <2>4 DEF RInv, BornFirst, Survivors, Live, HandlerAt
    <2>6. storeFailures' \in Nat /\ storeFailures' >= storeFailures
      BY <1>4, FailuresGrow DEF UseAuthCode
    <2> QED BY <2>5, <2>6, NoSurvivor
  <1>5. ASSUME NEW h \in Handlers, NEW t \in Tokens, RevokeToken(h, t) PROVE RInv'
    <2>1. \A g \in Handlers : req'[g] = req[g] \/ req'[g].origin = "none"
      BY <1>5 DEF RevokeToken, HandlerLeaves, IdleHandler, IInv, TypeOK
    <2>2. \A s \in Tokens : /\ token'[s].origin = token[s].origin
                            /\ token'[s].state = "live" => token[s].state = "live"
                            /\ token'[s].state = "free" => token[s].state = "free"
      BY <1>5 DEF RevokeToken, IInv, TypeOK
    <2>3. storeFailures' \in Nat /\ storeFailures' >= storeFailures
      BY <1>5, FailuresGrow DEF RevokeToken
    <2> QED BY <2>1, <2>2, <2>3, RQuiet
  <1>6. ASSUME NEW h \in Handlers, DisableClient(h) PROVE RInv'
    <2>1. \A g \in Handlers : req'[g] = req[g] \/ req'[g].at # "issue"
      BY <1>6 DEF DisableClient, HandlerLeaves, HandlerGoes, IdleHandler, IInv, TypeOK
    <2>2. storeFailures' \in Nat /\ storeFailures' >= storeFailures
      BY <1>6, FailuresGrow DEF DisableClient
    <2> QED BY <1>6, <2>1, <2>2, RQuiet DEF DisableClient
  <1>7. ASSUME NEW h \in Handlers, RevokeTokensByClient(h) PROVE RInv'
    <2>1. \A g \in Handlers : req'[g] = req[g] \/ req'[g].origin = "none"
      BY <1>7 DEF RevokeTokensByClient, HandlerLeaves, IdleHandler, IInv, TypeOK
    <2>2. \A s \in Tokens : /\ token'[s].origin = token[s].origin
                            /\ token'[s].state = "live" => token[s].state = "live"
                            /\ token'[s].state = "free" => token[s].state = "free"
      BY <1>7, Swept
    <2>3. storeFailures' \in Nat /\ storeFailures' >= storeFailures
      BY <1>7, FailuresGrow DEF RevokeTokensByClient
    <2> QED BY <2>1, <2>2, <2>3, RQuiet
  <1>8. ASSUME NEW k \in Codes, ExpireCode(k) PROVE RInv'
    BY <1>0, <1>8, RQuiet DEF ExpireCode
  <1>9. ASSUME NEW t \in Tokens, ExpireRefresh(t) PROVE RInv'
    <2>1. \A s \in Tokens : /\ token'[s].origin = token[s].origin
                            /\ token'[s].state = token[s].state
      BY <1>9 DEF ExpireRefresh, IInv, TypeOK
    <2> QED BY <1>0, <1>9, <2>1, RQuiet DEF ExpireRefresh
  <1>10. CASE UNCHANGED vars
    BY <1>0, <1>10, RQuiet DEF vars
  <1> QED BY <1>1, <1>2, <1>3, <1>4, <1>5, <1>6, <1>7, <1>8, <1>9, <1>10, RRevokeOld, RIssue
          DEF Next, Handle, TokenHandler, DeleteClientHandler

\* A token that was refreshed is revoked, except for one token for each failure
\* that handleRefreshToken ignored, however many requests present it at once.
THEOREM SurvivorsBounded == Spec => []RotatedRevoked
  <1>1. IInv /\ RInv => RotatedRevoked
    <2> SUFFICES ASSUME IInv, RInv PROVE RotatedRevoked
      OBVIOUS
    <2> DEFINE S == {t \in Live : IssuedFor(t) # {}}
    <2>1. S \subseteq Survivors
      BY DEF Survivors, IssuedFor
    <2>2. IsFiniteSet(Survivors)
      BY FS_Subset DEF Survivors, Live
    <2>3. Cardinality(S) <= Cardinality(Survivors)
      BY <2>1, <2>2, FS_Subset
    <2>4. Cardinality(S) \in Nat /\ Cardinality(Survivors) \in Nat /\ storeFailures \in Nat
      BY <2>1, <2>2, FS_Subset, FS_CardinalityType DEF IInv, TypeOK
    <2>5. Cardinality(S) <= storeFailures
      BY <2>3, <2>4 DEF RInv
    <2> QED BY <2>5 DEF RotatedRevoked
  <1> QED BY InitInv, StepInv, InitRInv, StepRInv, <1>1, PTL DEF Spec


-------------------------------------------------------------------------------
(* Tokens of deleted clients *)

\* The live tokens of a client, and the requests that may still add to them.
LiveOf(c) == {t \in Live : token[t].client = c}

Adding(c) ==
  {h \in Handlers : req[h].client = c /\ req[h].at \in {"token", "use", "rotate", "issue"}}

\* Nobody else can come to authenticate for a client whose deletion has begun,
\* and the request that revoked its tokens was none of those that may add one.
DInv ==
  /\ \A h \in Handlers : HandlerAt(h, "sweep") => client[req[h].client] = "disabled"
  /\ \A c \in swept :
        /\ client[c] = "disabled"
        /\ Cardinality(LiveOf(c)) + Cardinality(Adding(c)) <= Cardinality(Handlers) - 1

\* The sets counted are finite, in this state and in the next.
LEMMA DCounts ==
  ASSUME NEW c
  PROVE  /\ IsFiniteSet(LiveOf(c)) /\ Cardinality(LiveOf(c)) \in Nat
         /\ IsFiniteSet(Adding(c)) /\ Cardinality(Adding(c)) \in Nat
         /\ IsFiniteSet(LiveOf(c)') /\ Cardinality(LiveOf(c)') \in Nat
         /\ IsFiniteSet(Adding(c)') /\ Cardinality(Adding(c)') \in Nat
         /\ IsFiniteSet(Handlers) /\ Cardinality(Handlers) \in Nat
  <1>1. /\ LiveOf(c) \subseteq Tokens /\ LiveOf(c)' \subseteq Tokens
        /\ Adding(c) \subseteq Handlers /\ Adding(c)' \subseteq Handlers
    BY DEF LiveOf, Live, Adding
  <1> QED BY <1>1, FS_Subset, FS_CardinalityType

\* A step that neither saves a token nor deletes a client: requests that add to
\* the tokens of a client did so before, or have just been authenticated.
LEMMA DQuiet ==
  ASSUME IInv, DInv, UNCHANGED <<client, swept>>,
         \A t \in Tokens : /\ token'[t].client = token[t].client
                           /\ token'[t].state = "live" => token[t].state = "live",
         \A h \in Handlers :
           \/ req'[h] = req[h]
           \/ req'[h].at \notin {"token", "use", "rotate", "issue", "sweep"}
           \/ /\ req'[h].client = req[h].client /\ req'[h].at # "sweep"
              /\ req[h].at \in {"token", "use", "rotate", "issue"}
           \/ req'[h].at # "sweep" /\ client[req'[h].client] = "enabled"
  PROVE  DInv'
  <1>1. ASSUME NEW c \in swept
        PROVE  Cardinality(LiveOf(c)') + Cardinality(Adding(c)') <= Cardinality(Handlers) - 1
    <2>1. client[c] = "disabled"
      BY DEF DInv
    <2>2. LiveOf(c)' \subseteq LiveOf(c)
      BY DEF LiveOf, Live
    <2>3. Adding(c)' \subseteq Adding(c)
      BY <2>1 DEF Adding
    <2>4. /\ Cardinality(LiveOf(c)') <= Cardinality(LiveOf(c))
          /\ Cardinality(Adding(c)') <= Cardinality(Adding(c))
      BY <2>2, <2>3, DCounts, FS_Subset
    <2>5. Cardinality(LiveOf(c)) + Cardinality(Adding(c)) <= Cardinality(Handlers) - 1
      BY DEF DInv
    <2> QED BY <2>4, <2>5, DCounts
  <1>2. \A h \in Handlers : HandlerAt(h, "sweep")' => client[req'[h].client] = "disabled"
    BY DEF DInv, HandlerAt
  <1> QED BY <1>1, <1>2 DEF DInv

\* A request saves its token, and no longer adds to them.
LEMMA DIssue ==
  ASSUME IInv, DInv, NEW h \in Handlers, NEW t \in Tokens, Issue(h, t)
  PROVE  DInv'
  <1>1. /\ \A g \in Handlers : g # h => req'[g] = req[g]
        /\ req'[h].at = "idle" /\ req[h].at = "issue"
    BY DEF Issue, HandlerLeaves, HandlerAt, IdleHandler, IInv, TypeOK
  <1>2. UNCHANGED <<client, swept>>
    BY DEF Issue
  <1>3. CASE UNCHANGED token
    <2>1. \A g \in Handlers : req'[g] = req[g] \/ req'[g].at = "idle"
      BY <1>1
    <2> QED BY <1>2, <1>3, <2>1, DQuiet
  <1>4. CASE token' = [token EXCEPT ![t] = [state |-> "live", client |-> req[h].client,
                                            origin |-> req[h].origin,
                                            refresh |-> req[h].refresh]]
    <2>1. /\ \A s \in Tokens : s # t => token'[s] = token[s]
          /\ token'[t].client = req[h].client
      BY <1>4 DEF IInv, TypeOK
    <2>2. ASSUME NEW c \in swept
          PROVE  Cardinality(LiveOf(c)') + Cardinality(Adding(c)') <= Cardinality(Handlers) - 1
      <3>1. Cardinality(LiveOf(c)) + Cardinality(Adding(c)) <= Cardinality(Handlers) - 1
        BY DEF DInv
      <3>2. CASE req[h].client = c
        <4>1. LiveOf(c)' \subseteq LiveOf(c) \cup {t}
          BY <2>1 DEF LiveOf, Live
        <4>2. Adding(c)' = Adding(c) \ {h} /\ h \in Adding(c)
          BY <1>1, <3>2 DEF Adding
        <4>3. /\ IsFiniteSet(LiveOf(c) \cup {t})
              /\ Cardinality(LiveOf(c) \cup {t}) \in Nat
              /\ Cardinality(LiveOf(c) \cup {t}) <= Cardinality(LiveOf(c)) + 1
          BY DCounts, AddOne
        <4>4. Cardinality(LiveOf(c)') <= Cardinality(LiveOf(c)) + 1
          <5>1. Cardinality(LiveOf(c)') <= Cardinality(LiveOf(c) \cup {t})
            BY <4>1, <4>3, FS_Subset
          <5> QED BY <4>3, <5>1, DCounts
        <4>5. Cardinality(Adding(c)') = Cardinality(Adding(c)) - 1
          BY <4>2, DCounts, FS_RemoveElement
        <4> QED BY <3>1, <4>4, <4>5, DCounts
      <3>3. CASE req[h].client # c
        <4>1. LiveOf(c)' \subseteq LiveOf(c)
          BY <2>1, <3>3 DEF LiveOf, Live
        <4>2. Adding(c)' \subseteq Adding(c)
          BY <1>1 DEF Adding
        <4>3. /\ Cardinality(LiveOf(c)') <= Cardinality(LiveOf(c))
              /\ Cardinality(Adding(c)') <= Cardinality(Adding(c))
          BY <4>1, <4>2, DCounts, FS_Subset
        <4> QED BY <3>1, <4>3, DCounts
      <3> QED BY <3>2, <3>3
    <2>3. \A g \in Handlers : HandlerAt(g, "sweep")' => client[req'[g].client] = "disabled"
      BY <1>1 DEF DInv, HandlerAt
    <2> QED BY <1>2, <2>2, <2>3 DEF DInv
  <1> QED BY <1>3, <1>4 DEF Issue

\* The tokens of a client are revoked, by a request that adds none.
LEMMA DSweep ==
  ASSUME IInv, DInv, NEW h \in Handlers, RevokeTokensByClient(h)
  PROVE  DInv'
  <1>0. PICK c : c = req[h].client
    OBVIOUS
  <1>1. /\ \A g \in Handlers : g # h => req'[g] = req[g]
        /\ req'[h].at = "idle" /\ req[h].at = "sweep"
    BY DEF RevokeTokensByClient, HandlerLeaves, HandlerAt, IdleHandler, IInv, TypeOK
  <1>2. UNCHANGED client /\ client[c] = "disabled"
    BY <1>0, <1>1 DEF RevokeTokensByClient, DInv, HandlerAt
  <1>3. \A g \in Handlers : req'[g] = req[g] \/ req'[g].at = "idle"
    BY <1>1
  <1>4. CASE UNCHANGED swept
    BY <1>2, <1>3, <1>4, Swept, DQuiet
  <1>5. CASE /\ swept' = swept \cup {c}
             /\ token' = [t \in Tokens |-> IF token[t].client = c
                                            THEN [token[t] EXCEPT !.state = "revoked"]
                                            ELSE token[t]]
    <2>1. ASSUME NEW d \in swept, d # c
          PROVE  Cardinality(LiveOf(d)') + Cardinality(Adding(d)') <= Cardinality(Handlers) - 1
      <3>1. LiveOf(d)' \subseteq LiveOf(d) /\ Adding(d)' \subseteq Adding(d)
        BY <1>3, Swept DEF LiveOf, Live, Adding
      <3>2. /\ Cardinality(LiveOf(d)') <= Cardinality(LiveOf(d))
            /\ Cardinality(Adding(d)') <= Cardinality(Adding(d))
        BY <3>1, DCounts, FS_Subset
      <3>3. Cardinality(LiveOf(d)) + Cardinality(Adding(d)) <= Cardinality(Handlers) - 1
        BY DEF DInv
      <3> QED BY <3>2, <3>3, DCounts
    <2>2. Cardinality(LiveOf(c)') + Cardinality(Adding(c)') <= Cardinality(Handlers) - 1
      <3>1. LiveOf(c)' = {}
        BY <1>5, Swept DEF LiveOf, Live, IInv, TypeOK
      <3>2. Cardinality(LiveOf(c)') = 0
        BY <3>1, FS_EmptySet
      <3>3. Adding(c)' \subseteq Handlers \ {h}
        BY <1>1 DEF Adding
      <3>4. /\ IsFiniteSet(Handlers \ {h})
            /\ Cardinality(Handlers \ {h}) = Cardinality(Handlers) - 1
        BY DCounts, FS_RemoveElement
      <3>5. Cardinality(Adding(c)') <= Cardinality(Handlers \ {h})
        BY <3>3, <3>4, FS_Subset
      <3> QED BY <3>2, <3>4, <3>5, DCounts
    <2>3. \A g \in Handlers : HandlerAt(g, "sweep")' => client[req'[g].client] = "disabled"
      BY <1>1 DEF DInv, HandlerAt
    <2>4. \A d \in swept \cup {c} : client[d] = "disabled"
      BY <1>2 DEF DInv
    <2> QED BY <1>2, <1>5, <2>1, <2>2, <2>3, <2>4 DEF DInv
  <1> QED BY <1>0, <1>4, <1>5 DEF RevokeTokensByClient

\* A client is disabled: it was never enabled again since it was.
LEMMA DDisable ==
  ASSUME IInv, DInv, NEW h \in Handlers, DisableClient(h)
  PROVE  DInv'
  <1>0. PICK c : c = req[h].client
    OBVIOUS
  <1>1. /\ \A g \in Handlers : g # h => req'[g] = req[g]
        /\ req'[h].at \in {"sweep", "idle"} /\ req[h].at = "disable" /\ c \in Clients
        /\ req'[h].at = "sweep" => req'[h].client = c
    BY <1>0 DEF DisableClient, HandlerLeaves, HandlerGoes, HandlerAt, IdleHandler, IInv, TypeOK,
                RowsOK
  <1>2. UNCHANGED <<token, swept>>
    BY DEF DisableClient
  <1>3. /\ \A d \in Clients : client[d] = "disabled" => client'[d] = "disabled"
        /\ req'[h].at = "sweep" => client'[c] = "disabled"
    BY <1>0, <1>1 DEF DisableClient, HandlerLeaves, IdleHandler, IInv, TypeOK
  <1>4. \A g \in Handlers : HandlerAt(g, "sweep") => req[g].client \in Clients
    BY DEF IInv, RowsOK, HandlerAt
  <1>5. \A g \in Handlers : HandlerAt(g, "sweep")' => client'[req'[g].client] = "disabled"
    BY <1>1, <1>3, <1>4 DEF DInv, HandlerAt
  <1>6. ASSUME NEW d \in swept
        PROVE  /\ client'[d] = "disabled"
               /\ LiveOf(d)' = LiveOf(d) /\ Adding(d)' = Adding(d)
    <2>1. d \in Clients
      BY DEF IInv, TypeOK
    <2> QED BY <1>1, <1>2, <1>3, <2>1 DEF DInv, LiveOf, Live, Adding
  <1> QED BY <1>2, <1>5, <1>6 DEF DInv

LEMMA InitDInv == Init => DInv
  BY DEF Init, DInv, IdleHandler, HandlerAt

LEMMA StepDInv == IInv /\ DInv /\ [Next]_vars => DInv'
  <1> SUFFICES ASSUME IInv, DInv, [Next]_vars PROVE DInv'
    OBVIOUS
  <1>1. ASSUME NEW h \in Handlers, NEW c \in Clients, RegisterClient(h, c) PROVE DInv'
    <2>1. \A d \in Clients : client[d] = "disabled" => client'[d] = "disabled"
      BY <1>1 DEF RegisterClient, IInv, TypeOK
    <2>2. UNCHANGED <<token, req, swept>>
      BY <1>1 DEF RegisterClient
    <2>3. \A g \in Handlers : HandlerAt(g, "sweep") => req[g].client \in Clients
      BY DEF IInv, RowsOK, HandlerAt
    <2>4. \A g \in Handlers : HandlerAt(g, "sweep")' => client'[req'[g].client] = "disabled"
      BY <2>1, <2>2, <2>3 DEF DInv, HandlerAt
    <2>5. \A d \in swept : /\ client'[d] = "disabled"
                           /\ LiveOf(d)' = LiveOf(d) /\ Adding(d)' = Adding(d)
      BY <2>1, <2>2 DEF DInv, IInv, TypeOK, LiveOf, Live, Adding
    <2> QED BY <2>2, <2>4, <2>5 DEF DInv
  <1>2. ASSUME NEW h \in Handlers, NEW c \in Clients,
               LoadClient(h, c) \/ \E where \in Requests : Authenticate(h, c, where)
        PROVE  DInv'
    <2>1. \A g \in Handlers : \/ req'[g] = req[g]
                              \/ req'[g].at = "disable"
                              \/ req'[g].at # "sweep" /\ client[req'[g].client] = "enabled"
      BY <1>2 DEF LoadClient, Authenticate, Requests, Begin, IInv, TypeOK
    <2> QED BY <1>2, <2>1, DQuiet DEF LoadClient, Authenticate
  <1>3. ASSUME NEW h \in Handlers, Reject(h) \/ \E k \in Codes : SaveAuthCode(h, k)
        PROVE  DInv'
    BY <1>3, DQuiet DEF Reject, SaveAuthCode, HandlerLeaves, IdleHandler, IInv, TypeOK
  <1>4. ASSUME NEW h \in Handlers,
               \/ \E refresh \in BOOLEAN : DirectGrant(h, refresh)
               \/ \E k \in Codes : LoadCode(h, k)
               \/ \E t \in Tokens : LoadRefresh(h, t)
        PROVE  DInv'
    <2>1. \A g \in Handlers :
            \/ req'[g] = req[g]
            \/ /\ req'[g].client = req[g].client /\ req'[g].at # "sweep"
               /\ req[g].at \in {"token", "use", "rotate", "issue"}
      BY <1>4 DEF DirectGrant, LoadCode, LoadRefresh, Granted, HandlerAt, IInv, TypeOK
    <2> QED BY <1>4, <2>1, DQuiet DEF DirectGrant, LoadCode, LoadRefresh
  <1>5. ASSUME NEW h \in Handlers, UseAuthCode(h) \/ RevokeOld(h) PROVE DInv'
    <2>1. \A g \in Handlers :
            \/ req'[g] = req[g]
            \/ /\ req'[g].client = req[g].client /\ req'[g].at # "sweep"
               /\ req[g].at \in {"token", "use", "rotate", "issue"}
      BY <1>5 DEF UseAuthCode, RevokeOld, HandlerGoes, HandlerAt, IInv, TypeOK
    <2>2. \A t \in Tokens : /\ token'[t].client = token[t].client
                            /\ token'[t].state = "live" => token[t].state = "live"
      BY <1>5 DEF UseAuthCode, RevokeOld, IInv, TypeOK
    <2> QED BY <1>5, <2>1, <2>2, DQuiet DEF UseAuthCode, RevokeOld
  <1>6. ASSUME NEW h \in Handlers, NEW t \in Tokens, RevokeToken(h, t) PROVE DInv'
    <2>1. \A g \in Handlers : req'[g] = req[g] \/ req'[g].at = "idle"
      BY <1>6 DEF RevokeToken, HandlerLeaves, IdleHandler, IInv, TypeOK
    <2>2. \A s \in Tokens : /\ token'[s].client = token[s].client
                            /\ token'[s].state = "live" => token[s].state = "live"
      BY <1>6 DEF RevokeToken, IInv, TypeOK
    <2> QED BY <1>6, <2>1, <2>2, DQuiet DEF RevokeToken
  <1>7. ASSUME NEW k \in Codes, ExpireCode(k) PROVE DInv'
    BY <1>7, DQuiet DEF ExpireCode
  <1>8. ASSUME NEW t \in Tokens, ExpireRefresh(t) PROVE DInv'
    <2>1. \A s \in Tokens : /\ token'[s].client = token[s].client
                            /\ token'[s].state = token[s].state
      BY <1>8 DEF ExpireRefresh, IInv, TypeOK
    <2> QED BY <1>8, <2>1, DQuiet DEF ExpireRefresh
  <1>9. CASE UNCHANGED vars
    BY <1>9, DQuiet DEF vars
  <1> QED BY <1>1, <1>2, <1>3, <1>4, <1>5, <1>6, <1>7, <1>8, <1>9, DIssue, DSweep, DDisable
          DEF Next, Handle, TokenHandler, DeleteClientHandler

\* Once DeleteClientHandler has revoked the tokens of a client, at most one of
\* its tokens is live for each other request that was under way.
THEOREM DeletedBounded == Spec => []DeletedBound
  <1>1. IInv /\ DInv => DeletedBound
    <2> SUFFICES ASSUME IInv, DInv, NEW c \in swept
                 PROVE  Cardinality(LiveOf(c)) <= Cardinality(Handlers) - 1
      BY DEF DeletedBound, LiveOf
    <2> QED BY DCounts DEF DInv
  <1> QED BY InitInv, StepInv, InitDInv, StepDInv, <1>1, PTL DEF Spec
===============================================================================
