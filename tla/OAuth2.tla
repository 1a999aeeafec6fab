--------------------------------- MODULE OAuth2 ---------------------------------
(***************************************************************************)
(* The token endpoints of the key manager (internal/keymanager/oauth2.go)  *)
(* over its OAuth2Store: authorization codes, the four grants, rotation of *)
(* refresh tokens, revocation and the deletion of clients.                 *)
(*                                                                         *)
(* Every handler is a sequence of calls of the store with nothing locked   *)
(* between them, so each call is an action.  A token stands for its        *)
(* access token and the refresh token stored with it; who may ask for      *)
(* what (secrets, PKCE, redirect URIs, scopes) only decides whether a      *)
(* request is rejected, which Reject does at any time before a change.     *)
(***************************************************************************)
EXTENDS Integers, FiniteSets

CONSTANTS Handlers,     \* requests served at the same time
          Clients,
          Codes,        \* authorization codes
          Tokens,
          MaxStoreFailures   \* bound on the failures of the store

ASSUME NamesAssumption ==
  /\ IsFiniteSet(Handlers) /\ IsFiniteSet(Codes) /\ IsFiniteSet(Tokens)
  /\ Codes \cap Tokens = {}
  /\ "none" \notin Clients \cup Codes \cup Tokens

ASSUME StoreFailuresAssumption == MaxStoreFailures \in Nat

VARIABLES client,     \* client[c]: its row, "none" before it registers
          code,       \* code[k]: the state of an authorization code and its client
          token,      \* token[t]: the state of a token, its client and its origin
          req,        \* req[h]: where handler h is, for whom, and from what grant
          swept,      \* the clients whose deletion revoked their tokens
          storeFailures    \* failed calls of the store so far

vars == <<client, code, token, req, swept, storeFailures>>

IdleHandler == [at |-> "idle", client |-> "none", origin |-> "none", refresh |-> FALSE]

NoToken == [state |-> "free", client |-> "none", origin |-> "none", refresh |-> FALSE]

HandlerAt(h, where) == req[h].at = where

HandlerGoes(h, where) == req' = [req EXCEPT ![h].at = where]

Begin(h, where, c) ==
  req' = [req EXCEPT ![h] = [at |-> where, client |-> c, origin |-> "none",
                             refresh |-> FALSE]]

\* The grant a request asks a token for: a code, a token to refresh, or none.
Granted(h, where, origin, refresh) ==
  req' = [req EXCEPT ![h] = [at |-> where, client |-> req[h].client,
                             origin |-> origin, refresh |-> refresh]]

HandlerLeaves(h) == req' = [req EXCEPT ![h] = IdleHandler]

StoreFails == storeFailures < MaxStoreFailures /\ storeFailures' = storeFailures + 1

StoreWorks == UNCHANGED storeFailures

-------------------------------------------------------------------------------
(* Clients and authorization codes *)

RegisterClient(h, c) ==
  /\ HandlerAt(h, "idle")
  /\ client[c] = "none"
  /\ client' = [client EXCEPT ![c] = "enabled"]
  /\ UNCHANGED <<code, token, req, swept, storeFailures>>

\* What a request authenticates for; a disabled client is turned away.
Requests == {"authorize", "token", "revoke"}

Authenticate(h, c, where) ==
  /\ HandlerAt(h, "idle")
  /\ client[c] = "enabled"
  /\ Begin(h, where, c)
  /\ UNCHANGED <<client, code, token, swept, storeFailures>>

\* Any error that is found before something changes.
Reject(h) ==
  /\ req[h].at \in Requests
  /\ HandlerLeaves(h)
  /\ UNCHANGED <<client, code, token, swept, storeFailures>>

SaveAuthCode(h, k) ==
  /\ HandlerAt(h, "authorize")
  /\ code[k].state = "none"
  /\ code' = [code EXCEPT ![k] = [state |-> "valid", client |-> req[h].client]]
  /\ HandlerLeaves(h)
  /\ UNCHANGED <<client, token, swept, storeFailures>>

ExpireCode(k) ==
  /\ code[k].state = "valid"
  /\ code' = [code EXCEPT ![k].state = "expired"]
  /\ UNCHANGED <<client, token, req, swept, storeFailures>>

-------------------------------------------------------------------------------
(* The grants of the token endpoint *)

\* client_credentials issues no refresh token, password does.
DirectGrant(h, refresh) ==
  /\ HandlerAt(h, "token")
  /\ Granted(h, "issue", "none", refresh)
  /\ UNCHANGED <<client, code, token, swept, storeFailures>>

\* Mutant: a code that was used is accepted until it expires.
LoadUsedCode(h, k) ==
  /\ HandlerAt(h, "token")
  /\ code[k].state \in {"valid", "used"} /\ code[k].client = req[h].client
  /\ Granted(h, "use", k, TRUE)
  /\ UNCHANGED <<client, code, token, swept, storeFailures>>

\* handleAuthorizationCode loads and checks the code...
LoadCode(h, k) ==
  /\ HandlerAt(h, "token")
  /\ code[k] = [state |-> "valid", client |-> req[h].client]
  /\ Granted(h, "use", k, TRUE)
  /\ UNCHANGED <<client, code, token, swept, storeFailures>>

\* ...and marks it as used, an error of which it ignores.
UseAuthCode(h) ==
  /\ HandlerAt(h, "use")
  /\ \/ /\ code' = [code EXCEPT ![req[h].origin].state = "used"]
        /\ StoreWorks
     \/ UNCHANGED code /\ StoreFails
  /\ HandlerGoes(h, "issue")
  /\ UNCHANGED <<client, token, swept>>

\* handleRefreshToken loads the token and checks it...
LoadRefresh(h, t) ==
  /\ HandlerAt(h, "token")
  /\ token[t].state = "live" /\ token[t].refresh
  /\ token[t].client = req[h].client
  /\ Granted(h, "rotate", t, TRUE)
  /\ UNCHANGED <<client, code, token, swept, storeFailures>>

\* Mutant: the token is not revoked when it is refreshed.
RevokeNothing(h) ==
  /\ HandlerAt(h, "rotate")
  /\ HandlerGoes(h, "issue")
  /\ UNCHANGED <<client, code, token, swept, storeFailures>>

\* ...and revokes it, an error of which it ignores too.
RevokeOld(h) ==
  /\ HandlerAt(h, "rotate")
  /\ \/ /\ token' = [token EXCEPT ![req[h].origin].state = "revoked"]
        /\ StoreWorks
     \/ UNCHANGED token /\ StoreFails
  /\ HandlerGoes(h, "issue")
  /\ UNCHANGED <<client, code, swept>>

\* issueToken and issueTokenWithRefresh: the new token exists once it is saved,
\* and the client gets an error if it cannot be signed or saved.
Issue(h, t) ==
  /\ HandlerAt(h, "issue")
  /\ \/ /\ token[t].state = "free"
        /\ token' = [token EXCEPT ![t] = [state |-> "live", client |-> req[h].client,
                                          origin |-> req[h].origin,
                                          refresh |-> req[h].refresh]]
        /\ StoreWorks
     \/ UNCHANGED <<token, storeFailures>>
     \/ UNCHANGED token /\ StoreFails
  /\ HandlerLeaves(h)
  /\ UNCHANGED <<client, code, swept>>

ExpireRefresh(t) ==
  /\ token[t].state = "live" /\ token[t].refresh
  /\ token' = [token EXCEPT ![t].refresh = FALSE]
  /\ UNCHANGED <<client, code, req, swept, storeFailures>>

-------------------------------------------------------------------------------
(* Revocation and the deletion of clients *)

\* RevokeHandler, by access token whoever asks, by refresh token for its client
\* only.  It answers that it did whether or not it could.
RevokeToken(h, t) ==
  /\ HandlerAt(h, "revoke")
  /\ token[t].state # "free"
  /\ \/ token' = [token EXCEPT ![t].state = "revoked"] /\ StoreWorks
     \/ UNCHANGED token /\ StoreFails
  /\ HandlerLeaves(h)
  /\ UNCHANGED <<client, code, swept>>

\* DeleteClientHandler reads the client, whatever its state,
LoadClient(h, c) ==
  /\ HandlerAt(h, "idle")
  /\ client[c] # "none"
  /\ Begin(h, "disable", c)
  /\ UNCHANGED <<client, code, token, swept, storeFailures>>

\* Mutant: the tokens are revoked although the client could not be disabled.
DisableClientOrNot(h) ==
  /\ HandlerAt(h, "disable")
  /\ \/ /\ client' = [client EXCEPT ![req[h].client] = "disabled"]
        /\ StoreWorks
     \/ UNCHANGED client /\ StoreFails
  /\ HandlerGoes(h, "sweep")
  /\ UNCHANGED <<code, token, swept>>

\* writes it back disabled, and gives up if that fails,
DisableClient(h) ==
  /\ HandlerAt(h, "disable")
  /\ \/ /\ client' = [client EXCEPT ![req[h].client] = "disabled"]
        /\ HandlerGoes(h, "sweep")
        /\ StoreWorks
     \/ UNCHANGED client /\ HandlerLeaves(h) /\ StoreFails
  /\ UNCHANGED <<code, token, swept>>

\* and revokes every token saved by then; an error of that is ignored.
RevokeTokensByClient(h) ==
  LET c == req[h].client IN
  /\ HandlerAt(h, "sweep")
  /\ \/ /\ token' = [t \in Tokens |-> IF token[t].client = c
                                      THEN [token[t] EXCEPT !.state = "revoked"]
                                      ELSE token[t]]
        /\ swept' = swept \cup {c}
        /\ StoreWorks
     \/ UNCHANGED <<token, swept>> /\ StoreFails
  /\ HandlerLeaves(h)
  /\ UNCHANGED <<client, code>>

-------------------------------------------------------------------------------
Init ==
  /\ client = [c \in Clients |-> "none"]
  /\ code = [k \in Codes |-> [state |-> "none", client |-> "none"]]
  /\ token = [t \in Tokens |-> NoToken]
  /\ req = [h \in Handlers |-> IdleHandler]
  /\ swept = {}
  /\ storeFailures = 0

TokenHandler(h) ==
  \/ \E refresh \in BOOLEAN : DirectGrant(h, refresh)
  \/ \E k \in Codes : LoadCode(h, k)
  \/ UseAuthCode(h)
  \/ \E t \in Tokens : LoadRefresh(h, t)
  \/ RevokeOld(h)
  \/ \E t \in Tokens : Issue(h, t)

DeleteClientHandler(h) ==
  \/ \E c \in Clients : LoadClient(h, c)
  \/ DisableClient(h)
  \/ RevokeTokensByClient(h)

Handle(h) ==
  \/ \E c \in Clients : RegisterClient(h, c)
  \/ \E c \in Clients, where \in Requests : Authenticate(h, c, where)
  \/ Reject(h)
  \/ \E k \in Codes : SaveAuthCode(h, k)
  \/ TokenHandler(h)
  \/ \E t \in Tokens : RevokeToken(h, t)
  \/ DeleteClientHandler(h)

Next ==
  \/ \E h \in Handlers : Handle(h)
  \/ \E k \in Codes : ExpireCode(k)
  \/ \E t \in Tokens : ExpireRefresh(t)

Spec == Init /\ [][Next]_vars

-------------------------------------------------------------------------------
(* Properties *)

Places == {"idle", "issue", "use", "rotate", "disable", "sweep"} \cup Requests

Origins == Codes \cup Tokens

Maybe(S) == S \cup {"none"}

TypeOK ==
  /\ client \in [Clients -> {"none", "enabled", "disabled"}]
  /\ code \in [Codes -> [state: {"none", "valid", "used", "expired"},
                         client: Maybe(Clients)]]
  /\ token \in [Tokens -> [state: {"free", "live", "revoked"}, client: Maybe(Clients),
                           origin: Maybe(Origins), refresh: BOOLEAN]]
  /\ \A t \in Tokens : token[t].state = "free" <=> token[t].client = "none"
  /\ req \in [Handlers -> [at: Places, client: Maybe(Clients),
                           origin: Maybe(Origins), refresh: BOOLEAN]]
  /\ swept \subseteq Clients
  /\ storeFailures \in 0 .. MaxStoreFailures

\* The tokens issued for a code, or when a token was refreshed.
IssuedFor(o) == {t \in Tokens : token[t].origin = o}

Live == {t \in Tokens : token[t].state = "live"}

\* A code is loaded and then marked as used, a refresh token loaded and then
\* revoked, with nothing locked: one code or refresh token yields as many tokens
\* as requests overlapped, and one for each failure of the store, but no more.
GrantBound ==
  \A o \in Origins : Cardinality(IssuedFor(o)) <= Cardinality(Handlers) + storeFailures

\* A token that was refreshed is revoked: every one still live is the work of a
\* failure that handleRefreshToken ignored.
RotatedRevoked ==
  Cardinality({t \in Live : IssuedFor(t) # {}}) <= storeFailures

\* DeleteClientHandler disables the client before it revokes its tokens: once it
\* has, the only live tokens are those of requests that were authenticated
\* before, at most one for each of the other handlers.
DeletedBound ==
  \A c \in swept :
    Cardinality({t \in Live : token[t].client = c}) <= Cardinality(Handlers) - 1
===============================================================================
