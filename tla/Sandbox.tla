-------------------------------- MODULE Sandbox --------------------------------
(***************************************************************************)
(* The sandbox manager (internal/sandbox/sandbox.go): keys with a life     *)
(* time, a rate and a quota, and the middleware that lets a request in.    *)
(* The maps are read and written under a mutex, a key is not: a request    *)
(* looks it up and goes on to read and write its fields without one, also  *)
(* after the key was revoked or deleted.  Counting a use is a check, a     *)
(* load and a store, and other requests of the key come in between.        *)
(*                                                                         *)
(* Time is a count of ticks, Minute of them to a minute; a token is Minute *)
(* units, a tick refills the rate of the key, so that refilling is exact.  *)
(***************************************************************************)
EXTENDS Naturals, Sequences

CONSTANTS
    Key,       \* consumer keys, every one of them generated once
    App,       \* applications
    Request,   \* requests under way
    Place,     \* what a request may name in the places a key is looked for
    RateLimit, \* requests per minute
    QuotaLimit, \* requests in all, 0 for no limit
    Lifetime,  \* ticks a key lives, None for ever
    Minute, MaxTime, MaxUses,  \* ticks of a minute; bounds
    None

VARIABLES
    mode,        \* "sandbox" or "production"
    now,
    keys,        \* consumer keys in the map
    byApp,       \* byApp[a]: the index of keys by application
    key,         \* key[k]: [app, active, until, rate, quota, used], None before its creation
    buckets,     \* buckets[k]: [tokens, last] of the rate limiter, or None
    request,     \* request[r]: [key, at, read, alone], or None
    passed,      \* passed[k]: requests the rate limiter let pass
    uses,        \* uses[k]: requests let in
    overlapped   \* overlapped[k]: those that were counted while another one was

vars == <<mode, now, keys, byApp, key, buckets, request, passed, uses, overlapped>>

Init ==
    /\ mode = "sandbox"
    /\ now = 0
    /\ keys = {}
    /\ byApp = [a \in App |-> {}]
    /\ key = [k \in Key |-> None]
    /\ buckets = [k \in Key |-> None]
    /\ request = [r \in Request |-> None]
    /\ passed = [k \in Key |-> 0]
    /\ uses = [k \in Key |-> 0]
    /\ overlapped = [k \in Key |-> 0]

-----------------------------------------------------------------------------
(* The manager: every operation holds the mutex.                           *)

SetMode(m) ==
    /\ mode' = m
    /\ UNCHANGED <<now, keys, byApp, key, buckets, request, passed, uses, overlapped>>

CreateSandboxKey(k, a) ==
    /\ key[k] = None
    /\ \E rate \in RateLimit, quota \in QuotaLimit, life \in Lifetime :
          key' = [key EXCEPT ![k] = [app |-> a, active |-> TRUE, rate |-> rate,
                                     quota |-> quota, used |-> 0,
                                     until |-> IF life = None THEN None ELSE now + life]]
    /\ keys' = keys \cup {k}
    /\ byApp' = [byApp EXCEPT ![a] = @ \cup {k}]
    /\ UNCHANGED <<mode, now, buckets, request, passed, uses, overlapped>>

RevokeKey(k) ==
    /\ k \in keys
    /\ key' = [key EXCEPT ![k].active = FALSE]
    /\ UNCHANGED <<mode, now, keys, byApp, buckets, request, passed, uses, overlapped>>

\* The key leaves the map and the index; its bucket stays.
DeleteKey(k) ==
    /\ k \in keys
    /\ keys' = keys \ {k}
    /\ byApp' = [byApp EXCEPT ![key[k].app] = @ \ {k}]
    /\ UNCHANGED <<mode, now, key, buckets, request, passed, uses, overlapped>>

-----------------------------------------------------------------------------
(* The middleware, for one request.                                        *)

\* The first place that names a key: X-Sandbox-Key, X-API-Key, the query, the
\* Authorization header.
extractConsumerKey(places) ==
    IF \E i \in DOMAIN places : places[i] # None
      THEN LET first == CHOOSE i \in DOMAIN places :
                            places[i] # None /\ \A j \in 1 .. i - 1 : places[j] = None
           IN  places[first]
      ELSE None

\* In production mode, and without a key of the map, the request is not handled.
GetKeyByConsumerKey(r) ==
    /\ request[r] = None
    /\ mode = "sandbox"
    /\ \E places \in Place :
          LET k == extractConsumerKey(places) IN
          /\ k \in keys
          /\ request' = [request EXCEPT ![r] = [key |-> k, at |-> "valid", read |-> 0, alone |-> FALSE]]
    /\ UNCHANGED <<mode, now, keys, byApp, key, buckets, passed, uses, overlapped>>

At(r, at) == request[r] # None /\ request[r].at = at

Refuse(r) == request' = [request EXCEPT ![r] = None]

\* Mutant: one use too many.
HasQuotaButOne(k) == key[k].quota = 0 \/ key[k].used <= key[k].quota

\* HasQuota, of the fields as they are at the moment.
HasQuota(k) == key[k].quota = 0 \/ key[k].used < key[k].quota

\* IsValid.
Valid(k) ==
    /\ key[k].active
    /\ key[k].until # None => now <= key[k].until
    /\ HasQuota(k)

IsValid(r) ==
    /\ At(r, "valid")
    /\ IF Valid(request[r].key)
         THEN request' = [request EXCEPT ![r].at = "rate"]
         ELSE Refuse(r)
    /\ UNCHANGED <<mode, now, keys, byApp, key, buckets, passed, uses, overlapped>>

Lesser(a, b) == IF a <= b THEN a ELSE b

\* The bucket of a key, full when it is new, and refilled up to the rate.
Refilled(k) ==
    LET full == key[k].rate * Minute IN
    IF buckets[k] = None THEN full
    ELSE Lesser(full, buckets[k].tokens + (now - buckets[k].last) * key[k].rate)

\* Allow of the rate limiter, under its mutex.
Allow(r) ==
    LET k == request[r].key IN
    /\ At(r, "rate")
    /\ \/ /\ Refilled(k) >= Minute
          /\ buckets' = [buckets EXCEPT ![k] = [tokens |-> Refilled(k) - Minute, last |-> now]]
          /\ passed' = [passed EXCEPT ![k] = @ + 1]
          /\ request' = [request EXCEPT ![r].at = "quota"]
       \/ /\ Refilled(k) < Minute
          /\ buckets' = [buckets EXCEPT ![k] = [tokens |-> Refilled(k), last |-> now]]
          /\ Refuse(r)
          /\ UNCHANGED passed
    /\ UNCHANGED <<mode, now, keys, byApp, key, uses, overlapped>>

\* Requests of key k between the check of the quota and the store of the count.
Counting(k) == {r \in Request : At(r, "load") /\ request[r].key = k}
                 \cup {r \in Request : At(r, "store") /\ request[r].key = k}

\* UseQuota: check ...
CheckQuota(r) ==
    LET k == request[r].key IN
    /\ At(r, "quota")
    /\ IF HasQuota(k)
         THEN request' = [q \in Request |->
                 IF q = r THEN [request[r] EXCEPT !.at = "load", !.alone = Counting(k) = {}]
                 ELSE IF q \in Counting(k) THEN [request[q] EXCEPT !.alone = FALSE]
                 ELSE request[q]]
         ELSE Refuse(r)
    /\ UNCHANGED <<mode, now, keys, byApp, key, buckets, passed, uses, overlapped>>

\* ... load ...
LoadUsed(r) ==
    /\ At(r, "load")
    /\ request' = [request EXCEPT ![r].at = "store", ![r].read = key[request[r].key].used]
    /\ UNCHANGED <<mode, now, keys, byApp, key, buckets, passed, uses, overlapped>>

\* ... and store; then the request is let in.
StoreUsed(r) ==
    LET k == request[r].key IN
    /\ At(r, "store")
    /\ uses[k] < MaxUses
    /\ key' = [key EXCEPT ![k].used = request[r].read + 1]
    /\ uses' = [uses EXCEPT ![k] = @ + 1]
    /\ overlapped' = IF request[r].alone THEN overlapped ELSE [overlapped EXCEPT ![k] = @ + 1]
    /\ request' = [request EXCEPT ![r] = None]
    /\ UNCHANGED <<mode, now, keys, byApp, buckets, passed>>

Tick ==
    /\ now < MaxTime
    /\ now' = now + 1
    /\ UNCHANGED <<mode, keys, byApp, key, buckets, request, passed, uses, overlapped>>

Next ==
    \/ Tick
    \/ \E m \in {"sandbox", "production"} : SetMode(m)
    \/ \E k \in Key : RevokeKey(k) \/ DeleteKey(k) \/ \E a \in App : CreateSandboxKey(k, a)
    \/ \E r \in Request :
          \/ GetKeyByConsumerKey(r) \/ IsValid(r) \/ Allow(r)
          \/ CheckQuota(r) \/ LoadUsed(r) \/ StoreUsed(r)

Spec == Init /\ [][Next]_vars

-----------------------------------------------------------------------------
\* A key is used more often than its quota allows only by requests that were
\* counted at the same time as others, however much their counts were lost, and
\* passes no more often than a full bucket and what was refilled since.
\* Hazard: the count of a key is checked, read and written without a lock.
UseBound ==
    \A k \in Key : key[k] # None =>
        /\ key[k].quota # 0 => uses[k] <= key[k].quota + overlapped[k]
        /\ passed[k] * Minute <= key[k].rate * (Minute + now)
=============================================================================
