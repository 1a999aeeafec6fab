-------------------------- MODULE CacheInvalidation --------------------------
(***************************************************************************)
(* The response cache with a record of what was in it when its API was     *)
(* invalidated, for the promise of InvalidateCache.                        *)
(***************************************************************************)
EXTENDS ResponseCache

VARIABLE outdated  \* keys whose entry was there when its API was invalidated

IInit == Init /\ outdated = {}

INext ==
  \/ \E a \in Apis : /\ InvalidateCache(a)
                     /\ outdated' = outdated \cup {k \in entries : ApiOf(k) = a}
  \/ \E h \in Handlers : SetEnd(h) /\ outdated' = outdated \ {key[h]}
  \/ Next /\ (\A a \in Apis : ~InvalidateCache(a)) /\ (\A h \in Handlers : ~SetEnd(h))
          /\ outdated' = outdated

ISpec == IInit /\ [][INext]_<<vars, outdated>>

\* "InvalidateCache invalidates cache entries for an API context": an entry
\* that was in the cache when its API was invalidated is gone.
Invalidated == entries \cap outdated = {}
=============================================================================
