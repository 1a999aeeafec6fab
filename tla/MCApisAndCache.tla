---------------------------- MODULE MCApisAndCache ----------------------------
(***************************************************************************)
(* Two things that requests read, and act on later: the rows of APIs,      *)
(* which the publisher's handlers check and write, and the gateway's       *)
(* response cache.  They share no state: one of them is chosen at the      *)
(* start and moves.                                                        *)
(***************************************************************************)
EXTENDS ApiPublisher, ResponseCache, TLC

CONSTANTS k1, k2, k3, a1, a2

MCApiOf(k) == IF k = k3 THEN a2 ELSE a1

VARIABLE subject    \* the component that moves

ApisAndCacheInit ==
  /\ subject \in {"publisher", "cache"}
  /\ PublisherInit /\ Init

ApisAndCacheNext ==
  /\ UNCHANGED subject
  /\ \/ subject = "publisher" /\ PublisherNext /\ UNCHANGED vars
     \/ subject = "cache" /\ Next /\ UNCHANGED publisherVars

ApisAndCacheSpec == ApisAndCacheInit /\ [][ApisAndCacheNext]_<<publisherVars, vars, subject>>

Symmetry == Permutations(Ids) \cup Permutations(Publishers)
================================================================================
