------------------------------ MODULE LruCache ------------------------------
(***************************************************************************)
(* What the gateway's response cache promises: a bounded list of responses *)
(* kept most recently used first.  Room for a new response is made by      *)
(* dropping the least recently used ones, only as long as it does not fit, *)
(* and nothing else happens to the cache meanwhile.                        *)
(***************************************************************************)
EXTENDS Naturals, Sequences, Functions

CONSTANTS Keys, Sizes, MaxEntries, MaxSize, NoEntry

VARIABLES recent,  \* the entries [key, size], most recently used first
          pending  \* the entry room is being made for, or NoEntry

TotalSize(s) == SumFunction([i \in DOMAIN s |-> s[i].size])
Fits(e) == Len(recent) < MaxEntries /\ TotalSize(recent) + e.size <= MaxSize
Without(k) ==
  IF \E i \in DOMAIN recent : recent[i].key = k
    THEN LET p == CHOOSE i \in DOMAIN recent : recent[i].key = k
         IN  SubSeq(recent, 1, p - 1) \o SubSeq(recent, p + 1, Len(recent))
    ELSE recent

Init == recent = <<>> /\ pending = NoEntry

Use(k) ==
  /\ pending = NoEntry
  /\ \E i \in DOMAIN recent : recent[i].key = k /\ recent' = <<recent[i]>> \o Without(k)
  /\ UNCHANGED pending

Discard(k) ==
  /\ pending = NoEntry
  /\ recent' = Without(k)
  /\ UNCHANGED pending

Clear ==
  /\ pending = NoEntry
  /\ recent' = <<>>
  /\ UNCHANGED pending

Begin(k, n) ==
  /\ pending = NoEntry
  /\ pending' = [key |-> k, size |-> n]
  /\ recent' = Without(k)

DropLeastRecent ==
  /\ pending # NoEntry /\ recent # <<>> /\ ~Fits(pending)
  /\ recent' = SubSeq(recent, 1, Len(recent) - 1)
  /\ UNCHANGED pending

Add ==
  /\ pending # NoEntry /\ (Fits(pending) \/ recent = <<>>)
  /\ recent' = <<pending>> \o recent
  /\ pending' = NoEntry

Next ==
  \/ \E k \in Keys : Use(k) \/ Discard(k) \/ \E n \in Sizes : Begin(k, n)
  \/ Clear \/ DropLeastRecent \/ Add

Spec == Init /\ [][Next]_<<recent, pending>>
=============================================================================
