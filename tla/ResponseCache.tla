---------------------------- MODULE ResponseCache ----------------------------
(***************************************************************************)
(* The gateway's response cache (internal/gateway/cache.go): the map, the  *)
(* doubly linked list and the byte counter of InMemoryCache, with the      *)
(* pointers of the list as the code relinks them, and the middleware that  *)
(* reads and fills it around the backend call.  Set and the cleaner work   *)
(* under c.mu in several steps; every other operation of the cache is one  *)
(* step and needs the mutex free.                                          *)
(***************************************************************************)
EXTENDS Integers, FiniteSetsExt

CONSTANTS Handlers,    \* middleware goroutines
          Apis, Keys,  \* API contexts and cache keys
          ApiOf(_),    \* the API a key was generated for
          Sizes,       \* sizes of a response, overhead included
          MaxEntries, MaxSize,
          Nil,         \* nil pointer
          Nobody, Cleaner

ASSUME BoundsAssumption ==
         /\ MaxEntries \in Nat \ {0} /\ MaxSize \in Nat \ {0}
         /\ Sizes \subseteq Nat \ {0}
         /\ IsFiniteSet(Keys)
         /\ Nil \notin Keys /\ Nil \notin [key : Keys, size : Sizes]
         /\ {Nobody, Cleaner} \cap Handlers = {} /\ Nobody # Cleaner

VARIABLES entries,      \* the keys of c.entries
          size,         \* entry.size, by key
          expired,      \* entry.response.IsExpired(), by key
          currentSize,  \* c.currentSize
          head, tail, next, prev, listSize,  \* c.order and its elements, by key
          mu,           \* who holds c.mu across steps
          todo,         \* the expired entries the cleaner has still to remove
          pc, key, respSize  \* each handler: where it is, its key, its response

list == <<head, tail, next, prev, listSize>>
cache == <<entries, size, expired, currentSize, list>>
handlers == <<pc, key, respSize>>
vars == <<entries, size, expired, currentSize, head, tail, next, prev, listSize,
          mu, todo, pc, key, respSize>>

-----------------------------------------------------------------------------
Init ==
  /\ entries = {} /\ currentSize = 0
  /\ size = [k \in Keys |-> 0]
  /\ expired = [k \in Keys |-> FALSE]
  /\ head = Nil /\ tail = Nil /\ listSize = 0
  /\ next = [k \in Keys |-> Nil] /\ prev = [k \in Keys |-> Nil]
  /\ mu = Nobody /\ todo = {}
  /\ pc = [h \in Handlers |-> "idle"]
  /\ key = [h \in Handlers |-> Nil]
  /\ respSize = [h \in Handlers |-> 0]

-----------------------------------------------------------------------------
(* lruList, its fields as a record so that operations compose. *)
List == [head |-> head, tail |-> tail, next |-> next, prev |-> prev, size |-> listSize]

SetList(l) ==
  /\ head' = l.head /\ tail' = l.tail /\ next' = l.next /\ prev' = l.prev
  /\ listSize' = l.size

\* Mutant: an element without a successor does not give up the tail.
RemovedKeepsTail(l, k) ==
  [head |-> IF l.prev[k] = Nil THEN l.next[k] ELSE l.head,
   tail |-> l.tail,
   next |-> [e \in Keys |-> IF e = l.prev[k] THEN l.next[k] ELSE l.next[e]],
   prev |-> [e \in Keys |-> IF e = l.next[k] THEN l.prev[k] ELSE l.prev[e]],
   size |-> l.size - 1]

\* remove: the neighbours are joined; the element keeps its own pointers.
Removed(l, k) ==
  [head |-> IF l.prev[k] = Nil THEN l.next[k] ELSE l.head,
   tail |-> IF l.next[k] = Nil THEN l.prev[k] ELSE l.tail,
   next |-> [e \in Keys |-> IF e = l.prev[k] THEN l.next[k] ELSE l.next[e]],
   prev |-> [e \in Keys |-> IF e = l.next[k] THEN l.prev[k] ELSE l.prev[e]],
   size |-> l.size - 1]

\* An element, without neighbours so far, becomes the head.
Linked(l, k) ==
  [head |-> k,
   tail |-> IF l.head = Nil THEN k ELSE l.tail,
   next |-> [l.next EXCEPT ![k] = l.head],
   prev |-> [e \in Keys |-> IF e = k THEN Nil ELSE IF e = l.head THEN k ELSE l.prev[e]],
   size |-> l.size + 1]

MovedToFront(l, k) == IF l.head = k THEN l ELSE Linked(Removed(l, k), k)

\* removeEntry
RemoveEntry(k) ==
  /\ entries' = entries \ {k}
  /\ currentSize' = currentSize - size[k]
  /\ SetList(Removed(List, k))

-----------------------------------------------------------------------------
(* Operations of the cache that take c.mu and give it back in one step. *)
Get(k) ==
  IF k \in entries /\ expired[k] THEN RemoveEntry(k)
  ELSE /\ IF k \in entries THEN SetList(MovedToFront(List, k)) ELSE UNCHANGED list
       /\ UNCHANGED <<entries, currentSize>>

Delete(k) ==
  /\ mu = Nobody
  /\ IF k \in entries THEN RemoveEntry(k) ELSE UNCHANGED <<entries, currentSize, list>>
  /\ UNCHANGED <<size, expired, mu, todo, handlers>>

Clear ==
  /\ mu = Nobody
  /\ entries' = {} /\ currentSize' = 0
  /\ head' = Nil /\ tail' = Nil /\ listSize' = 0
  /\ UNCHANGED <<next, prev, size, expired, mu, todo, handlers>>

\* GenerateCacheKey ends in 32 digits of a SHA-256 in hexadecimal, and no such
\* key starts with the prefix "cache:<context>:" that DeleteByAPI looks for.
HasPrefixOf(k, api) == FALSE

InvalidateCache(api) ==
  /\ mu = Nobody
  /\ LET matching == {k \in entries : HasPrefixOf(k, api)} IN
       /\ entries' = entries \ matching
       /\ currentSize' = currentSize - SumFunctionOnSet(size, matching)
       /\ SetList(FoldSet(LAMBDA k, l : Removed(l, k), List, matching))
  /\ UNCHANGED <<size, expired, mu, todo, handlers>>

-----------------------------------------------------------------------------
(* The middleware. *)
Lookup(h, k) ==
  /\ pc[h] = "idle" /\ mu = Nobody
  /\ Get(k)
  /\ IF k \in entries /\ ~expired[k]
       THEN UNCHANGED <<pc, key>>                 \* X-Cache: HIT
       ELSE /\ pc' = [pc EXCEPT ![h] = "backend"] \* X-Cache: MISS
            /\ key' = [key EXCEPT ![h] = k]
  /\ UNCHANGED <<size, expired, mu, todo, respSize>>

\* c.Next() returns: a status that is not cached, a body that is too large, or
\* a response to store.
BackendUncacheable(h) ==
  /\ pc[h] = "backend"
  /\ pc' = [pc EXCEPT ![h] = "idle"]
  /\ key' = [key EXCEPT ![h] = Nil]
  /\ UNCHANGED <<cache, mu, todo, respSize>>

BackendAnswers(h, n) ==
  /\ pc[h] = "backend"
  /\ pc' = [pc EXCEPT ![h] = "set"]
  /\ respSize' = [respSize EXCEPT ![h] = n]
  /\ UNCHANGED <<cache, mu, todo, key>>

\* Set, from taking the mutex to the removal of the entry it replaces.
SetBegin(h) ==
  /\ pc[h] = "set" /\ mu = Nobody
  /\ mu' = h
  /\ IF key[h] \in entries THEN RemoveEntry(key[h])
                           ELSE UNCHANGED <<entries, currentSize, list>>
  /\ pc' = [pc EXCEPT ![h] = "evict"]
  /\ UNCHANGED <<size, expired, todo, key, respSize>>

\* Mutant: the entry count may pass the bound by one.
NeedsRoomOffByOne(h) ==
  /\ Cardinality(entries) > MaxEntries \/ currentSize + respSize[h] > MaxSize
  /\ listSize > 0

NeedsRoom(h) ==
  /\ Cardinality(entries) >= MaxEntries \/ currentSize + respSize[h] > MaxSize
  /\ listSize > 0

\* Mutant: the most recently used entry goes.
EvictNewest(h) ==
  /\ pc[h] = "evict" /\ NeedsRoom(h)
  /\ RemoveEntry(head)
  /\ UNCHANGED <<size, expired, mu, todo, handlers>>

EvictLRU(h) ==
  /\ pc[h] = "evict" /\ NeedsRoom(h)
  /\ RemoveEntry(tail)
  /\ UNCHANGED <<size, expired, mu, todo, handlers>>

SetEnd(h) ==
  /\ pc[h] = "evict" /\ ~NeedsRoom(h)
  /\ SetList(Linked(List, key[h]))
  /\ entries' = entries \cup {key[h]}
  /\ size' = [size EXCEPT ![key[h]] = respSize[h]]
  /\ expired' = [expired EXCEPT ![key[h]] = FALSE]
  /\ currentSize' = currentSize + respSize[h]
  /\ mu' = Nobody
  /\ pc' = [pc EXCEPT ![h] = "idle"]
  /\ key' = [key EXCEPT ![h] = Nil]
  /\ respSize' = [respSize EXCEPT ![h] = 0]
  /\ UNCHANGED todo

-----------------------------------------------------------------------------
(* Time and the cleaner. *)
Expire(k) ==
  /\ k \in entries /\ ~expired[k]
  /\ expired' = [expired EXCEPT ![k] = TRUE]
  /\ UNCHANGED <<entries, size, currentSize, list, mu, todo, handlers>>

CleanupTick ==
  /\ mu = Nobody
  /\ mu' = Cleaner
  /\ todo' = {k \in entries : expired[k]}
  /\ UNCHANGED <<cache, handlers>>

CleanupEntry ==
  /\ mu = Cleaner
  /\ \E k \in todo : RemoveEntry(k) /\ todo' = todo \ {k}
  /\ UNCHANGED <<size, expired, mu, handlers>>

CleanupEnd ==
  /\ mu = Cleaner /\ todo = {}
  /\ mu' = Nobody
  /\ UNCHANGED <<cache, todo, handlers>>

Next ==
  \/ \E h \in Handlers :
       \/ \E k \in Keys : Lookup(h, k)
       \/ BackendUncacheable(h) \/ \E n \in Sizes : BackendAnswers(h, n)
       \/ SetBegin(h) \/ EvictLRU(h) \/ SetEnd(h)
  \/ \E k \in Keys : Delete(k) \/ Expire(k)
  \/ \E a \in Apis : InvalidateCache(a)
  \/ Clear \/ CleanupTick \/ CleanupEntry \/ CleanupEnd

Spec == Init /\ [][Next]_vars

-----------------------------------------------------------------------------
\* The elements that the walk along the list from its head meets.
Walk(l) ==
  LET at[i \in 1 .. Cardinality(Keys)] ==
        IF i = 1 THEN l.head
        ELSE IF at[i - 1] = Nil THEN Nil ELSE l.next[at[i - 1]]
  IN  at

\* The list is whole: its forward walk meets every entry of the map once and
\* ends at the tail, and the backward pointers mirror the forward ones.  A key
\* in only one of map and list would never be evicted, or evict nothing.
ListWhole ==
  /\ listSize = Cardinality(entries)
  /\ {Walk(List)[i] : i \in 1 .. listSize} = entries
  /\ (entries = {}) <=> (head = Nil)
  /\ (head = Nil) <=> (tail = Nil)
  /\ head # Nil => prev[head] = Nil /\ next[tail] = Nil /\ tail = Walk(List)[listSize]
  /\ \A k \in entries : next[k] # Nil => next[k] \in entries /\ prev[next[k]] = k

\* The byte counter is what the entries weigh, however they came and went, and
\* it exceeds the limit only for a single response that is larger than that.
SizeExact == currentSize = SumFunctionOnSet(size, entries)
WithinBounds ==
  /\ Cardinality(entries) <= MaxEntries
  /\ SizeExact
  /\ currentSize > MaxSize => Cardinality(entries) = 1

\* The linked list and the map implement the least-recently-used cache.
Setter == {h \in Handlers : pc[h] = "evict"}
Listing(l, sizes) == [i \in 1 .. l.size |-> [key |-> Walk(l)[i], size |-> sizes[Walk(l)[i]]]]
Recent == Listing(List, size)
Pending == IF Setter = {} THEN Nil
           ELSE LET h == CHOOSE h \in Setter : TRUE
                IN [key |-> key[h], size |-> respSize[h]]

Lru == INSTANCE LruCache WITH recent <- Recent, pending <- Pending, NoEntry <- Nil
IsLruCache == Lru!Spec
=============================================================================
