-------------------------- MODULE ResponseCache_proofs --------------------------
(***************************************************************************)
(* The response cache, for any number of handlers, any keys and sizes and  *)
(* any bounds: its list is whole, its counter exact and within the bounds, *)
(* and it implements the least-recently-used cache of LruCache.            *)
(*                                                                         *)
(* The proofs say of the list's pointers which order of the entries they   *)
(* follow (Follows).  The provers have no induction: the walk along the    *)
(* list and the sums are recursive functions whose equation has one        *)
(* solution, which the smallest argument that differs shows.  The lemmas   *)
(* on sums are those of Limiters_proofs, whose variables are not these.    *)
(***************************************************************************)
EXTENDS ResponseCache, SequenceTheorems, FiniteSetTheorems, TLAPS

-------------------------------------------------------------------------------
(* Smallest members and sums *)

\* A collection of subsets of a finite set has a smallest member: the form of
\* induction on finite sets that the provers can use.
LEMMA LeastSubset ==
  ASSUME NEW S, IsFiniteSet(S), NEW T, T \subseteq SUBSET S, T # {}
  PROVE  \E s \in T : \A t \in T : ~(t \subseteq s /\ t # s)
  <1>1. IsWellFoundedOn(StrictSubsetOrdering(S), FiniteSubsetsOf(S))
    BY FS_StrictSubsetOrderingWellFounded
  <1>2. T \subseteq FiniteSubsetsOf(S)
    BY FS_Subset DEF FiniteSubsetsOf
  <1>3. PICK s \in T : \A t \in T : <<t, s>> \notin StrictSubsetOrdering(S)
    BY <1>1, <1>2, WFMin
  <1> QED BY <1>3 DEF StrictSubsetOrdering

\* The numbers up to n are n.
LEMMA UpTo == ASSUME NEW n \in Nat PROVE IsFiniteSet(1 .. n) /\ Cardinality(1 .. n) = n
  <1>1. 1 \in Int /\ n \in Int
    OBVIOUS
  <1>2. IsFiniteSet(1 .. n) /\ Cardinality(1 .. n) = IF 1 > n THEN 0 ELSE n - 1 + 1
    BY <1>1, FS_Interval
  <1> QED BY <1>2

\* A set of numbers up to n has a smallest member.
LEMMA SmallestNumber ==
  ASSUME NEW n \in Nat, NEW T, T \subseteq 1 .. n, T # {}
  PROVE  \E i \in T : \A j \in T : i <= j
  <1> DEFINE C == {1 .. i : i \in T}
             N == 1 .. n
  <1>1. C \subseteq SUBSET N /\ C # {}
    <2>1. \A i \in T : 1 .. i \subseteq 1 .. n
      OBVIOUS
    <2> QED BY <2>1
  <1>2. IsFiniteSet(N)
    BY UpTo
  <1>3. PICK s \in C : \A t \in C : ~(t \subseteq s /\ t # s)
    <2> HIDE DEF C, N
    <2> QED BY <1>1, <1>2, LeastSubset
  <1>4. PICK i \in T : s = 1 .. i
    OBVIOUS
  <1>5. ASSUME NEW j \in T, ~(i <= j) PROVE FALSE
    <2>1. 1 .. j \in C
      OBVIOUS
    <2>2. 1 .. j \subseteq 1 .. i /\ i \in 1 .. i /\ i \notin 1 .. j
      BY <1>5
    <2> HIDE DEF C
    <2> QED BY <1>3, <1>4, <2>1, <2>2
  <1> QED BY <1>5

\* What the fold of SumFunctionOnSet adds up: g[s] is the sum of f over s.
Adds(g, f, S) ==
  g = [s \in SUBSET S |->
         IF s = {} THEN 0
         ELSE f[CHOOSE x \in s : TRUE] + g[s \ {CHOOSE x \in s : TRUE}]]

\* There is one way to add up the values of a function, ...
LEMMA AddsUnique ==
  ASSUME NEW S, IsFiniteSet(S), NEW f, NEW g, NEW h, Adds(g, f, S), Adds(h, f, S)
  PROVE  g = h
  <1> DEFINE Bad == {s \in SUBSET S : g[s] # h[s]}
  <1>1. SUFFICES Bad = {}
    BY <1>1 DEF Adds
  <1>2. SUFFICES ASSUME Bad # {} PROVE FALSE
    OBVIOUS
  <1>3. PICK s \in Bad : \A t \in Bad : ~(t \subseteq s /\ t # s)
    <2>1. Bad \subseteq SUBSET S
      OBVIOUS
    <2> HIDE DEF Bad
    <2> QED BY <1>2, <2>1, LeastSubset
  <1> DEFINE c == CHOOSE x \in s : TRUE
  <1>4. s # {} => c \in s
    OBVIOUS
  <1>5. s # {} => g[s \ {c}] = h[s \ {c}]
    BY <1>3, <1>4
  <1> QED BY <1>3, <1>5 DEF Adds

\* ... and there is one.
LEMMA AddsExists ==
  ASSUME NEW S, IsFiniteSet(S), NEW f
  PROVE  \E g : Adds(g, f, S)
  <1> DEFINE Bad == {s \in SUBSET S : ~ \E g : Adds(g, f, s)}
  <1>1. SUFFICES ASSUME Bad # {} PROVE FALSE
    OBVIOUS
  <1>2. PICK s \in Bad : \A t \in Bad : ~(t \subseteq s /\ t # s)
    <2>1. Bad \subseteq SUBSET S
      OBVIOUS
    <2> HIDE DEF Bad
    <2> QED BY <1>1, <2>1, LeastSubset
  <1> DEFINE G(t) == CHOOSE g : Adds(g, f, t)
             c(t) == CHOOSE x \in t : TRUE
             h == [t \in SUBSET s |-> IF t = {} THEN 0 ELSE f[c(t)] + G(t \ {c(t)})[t \ {c(t)}]]
  <1>3. \A t \in SUBSET s : t # s => Adds(G(t), f, t)
    <2> SUFFICES ASSUME NEW t \in SUBSET s, t # s PROVE Adds(G(t), f, t)
      OBVIOUS
    <2>1. \E g : Adds(g, f, t)
      BY <1>2
    <2> QED BY <2>1
  <1>4. \A t \in SUBSET s : t # {} => c(t) \in t
    OBVIOUS
  <1>5. \A t \in SUBSET s : t # s => h[t] = G(t)[t]
    <2> SUFFICES ASSUME NEW t \in SUBSET s, t # s PROVE h[t] = G(t)[t]
      OBVIOUS
    <2>0. CASE t = {}
      <3>1. h[t] = 0
        BY <2>0
      <3>2. Adds(G(t), f, t)
        BY <1>3
      <3> HIDE DEF G, h
      <3> QED BY <2>0, <3>1, <3>2 DEF Adds
    <2> SUFFICES ASSUME t # {} PROVE h[t] = G(t)[t]
      BY <2>0
    <2> DEFINE u == t \ {c(t)}
               k == [v \in SUBSET u |-> G(t)[v]]
    <2>1. u \in SUBSET s /\ u # s /\ u \in SUBSET t
      BY <1>4
    <2>2. Adds(G(t), f, t) /\ Adds(G(u), f, u)
      BY <1>3, <2>1
    <2>3. Adds(k, f, u)
      <3> SUFFICES ASSUME NEW v \in SUBSET u
                   PROVE  k[v] = IF v = {} THEN 0
                                 ELSE f[CHOOSE x \in v : TRUE] + k[v \ {CHOOSE x \in v : TRUE}]
        BY DEF Adds
      <3>1. v \in SUBSET t /\ v \ {CHOOSE x \in v : TRUE} \in SUBSET u
        BY <2>1
      <3>2. G(t)[v] = IF v = {} THEN 0
                      ELSE f[CHOOSE x \in v : TRUE] + G(t)[v \ {CHOOSE x \in v : TRUE}]
        <4> HIDE DEF G, u
        <4> QED BY <2>2, <3>1 DEF Adds
      <3> QED BY <3>1, <3>2
    <2>4. IsFiniteSet(u)
      BY <2>1, <1>2, FS_Subset
    <2>5. k = G(u)
      <3> HIDE DEF k, G, u
      <3> QED BY <2>2, <2>3, <2>4, AddsUnique
    <2>6. G(t)[u] = G(u)[u]
      <3>1. k[u] = G(t)[u]
        OBVIOUS
      <3> HIDE DEF k, G
      <3> QED BY <2>5, <3>1
    <2>7. G(t)[t] = f[c(t)] + G(t)[u]
      <3> HIDE DEF G
      <3> QED BY <2>2 DEF Adds
    <2>8. h[t] = f[c(t)] + G(u)[u]
      <3> HIDE DEF G
      <3> QED OBVIOUS
    <2> QED BY <2>6, <2>7, <2>8
  <1>6. Adds(h, f, s)
    <2> SUFFICES ASSUME NEW t \in SUBSET s
                 PROVE  h[t] = IF t = {} THEN 0 ELSE f[c(t)] + h[t \ {c(t)}]
      <3>1. h = [t \in SUBSET s |-> h[t]]
        OBVIOUS
      <3> HIDE DEF G, h
      <3> QED BY <3>1 DEF Adds
    <2>0. t = {} => h[t] = 0
      OBVIOUS
    <2> SUFFICES ASSUME t # {} PROVE h[t] = f[c(t)] + h[t \ {c(t)}]
      BY <2>0
    <2>1. t \ {c(t)} \in SUBSET s /\ t \ {c(t)} # s
      BY <1>4
    <2>2. h[t \ {c(t)}] = G(t \ {c(t)})[t \ {c(t)}]
      BY <1>5, <2>1
    <2> HIDE DEF G
    <2> QED BY <2>2
  <1> QED BY <1>2, <1>6

\* SumFunctionOnSet adds up, in some order.
LEMMA SumAdds ==
  ASSUME NEW S, IsFiniteSet(S), NEW f
  PROVE  \E g : Adds(g, f, S) /\ SumFunctionOnSet(f, S) = g[S]
  <1>1. SumFunctionOnSet(f, S) = (CHOOSE g : Adds(g, f, S))[S]
    BY DEF SumFunctionOnSet, FoldFunctionOnSet, MapThenFoldSet, Adds
  <1>2. PICK g : Adds(g, f, S)
    BY AddsExists
  <1> QED BY <1>1, <1>2

\* Nothing adds up to zero.
LEMMA SumEmpty == ASSUME NEW f PROVE SumFunctionOnSet(f, {}) = 0
  BY SumAdds, FS_EmptySet DEF Adds

\* A sum over a set that is not empty takes one value off.
LEMMA SumUnfold ==
  ASSUME NEW S, IsFiniteSet(S), NEW f, S # {}
  PROVE  \E x \in S : SumFunctionOnSet(f, S) = f[x] + SumFunctionOnSet(f, S \ {x})
  <1> DEFINE x == CHOOSE y \in S : TRUE
             T == S \ {x}
  <1>1. PICK g : Adds(g, f, S) /\ SumFunctionOnSet(f, S) = g[S]
    BY SumAdds
  <1>2. PICK h : Adds(h, f, T) /\ SumFunctionOnSet(f, T) = h[T]
    BY SumAdds, FS_Subset
  <1>3. g[S] = f[x] + g[T]
    BY <1>1 DEF Adds
  <1> DEFINE k == [s \in SUBSET T |-> g[s]]
  <1>4. Adds(k, f, T)
    <2> SUFFICES ASSUME NEW v \in SUBSET T
                 PROVE  k[v] = IF v = {} THEN 0
                               ELSE f[CHOOSE y \in v : TRUE] + k[v \ {CHOOSE y \in v : TRUE}]
      BY DEF Adds
    <2>1. v \in SUBSET S /\ v \ {CHOOSE y \in v : TRUE} \in SUBSET T
      OBVIOUS
    <2>2. g[v] = IF v = {} THEN 0
                 ELSE f[CHOOSE y \in v : TRUE] + g[v \ {CHOOSE y \in v : TRUE}]
      BY <1>1, <2>1 DEF Adds
    <2> QED BY <2>1, <2>2
  <1>5. k = h
    <2>1. IsFiniteSet(T)
      BY FS_Subset
    <2> HIDE DEF k, T
    <2> QED BY <1>2, <1>4, <2>1, AddsUnique
  <1>6. k[T] = g[T]
    OBVIOUS
  <1>7. SumFunctionOnSet(f, T) = g[T]
    <2> HIDE DEF k, T
    <2> QED BY <1>2, <1>5, <1>6
  <1>8. x \in S
    OBVIOUS
  <1> HIDE DEF x
  <1> QED BY <1>1, <1>3, <1>7, <1>8

\* Natural numbers add up to a natural number.
LEMMA SumType ==
  ASSUME NEW S, IsFiniteSet(S), NEW f, \A x \in S : f[x] \in Nat
  PROVE  SumFunctionOnSet(f, S) \in Nat
  <1> DEFINE Bad == {s \in SUBSET S : SumFunctionOnSet(f, s) \notin Nat}
  <1>1. SUFFICES ASSUME Bad # {} PROVE FALSE
    OBVIOUS
  <1>2. PICK s \in Bad : \A t \in Bad : ~(t \subseteq s /\ t # s)
    <2>1. Bad \subseteq SUBSET S
      OBVIOUS
    <2> HIDE DEF Bad
    <2> QED BY <1>1, <2>1, LeastSubset
  <1>3. s # {} /\ IsFiniteSet(s)
    <2>1. SumFunctionOnSet(f, {}) \in Nat
      BY SumEmpty
    <2>2. s # {}
      BY <2>1
    <2> QED BY <2>2, FS_Subset
  <1>4. PICK x \in s : SumFunctionOnSet(f, s) = f[x] + SumFunctionOnSet(f, s \ {x})
    BY <1>3, SumUnfold
  <1>5. s \ {x} \in SUBSET S /\ s \ {x} \notin Bad
    BY <1>2
  <1> QED BY <1>4, <1>5

\* Any element may be taken out of the sum.
LEMMA SumRemove ==
  ASSUME NEW S, IsFiniteSet(S), NEW f, \A x \in S : f[x] \in Nat, NEW x \in S
  PROVE  SumFunctionOnSet(f, S) = f[x] + SumFunctionOnSet(f, S \ {x})
  <1> DEFINE Bad == {s \in SUBSET S : \E y \in s : SumFunctionOnSet(f, s) # f[y] + SumFunctionOnSet(f, s \ {y})}
  <1>1. SUFFICES ASSUME Bad # {} PROVE FALSE
    OBVIOUS
  <1>2. PICK s \in Bad : \A t \in Bad : ~(t \subseteq s /\ t # s)
    <2>1. Bad \subseteq SUBSET S
      OBVIOUS
    <2> HIDE DEF Bad
    <2> QED BY <1>1, <2>1, LeastSubset
  <1>3. PICK y \in s : SumFunctionOnSet(f, s) # f[y] + SumFunctionOnSet(f, s \ {y})
    OBVIOUS
  <1>4. PICK z \in s : SumFunctionOnSet(f, s) = f[z] + SumFunctionOnSet(f, s \ {z})
    BY SumUnfold, FS_Subset
  <1>5. y # z /\ y \in s \ {z} /\ z \in s \ {y}
    BY <1>3, <1>4
  <1>6. \A t \in SUBSET s : t # s => \A w \in t :
           SumFunctionOnSet(f, t) = f[w] + SumFunctionOnSet(f, t \ {w})
    BY <1>2
  <1>7. /\ SumFunctionOnSet(f, s \ {z}) = f[y] + SumFunctionOnSet(f, (s \ {z}) \ {y})
        /\ SumFunctionOnSet(f, s \ {y}) = f[z] + SumFunctionOnSet(f, (s \ {y}) \ {z})
    BY <1>5, <1>6
  <1>8. (s \ {z}) \ {y} = (s \ {y}) \ {z}
    OBVIOUS
  <1>9. SumFunctionOnSet(f, (s \ {z}) \ {y}) \in Nat /\ f[y] \in Nat /\ f[z] \in Nat
    <2>1. IsFiniteSet((s \ {z}) \ {y}) /\ (s \ {z}) \ {y} \subseteq S
      BY FS_Subset
    <2> QED BY <2>1, SumType
  <1> HIDE DEF Bad
  <1> QED BY <1>3, <1>4, <1>7, <1>8, <1>9

\* Equal values have equal sums.
LEMMA SumEqual ==
  ASSUME NEW S, IsFiniteSet(S), NEW f, NEW g, \A x \in S : f[x] = g[x]
  PROVE  SumFunctionOnSet(f, S) = SumFunctionOnSet(g, S)
  <1>1. PICK h : Adds(h, f, S) /\ SumFunctionOnSet(f, S) = h[S]
    BY SumAdds
  <1>2. PICK k : Adds(k, g, S) /\ SumFunctionOnSet(g, S) = k[S]
    BY SumAdds
  <1>3. Adds(h, g, S)
    <2>1. \A s \in SUBSET S : s # {} => f[CHOOSE x \in s : TRUE] = g[CHOOSE x \in s : TRUE]
      OBVIOUS
    <2> QED BY <1>1, <2>1 DEF Adds
  <1> QED BY <1>1, <1>2, <1>3, AddsUnique

\* The positions of the order o have the values that sz gives what is at them.
Values(f, n, o, S, sz) ==
  /\ n \in Nat /\ o \in [1 .. n -> S]
  /\ \A e \in S : sz[e] \in Nat
  /\ \A i, j \in 1 .. n : o[i] = o[j] => i = j
  /\ \A e \in S : \E i \in 1 .. n : o[i] = e
  /\ \A i \in 1 .. n : f[i] = sz[o[i]]

\* A sum over positions is the sum over what is at them.
LEMMA SumInOrder ==
  ASSUME NEW f, NEW n, NEW o, NEW S, NEW sz, Values(f, n, o, S, sz)
  PROVE  SumFunctionOnSet(f, 1 .. n) = SumFunctionOnSet(sz, S)
  <1>0. /\ n \in Nat /\ o \in [1 .. n -> S]
        /\ \A e \in S : sz[e] \in Nat
        /\ \A i, j \in 1 .. n : o[i] = o[j] => i = j
        /\ \A e \in S : \E i \in 1 .. n : o[i] = e
        /\ \A i \in 1 .. n : f[i] = sz[o[i]]
    BY DEF Values
  <1> USE <1>0
  <1> DEFINE Img(m) == {o[i] : i \in 1 .. m}
             Bad == {m \in 1 .. n : SumFunctionOnSet(f, 1 .. m) # SumFunctionOnSet(sz, Img(m))}
  <1>1. SUFFICES Bad = {}
    <2>1. CASE n = 0
      <3>1. 1 .. n = {} /\ S = {}
        BY <2>1
      <3>2. SumFunctionOnSet(f, {}) = 0 /\ SumFunctionOnSet(sz, {}) = 0
        BY SumEmpty
      <3> QED BY <3>1, <3>2
    <2>2. CASE n # 0
      <3>1. n \in 1 .. n /\ Img(n) = S
        BY <2>2
      <3> QED BY <1>1, <3>1
    <2> QED BY <2>1, <2>2
  <1>2. SUFFICES ASSUME Bad # {} PROVE FALSE
    OBVIOUS
  <1>3. PICK m \in Bad : \A j \in Bad : m <= j
    <2>1. Bad \subseteq 1 .. n
      OBVIOUS
    <2> HIDE DEF Bad
    <2> QED BY <1>2, <2>1, SmallestNumber
  <1>4. m \in 1 .. n /\ m \in Nat /\ m - 1 \in Nat
    OBVIOUS
  <1>5. SumFunctionOnSet(f, 1 .. m) # SumFunctionOnSet(sz, Img(m))
    OBVIOUS
  <1>6. SumFunctionOnSet(f, 1 .. m - 1) = SumFunctionOnSet(sz, Img(m - 1))
    <2>1. CASE m = 1
      <3>1. 1 .. m - 1 = {} /\ Img(m - 1) = {}
        BY <2>1
      <3>2. SumFunctionOnSet(f, {}) = 0 /\ SumFunctionOnSet(sz, {}) = 0
        BY SumEmpty
      <3> HIDE DEF Img
      <3> QED BY <3>1, <3>2
    <2>2. CASE m # 1
      <3>1. m - 1 \in 1 .. n /\ ~(m <= m - 1)
        BY <2>2, <1>4
      <3>2. m - 1 \notin Bad
        <4> HIDE DEF Bad
        <4> QED BY <3>1, <1>3
      <3> HIDE DEF Img
      <3> QED BY <3>1, <3>2
    <2> QED BY <2>1, <2>2
  <1>7. SumFunctionOnSet(f, 1 .. m) = f[m] + SumFunctionOnSet(f, 1 .. m - 1)
    <2>1. (1 .. m) \ {m} = 1 .. m - 1 /\ m \in 1 .. m
      BY <1>4
    <2>2. IsFiniteSet(1 .. m)
      BY <1>4, UpTo
    <2>3. \A i \in 1 .. m : f[i] \in Nat
      BY <1>4
    <2>4. SumFunctionOnSet(f, 1 .. m) = f[m] + SumFunctionOnSet(f, (1 .. m) \ {m})
      <3> HIDE DEF Bad, Img
      <3> QED BY <2>1, <2>2, <2>3, SumRemove
    <2> QED BY <2>1, <2>4
  <1>8. SumFunctionOnSet(sz, Img(m)) = sz[o[m]] + SumFunctionOnSet(sz, Img(m - 1))
    <2>1. Img(m) \ {o[m]} = Img(m - 1) /\ o[m] \in Img(m)
      <3>1. \A i \in 1 .. m : i # m => i \in 1 .. m - 1 /\ o[i] # o[m]
        BY <1>4
      <3>2. \A i \in 1 .. m - 1 : i \in 1 .. m /\ o[i] # o[m]
        BY <1>4
      <3>3. m \in 1 .. m
        BY <1>4
      <3> QED BY <3>1, <3>2, <3>3
    <2>2. IsFiniteSet(Img(m))
      <3>1. IsFiniteSet(1 .. m)
        BY <1>4, UpTo
      <3> DEFINE g == [i \in 1 .. m |-> o[i]]
      <3>2. g \in Surjection(1 .. m, Img(m))
        BY DEF Surjection
      <3> HIDE DEF g, Img, Bad
      <3> QED BY <3>1, <3>2, FS_Surjection
    <2>3. \A e \in Img(m) : sz[e] \in Nat
      BY <1>4
    <2> HIDE DEF Bad, Img
    <2>4. SumFunctionOnSet(sz, Img(m)) = sz[o[m]] + SumFunctionOnSet(sz, Img(m) \ {o[m]})
      BY <2>1, <2>2, <2>3, SumRemove
    <2> QED BY <2>1, <2>4
  <1> HIDE DEF Bad, Img
  <1> QED BY <1>4, <1>5, <1>6, <1>7, <1>8

-------------------------------------------------------------------------------
(* The list: a sequence of the entries that its pointers follow.           *)

\* The values the fields of lruList take.
Lists == [head : Keys \cup {Nil}, tail : Keys \cup {Nil}, next : [Keys -> Keys \cup {Nil}],
          prev : [Keys -> Keys \cup {Nil}], size : Nat]

\* The list l is the elements of S in the order o.
Follows(l, o, S) ==
  /\ l \in Lists
  /\ S \in SUBSET Keys
  /\ o \in [1 .. l.size -> S]
  /\ \A k \in S : \E i \in 1 .. l.size : o[i] = k
  /\ \A i, j \in 1 .. l.size : o[i] = o[j] => i = j
  /\ l.head = IF l.size = 0 THEN Nil ELSE o[1]
  /\ l.tail = IF l.size = 0 THEN Nil ELSE o[l.size]
  /\ \A i \in 1 .. l.size : /\ l.next[o[i]] = IF i = l.size THEN Nil ELSE o[i + 1]
                            /\ l.prev[o[i]] = IF i = 1 THEN Nil ELSE o[i - 1]

\* The order without its element at p, and with k in front.
Cut(o, p, n) == [i \in 1 .. n - 1 |-> IF i < p THEN o[i] ELSE o[i + 1]]
Push(k, o, n) == [i \in 1 .. n + 1 |-> IF i = 1 THEN k ELSE o[i - 1]]

\* The nil pointer is no element.
LEMMA NilIsNoKey == Nil \notin Keys
  BY BoundsAssumption DEF BoundsAssumption

\* What remove makes of the list, field by field.
LEMMA RemovedFields ==
  ASSUME NEW l \in Lists, NEW k \in Keys, l.size > 0
  PROVE  /\ Removed(l, k) \in Lists
         /\ Removed(l, k).size = l.size - 1
         /\ Removed(l, k).head = IF l.prev[k] = Nil THEN l.next[k] ELSE l.head
         /\ Removed(l, k).tail = IF l.next[k] = Nil THEN l.prev[k] ELSE l.tail
         /\ \A e \in Keys : /\ Removed(l, k).next[e] = IF e = l.prev[k] THEN l.next[k] ELSE l.next[e]
                            /\ Removed(l, k).prev[e] = IF e = l.next[k] THEN l.prev[k] ELSE l.prev[e]
  <1> DEFINE nx == [e \in Keys |-> IF e = l.prev[k] THEN l.next[k] ELSE l.next[e]]
             pv == [e \in Keys |-> IF e = l.next[k] THEN l.prev[k] ELSE l.prev[e]]
             hd == IF l.prev[k] = Nil THEN l.next[k] ELSE l.head
             tl == IF l.next[k] = Nil THEN l.prev[k] ELSE l.tail
  <1>1. Removed(l, k) = [head |-> hd, tail |-> tl, next |-> nx, prev |-> pv, size |-> l.size - 1]
    BY DEF Removed
  <1>2. /\ l.next[k] \in Keys \cup {Nil} /\ l.prev[k] \in Keys \cup {Nil}
        /\ \A e \in Keys : l.next[e] \in Keys \cup {Nil} /\ l.prev[e] \in Keys \cup {Nil}
        /\ l.head \in Keys \cup {Nil} /\ l.tail \in Keys \cup {Nil} /\ l.size \in Nat
    BY DEF Lists
  <1>3. /\ nx \in [Keys -> Keys \cup {Nil}] /\ pv \in [Keys -> Keys \cup {Nil}]
        /\ hd \in Keys \cup {Nil} /\ tl \in Keys \cup {Nil} /\ l.size - 1 \in Nat
    BY <1>2
  <1>4. \A e \in Keys : /\ nx[e] = IF e = l.prev[k] THEN l.next[k] ELSE l.next[e]
                        /\ pv[e] = IF e = l.next[k] THEN l.prev[k] ELSE l.prev[e]
    OBVIOUS
  <1> HIDE DEF nx, pv
  <1> QED BY <1>1, <1>3, <1>4 DEF Lists

\* What linking an element in front makes of the list, field by field.
LEMMA LinkedFields ==
  ASSUME NEW l \in Lists, NEW k \in Keys
  PROVE  /\ Linked(l, k) \in Lists
         /\ Linked(l, k).size = l.size + 1
         /\ Linked(l, k).head = k
         /\ Linked(l, k).tail = IF l.head = Nil THEN k ELSE l.tail
         /\ \A e \in Keys : /\ Linked(l, k).next[e] = IF e = k THEN l.head ELSE l.next[e]
                            /\ Linked(l, k).prev[e] = IF e = k THEN Nil ELSE IF e = l.head THEN k ELSE l.prev[e]
  <1> DEFINE nx == [l.next EXCEPT ![k] = l.head]
             pv == [e \in Keys |-> IF e = k THEN Nil ELSE IF e = l.head THEN k ELSE l.prev[e]]
             tl == IF l.head = Nil THEN k ELSE l.tail
  <1>1. Linked(l, k) = [head |-> k, tail |-> tl, next |-> nx, prev |-> pv, size |-> l.size + 1]
    BY DEF Linked
  <1>2. /\ l.next \in [Keys -> Keys \cup {Nil}]
        /\ \A e \in Keys : l.prev[e] \in Keys \cup {Nil}
        /\ l.head \in Keys \cup {Nil} /\ l.tail \in Keys \cup {Nil} /\ l.size \in Nat
    BY DEF Lists
  <1>3. /\ nx \in [Keys -> Keys \cup {Nil}] /\ pv \in [Keys -> Keys \cup {Nil}]
        /\ tl \in Keys \cup {Nil} /\ l.size + 1 \in Nat
    BY <1>2
  <1>4. \A e \in Keys : /\ nx[e] = IF e = k THEN l.head ELSE l.next[e]
                        /\ pv[e] = IF e = k THEN Nil ELSE IF e = l.head THEN k ELSE l.prev[e]
    BY <1>2
  <1> HIDE DEF nx, pv
  <1> QED BY <1>1, <1>3, <1>4 DEF Lists

\* remove takes the element out of the order.
LEMMA RemovedFollows ==
  ASSUME NEW l, NEW o, NEW S, Follows(l, o, S), NEW p \in 1 .. l.size
  PROVE  /\ Follows(Removed(l, o[p]), Cut(o, p, l.size), S \ {o[p]})
         /\ Removed(l, o[p]).size = l.size - 1
  <1> DEFINE k == o[p]
             n == l.size
             r == Removed(l, k)
             q == Cut(o, p, n)
             T == S \ {k}
  <1>0. /\ l \in Lists /\ n \in Nat \ {0} /\ S \in SUBSET Keys /\ o \in [1 .. n -> S] /\ k \in S /\ k \in Keys
        /\ \A i \in 1 .. n : o[i] \in S /\ o[i] \in Keys /\ o[i] # Nil
    BY NilIsNoKey DEF Follows, Lists
  <1>1. /\ \A e \in S : \E i \in 1 .. n : o[i] = e
        /\ \A i, j \in 1 .. n : o[i] = o[j] => i = j
        /\ l.head = o[1] /\ l.tail = o[n]
        /\ \A i \in 1 .. n : l.next[o[i]] = IF i = n THEN Nil ELSE o[i + 1]
        /\ \A i \in 1 .. n : l.prev[o[i]] = IF i = 1 THEN Nil ELSE o[i - 1]
    BY <1>0 DEF Follows
  <1>2. /\ r \in Lists /\ r.size = n - 1
        /\ r.head = IF l.prev[k] = Nil THEN l.next[k] ELSE l.head
        /\ r.tail = IF l.next[k] = Nil THEN l.prev[k] ELSE l.tail
        /\ \A e \in Keys : /\ r.next[e] = IF e = l.prev[k] THEN l.next[k] ELSE l.next[e]
                           /\ r.prev[e] = IF e = l.next[k] THEN l.prev[k] ELSE l.prev[e]
    BY <1>0, RemovedFields
  <1>3. l.next[k] = (IF p = n THEN Nil ELSE o[p + 1]) /\ l.prev[k] = (IF p = 1 THEN Nil ELSE o[p - 1])
    BY <1>1
  <1>p. p \in 1 .. n
    OBVIOUS
  <1>q. /\ \A i \in 1 .. n - 1 : q[i] = IF i < p THEN o[i] ELSE o[i + 1]
        /\ DOMAIN q = 1 .. n - 1 /\ q = [i \in 1 .. n - 1 |-> q[i]]
    BY DEF Cut
  <1>k. k = o[p] /\ T = S \ {k}
    OBVIOUS
  <1> HIDE DEF k, n, r, q, T
  <1>4. q \in [1 .. n - 1 -> T]
    <2>1. ASSUME NEW i \in 1 .. n - 1 PROVE q[i] \in T
      <3>1. i \in 1 .. n /\ i + 1 \in 1 .. n
        BY <1>0
      <3> QED BY <3>1, <1>0, <1>1, <1>p, <1>q, <1>k
    <2> QED BY <2>1, <1>q
  <1>5. ASSUME NEW e \in T PROVE \E i \in 1 .. n - 1 : q[i] = e
    <2>1. PICK i \in 1 .. n : o[i] = e
      BY <1>1, <1>k
    <2>2. i # p
      BY <2>1, <1>k
    <2>3. CASE i < p
      <3>1. i \in 1 .. n - 1 /\ q[i] = o[i]
        BY <2>3, <1>0, <1>p, <1>q
      <3> QED BY <3>1, <2>1
    <2>4. CASE i > p
      <3>1. i - 1 \in 1 .. n - 1 /\ ~(i - 1 < p) /\ (i - 1) + 1 = i
        BY <2>4, <1>0, <1>p
      <3>2. q[i - 1] = o[i]
        BY <3>1, <1>q
      <3> QED BY <3>1, <3>2, <2>1
    <2> QED BY <2>2, <2>3, <2>4, <1>p
  <1>6. ASSUME NEW i \in 1 .. n - 1, NEW j \in 1 .. n - 1, q[i] = q[j] PROVE i = j
    <2>1. i \in 1 .. n /\ i + 1 \in 1 .. n /\ j \in 1 .. n /\ j + 1 \in 1 .. n
      BY <1>0
    <2> DEFINE a == IF i < p THEN i ELSE i + 1
               b == IF j < p THEN j ELSE j + 1
    <2>2. o[a] = o[b] /\ a \in 1 .. n /\ b \in 1 .. n
      BY <2>1, <1>6, <1>q
    <2>3. a = b
      <3> HIDE DEF a, b
      <3> QED BY <2>2, <1>1
    <2> QED BY <2>3, <1>p
  <1>7. /\ r.head = IF n - 1 = 0 THEN Nil ELSE q[1]
        /\ r.tail = IF n - 1 = 0 THEN Nil ELSE q[n - 1]
    <2>1. CASE n = 1
      BY <2>1, <1>1, <1>2, <1>3, <1>p
    <2>2. CASE n # 1
      <3>1. 1 \in 1 .. n - 1 /\ n - 1 \in 1 .. n - 1 /\ 2 \in 1 .. n /\ n \in 1 .. n /\ n - 1 \in 1 .. n /\ 1 \in 1 .. n
        BY <2>2, <1>0
      <3>2. q[1] = IF p = 1 THEN o[2] ELSE o[1]
        BY <3>1, <1>p, <1>q
      <3>3. q[n - 1] = IF p = n THEN o[n - 1] ELSE o[n]
        BY <3>1, <1>0, <1>p, <1>q
      <3>4. r.head = IF p = 1 THEN o[2] ELSE o[1]
        <4>1. CASE p = 1
          BY <4>1, <2>2, <1>2, <1>3
        <4>2. CASE p # 1
          <5>1. p - 1 \in 1 .. n
            BY <4>2, <1>0, <1>p
          <5>2. l.prev[k] # Nil
            BY <5>1, <4>2, <1>0, <1>3
          <5> QED BY <5>2, <4>2, <1>1, <1>2
        <4> QED BY <4>1, <4>2
      <3>5. r.tail = IF p = n THEN o[n - 1] ELSE o[n]
        <4>1. CASE p = n
          BY <4>1, <2>2, <1>2, <1>3
        <4>2. CASE p # n
          <5>1. p + 1 \in 1 .. n
            BY <4>2, <1>0, <1>p
          <5>2. l.next[k] # Nil
            BY <5>1, <4>2, <1>0, <1>3
          <5> QED BY <5>2, <4>2, <1>1, <1>2
        <4> QED BY <4>1, <4>2
      <3> QED BY <2>2, <1>0, <3>2, <3>3, <3>4, <3>5
    <2> QED BY <2>1, <2>2
  <1>8. ASSUME NEW i \in 1 .. n - 1 PROVE r.next[q[i]] = IF i = n - 1 THEN Nil ELSE q[i + 1]
    <2>0. i \in 1 .. n /\ i + 1 \in 1 .. n /\ i \in Nat /\ p \in Nat
      BY <1>0, <1>p
    <2>1. CASE i + 1 < p
      <3>1. /\ q[i] = o[i] /\ i + 1 \in 1 .. n - 1 /\ q[i + 1] = o[i + 1] /\ i # n - 1
            /\ p - 1 \in 1 .. n /\ i # p - 1 /\ p # 1 /\ i # n
        BY <2>0, <2>1, <1>0, <1>p, <1>q
      <3>2. o[i] # l.prev[k]
        BY <3>1, <2>0, <1>1, <1>3
      <3>3. r.next[o[i]] = l.next[o[i]]
        BY <3>2, <2>0, <1>0, <1>2
      <3> QED BY <3>1, <3>3, <2>0, <1>1
    <2>2. CASE i + 1 = p
      <3>1. q[i] = o[i] /\ o[i] = l.prev[k] /\ i = p - 1
        BY <2>0, <2>2, <1>0, <1>3, <1>q
      <3>2. r.next[o[i]] = l.next[k]
        BY <3>1, <2>0, <1>0, <1>2
      <3>3. CASE p = n
        BY <3>1, <3>2, <3>3, <2>2, <1>0, <1>3
      <3>4. CASE p # n
        <4>1. i + 1 \in 1 .. n - 1 /\ i # n - 1 /\ q[i + 1] = o[p + 1]
          BY <3>4, <2>0, <2>2, <1>0, <1>p, <1>q
        <4> QED BY <4>1, <3>1, <3>2, <3>4, <1>3
      <3> QED BY <3>3, <3>4
    <2>3. CASE i + 1 > p
      <3>1. q[i] = o[i + 1] /\ p - 1 # i + 1
        BY <2>0, <2>3, <1>0, <1>p, <1>q
      <3>2. o[i + 1] # l.prev[k]
        <4>1. CASE p = 1
          BY <4>1, <2>0, <1>0, <1>3
        <4>2. CASE p # 1
          <5>1. p - 1 \in 1 .. n
            BY <4>2, <1>0, <1>p
          <5> QED BY <5>1, <4>2, <3>1, <2>0, <1>1, <1>3
        <4> QED BY <4>1, <4>2
      <3>3. r.next[o[i + 1]] = l.next[o[i + 1]]
        BY <3>2, <2>0, <1>0, <1>2
      <3>4. l.next[o[i + 1]] = IF i + 1 = n THEN Nil ELSE o[(i + 1) + 1]
        BY <2>0, <1>1
      <3>5. i # n - 1 => q[i + 1] = o[(i + 1) + 1]
        <4> SUFFICES ASSUME i # n - 1 PROVE q[i + 1] = o[(i + 1) + 1]
          OBVIOUS
        <4>1. i + 1 \in 1 .. n - 1 /\ ~(i + 1 < p)
          BY <2>0, <2>3, <1>0
        <4> QED BY <4>1, <1>q
      <3>6. i + 1 = n <=> i = n - 1
        BY <2>0, <1>0
      <3> QED BY <3>1, <3>3, <3>4, <3>5, <3>6
    <2> QED BY <2>0, <2>1, <2>2, <2>3
  <1>9. ASSUME NEW i \in 1 .. n - 1 PROVE r.prev[q[i]] = IF i = 1 THEN Nil ELSE q[i - 1]
    <2>0. i \in 1 .. n /\ i + 1 \in 1 .. n /\ i \in Nat /\ p \in Nat
      BY <1>0, <1>p
    <2>1. CASE i < p
      <3>1. q[i] = o[i] /\ (p = n \/ p + 1 \in 1 .. n) /\ p + 1 # i
        BY <2>0, <2>1, <1>0, <1>p, <1>q
      <3>2. o[i] # l.next[k]
        <4>1. CASE p = n
          BY <4>1, <2>0, <1>0, <1>3
        <4>2. CASE p # n
          BY <4>2, <3>1, <2>0, <1>1, <1>3
        <4> QED BY <4>1, <4>2
      <3>3. r.prev[o[i]] = l.prev[o[i]]
        BY <3>2, <2>0, <1>0, <1>2
      <3>4. i # 1 => i - 1 \in 1 .. n - 1 /\ q[i - 1] = o[i - 1]
        <4> SUFFICES ASSUME i # 1 PROVE i - 1 \in 1 .. n - 1 /\ q[i - 1] = o[i - 1]
          OBVIOUS
        <4>1. i - 1 \in 1 .. n - 1 /\ i - 1 < p
          BY <2>0, <2>1, <1>0
        <4> QED BY <4>1, <1>q
      <3> QED BY <3>1, <3>3, <3>4, <2>0, <1>1
    <2>2. CASE i = p
      <3>1. q[i] = o[p + 1] /\ p # n /\ l.next[k] = o[p + 1] /\ p + 1 \in 1 .. n
        BY <2>0, <2>2, <1>0, <1>3, <1>q
      <3>2. r.prev[o[p + 1]] = l.prev[k]
        BY <3>1, <1>0, <1>2
      <3>3. i # 1 => q[i - 1] = o[p - 1]
        <4> SUFFICES ASSUME i # 1 PROVE q[i - 1] = o[p - 1]
          OBVIOUS
        <4>1. i - 1 \in 1 .. n - 1 /\ i - 1 < p /\ i - 1 = p - 1
          BY <2>0, <2>2, <1>0
        <4>2. q[i - 1] = o[i - 1]
          BY <4>1, <1>q
        <4> QED BY <4>1, <4>2
      <3> QED BY <3>1, <3>2, <3>3, <2>2, <1>3
    <2>3. CASE i > p
      <3>1. q[i] = o[i + 1] /\ (p = n \/ p + 1 \in 1 .. n) /\ p + 1 # i + 1 /\ i # 1
        BY <2>0, <2>3, <1>0, <1>p, <1>q
      <3>2. o[i + 1] # l.next[k]
        <4>1. CASE p = n
          BY <4>1, <2>0, <1>0, <1>3
        <4>2. CASE p # n
          BY <4>2, <3>1, <2>0, <1>1, <1>3
        <4> QED BY <4>1, <4>2
      <3>3. r.prev[o[i + 1]] = l.prev[o[i + 1]]
        BY <3>2, <2>0, <1>0, <1>2
      <3>4. l.prev[o[i + 1]] = o[i]
        <4>1. i + 1 # 1 /\ (i + 1) - 1 = i
          BY <2>0
        <4>2. l.prev[o[i + 1]] = IF i + 1 = 1 THEN Nil ELSE o[(i + 1) - 1]
          BY <2>0, <1>1
        <4> QED BY <4>1, <4>2
      <3>5. q[i - 1] = o[i]
        <4>1. i - 1 \in 1 .. n - 1 /\ ~(i - 1 < p) /\ (i - 1) + 1 = i
          BY <2>0, <2>3, <1>0, <1>p
        <4>2. q[i - 1] = o[(i - 1) + 1]
          BY <4>1, <1>q
        <4> QED BY <4>1, <4>2
      <3> QED BY <3>1, <3>3, <3>4, <3>5
    <2> QED BY <2>0, <2>1, <2>2, <2>3
  <1>10. T \in SUBSET Keys
    BY <1>0, <1>k
  <1>11. Follows(r, q, T)
    BY <1>2, <1>4, <1>5, <1>6, <1>7, <1>8, <1>9, <1>10 DEF Follows
  <1> QED BY <1>2, <1>11 DEF r, q, T, k, n

\* An element that is put in front of the list leads the order.
LEMMA LinkedFollows ==
  ASSUME NEW l, NEW o, NEW S, Follows(l, o, S), NEW k \in Keys, k \notin S
  PROVE  /\ Follows(Linked(l, k), Push(k, o, l.size), S \cup {k})
         /\ Linked(l, k).size = l.size + 1
  <1> DEFINE n == l.size
             r == Linked(l, k)
             q == Push(k, o, n)
             T == S \cup {k}
  <1>0. /\ l \in Lists /\ n \in Nat /\ S \in SUBSET Keys /\ o \in [1 .. n -> S] /\ k \in Keys /\ k # Nil
        /\ \A i \in 1 .. n : o[i] \in S /\ o[i] \in Keys /\ o[i] # Nil /\ o[i] # k
    BY NilIsNoKey DEF Follows, Lists
  <1>1. /\ \A e \in S : \E i \in 1 .. n : o[i] = e
        /\ \A i, j \in 1 .. n : o[i] = o[j] => i = j
        /\ l.head = IF n = 0 THEN Nil ELSE o[1]
        /\ l.tail = IF n = 0 THEN Nil ELSE o[n]
        /\ \A i \in 1 .. n : l.next[o[i]] = IF i = n THEN Nil ELSE o[i + 1]
        /\ \A i \in 1 .. n : l.prev[o[i]] = IF i = 1 THEN Nil ELSE o[i - 1]
    BY DEF Follows
  <1>2. /\ r \in Lists /\ r.size = n + 1 /\ r.head = k
        /\ r.tail = IF l.head = Nil THEN k ELSE l.tail
        /\ \A e \in Keys : /\ r.next[e] = IF e = k THEN l.head ELSE l.next[e]
                           /\ r.prev[e] = IF e = k THEN Nil ELSE IF e = l.head THEN k ELSE l.prev[e]
    BY <1>0, LinkedFields
  <1>q. /\ \A i \in 1 .. n + 1 : q[i] = IF i = 1 THEN k ELSE o[i - 1]
        /\ DOMAIN q = 1 .. n + 1 /\ q = [i \in 1 .. n + 1 |-> q[i]]
    BY DEF Push
  <1>t. T = S \cup {k}
    OBVIOUS
  <1> HIDE DEF n, r, q, T
  <1>3. \A i \in 1 .. n + 1 : i # 1 => i - 1 \in 1 .. n /\ q[i] = o[i - 1]
    BY <1>0, <1>q
  <1>4. 1 \in 1 .. n + 1 /\ q[1] = k /\ n + 1 \in 1 .. n + 1
    BY <1>0, <1>q
  <1>5. q \in [1 .. n + 1 -> T]
    <2>1. ASSUME NEW i \in 1 .. n + 1 PROVE q[i] \in T
      BY <1>0, <1>3, <1>4, <1>t
    <2> QED BY <2>1, <1>q
  <1>6. ASSUME NEW e \in T PROVE \E i \in 1 .. n + 1 : q[i] = e
    <2>1. CASE e = k
      BY <2>1, <1>4
    <2>2. CASE e # k
      <3>1. PICK i \in 1 .. n : o[i] = e
        BY <2>2, <1>1, <1>t
      <3>2. i + 1 \in 1 .. n + 1 /\ i + 1 # 1 /\ (i + 1) - 1 = i
        BY <1>0
      <3>3. q[i + 1] = o[(i + 1) - 1]
        BY <3>2, <1>q
      <3> QED BY <3>1, <3>2, <3>3
    <2> QED BY <2>1, <2>2
  <1>7. ASSUME NEW i \in 1 .. n + 1, NEW j \in 1 .. n + 1, q[i] = q[j] PROVE i = j
    <2>1. CASE i = 1 \/ j = 1
      BY <2>1, <1>7, <1>0, <1>3, <1>4
    <2>2. CASE i # 1 /\ j # 1
      <3>1. /\ i - 1 \in 1 .. n /\ j - 1 \in 1 .. n /\ o[i - 1] = o[j - 1]
        BY <2>2, <1>7, <1>3
      <3>2. i - 1 = j - 1
        BY <3>1, <1>1
      <3> QED BY <3>2, <1>0
    <2> QED BY <2>1, <2>2
  <1>8. /\ r.head = IF n + 1 = 0 THEN Nil ELSE q[1]
        /\ r.tail = IF n + 1 = 0 THEN Nil ELSE q[n + 1]
    <2>1. CASE n = 0
      BY <2>1, <1>1, <1>2, <1>4
    <2>2. CASE n # 0
      <3>1. n \in 1 .. n /\ 1 \in 1 .. n /\ n + 1 # 1 /\ (n + 1) - 1 = n
        BY <2>2, <1>0
      <3>2. q[n + 1] = o[(n + 1) - 1]
        BY <3>1, <1>3, <1>4
      <3>3. l.head # Nil
        BY <2>2, <3>1, <1>0, <1>1
      <3> QED BY <2>2, <3>1, <3>2, <3>3, <1>0, <1>1, <1>2, <1>4
    <2> QED BY <2>1, <2>2
  <1>9. ASSUME NEW i \in 1 .. n + 1
        PROVE  /\ r.next[q[i]] = IF i = n + 1 THEN Nil ELSE q[i + 1]
               /\ r.prev[q[i]] = IF i = 1 THEN Nil ELSE q[i - 1]
    <2>1. CASE i = 1
      <3>1. r.next[q[i]] = l.head /\ r.prev[q[i]] = Nil
        BY <2>1, <1>0, <1>2, <1>4
      <3>2. CASE n = 0
        BY <2>1, <3>1, <3>2, <1>1
      <3>3. CASE n # 0
        <4>1. 2 \in 1 .. n + 1 /\ 2 - 1 = 1 /\ n + 1 # 1
          BY <3>3, <1>0
        <4>2. q[2] = o[2 - 1]
          BY <4>1, <1>3
        <4>3. q[i + 1] = o[1]
          BY <2>1, <4>1, <4>2
        <4> QED BY <2>1, <3>1, <3>3, <4>1, <4>3, <1>1
      <3> QED BY <3>2, <3>3
    <2>2. CASE i # 1
      <3> DEFINE j == i - 1
      <3>1. j \in 1 .. n /\ q[i] = o[j] /\ i = j + 1 /\ (i = n + 1 <=> j = n) /\ n # 0 /\ 1 \in 1 .. n
        BY <2>2, <1>0, <1>3
      <3> HIDE DEF j
      <3>2. /\ r.next[q[i]] = IF j = n THEN Nil ELSE o[j + 1]
        <4>1. o[j] # k /\ o[j] \in Keys
          BY <3>1, <1>0
        <4>2. r.next[o[j]] = l.next[o[j]]
          BY <4>1, <1>2
        <4>3. l.next[o[j]] = IF j = n THEN Nil ELSE o[j + 1]
          BY <3>1, <1>1
        <4> QED BY <4>2, <4>3, <3>1
      <3>3. r.prev[q[i]] = IF j = 1 THEN k ELSE o[j - 1]
        <4>1. l.head = o[1]
          BY <3>1, <1>1
        <4>2. o[j] = l.head <=> j = 1
          BY <4>1, <3>1, <1>1
        <4> QED BY <4>2, <3>1, <1>0, <1>1, <1>2
      <3>4. q[i - 1] = IF j = 1 THEN k ELSE o[j - 1]
        <4>1. i - 1 \in 1 .. n + 1 /\ i - 1 = j
          BY <3>1, <1>0
        <4> QED BY <4>1, <1>q
      <3>5. i # n + 1 => q[i + 1] = o[j + 1]
        <4> SUFFICES ASSUME i # n + 1 PROVE q[i + 1] = o[j + 1]
          OBVIOUS
        <4>1. i + 1 \in 1 .. n + 1 /\ i + 1 # 1 /\ (i + 1) - 1 = j + 1
          BY <3>1, <1>0
        <4>2. q[i + 1] = o[(i + 1) - 1]
          BY <4>1, <1>3
        <4> QED BY <4>1, <4>2
      <3> QED BY <2>2, <3>1, <3>2, <3>3, <3>4, <3>5
    <2> QED BY <2>1, <2>2
  <1>10. T \in SUBSET Keys
    BY <1>0, <1>t
  <1>11. Follows(r, q, T)
    BY <1>2, <1>5, <1>6, <1>7, <1>8, <1>9, <1>10 DEF Follows
  <1> QED BY <1>2, <1>11 DEF r, q, T, n

\* The order has as many elements as the set.
LEMMA FollowsSize ==
  ASSUME NEW l, NEW o, NEW S, Follows(l, o, S)
  PROVE  IsFiniteSet(S) /\ l.size = Cardinality(S) /\ l.size <= Cardinality(Keys) /\ Cardinality(Keys) \in Nat
  <1>1. IsFiniteSet(Keys) /\ S \subseteq Keys
    BY BoundsAssumption DEF BoundsAssumption, Follows
  <1>2. IsFiniteSet(S) /\ Cardinality(S) <= Cardinality(Keys) /\ Cardinality(Keys) \in Nat
    BY <1>1, FS_Subset, FS_CardinalityType
  <1>3. l.size \in Nat
    BY DEF Follows, Lists
  <1>4. ExistsBijection(1 .. l.size, S)
    <2>1. /\ o \in [1 .. l.size -> S]
          /\ \A k \in S : \E i \in 1 .. l.size : o[i] = k
          /\ \A i, j \in 1 .. l.size : o[i] = o[j] => i = j
      BY DEF Follows
    <2>2. o \in Injection(1 .. l.size, S)
      <3>1. DOMAIN o = 1 .. l.size
        BY <2>1
      <3> QED BY <2>1, <3>1 DEF Injection, IsInjective
    <2>3. o \in Surjection(1 .. l.size, S)
      BY <2>1 DEF Surjection
    <2> QED BY <2>2, <2>3 DEF ExistsBijection, Bijection
  <1>6. Cardinality(S) = l.size
    BY <1>3, <1>4, FS_CountingElements
  <1> QED BY <1>2, <1>6

\* The equation of the walk along the list.
Walks(w, l) ==
  w = [i \in 1 .. Cardinality(Keys) |->
         IF i = 1 THEN l.head ELSE IF w[i - 1] = Nil THEN Nil ELSE l.next[w[i - 1]]]

\* The walk along the list meets the elements in their order.
LEMMA WalkFollows ==
  ASSUME NEW l, NEW o, NEW S, Follows(l, o, S)
  PROVE  \A i \in 1 .. l.size : Walk(l)[i] = o[i]
  <1> DEFINE N == Cardinality(Keys)
             w0 == [i \in 1 .. N |-> IF i <= l.size THEN o[i] ELSE Nil]
  <1>1. Walk(l) = CHOOSE w : Walks(w, l)
    BY DEF Walk, Walks
  <1>2. l.size \in Nat /\ N \in Nat /\ l.size <= N
    <2>1. l.size <= N /\ N \in Nat
      <3> HIDE DEF w0
      <3> QED BY FollowsSize
    <2> QED BY <2>1 DEF Follows, Lists
  <1>3. Walks(w0, l)
    <2>1. ASSUME NEW i \in 1 .. N
          PROVE  w0[i] = IF i = 1 THEN l.head ELSE IF w0[i - 1] = Nil THEN Nil ELSE l.next[w0[i - 1]]
      <3>1. CASE i = 1
        BY <3>1, <1>2 DEF Follows
      <3>2. CASE i # 1
        <4>1. i - 1 \in 1 .. N /\ i \in Nat
          BY <3>2, <1>2
        <4>2. w0[i - 1] = IF i - 1 <= l.size THEN o[i - 1] ELSE Nil
          BY <4>1
        <4>3. CASE i - 1 <= l.size
          <5>1. i - 1 \in 1 .. l.size
            BY <4>1, <4>3, <1>2
          <5>2. o[i - 1] # Nil
            BY <5>1, NilIsNoKey DEF Follows
          <5>3. l.next[o[i - 1]] = IF i - 1 = l.size THEN Nil ELSE o[(i - 1) + 1]
            BY <5>1 DEF Follows
          <5>4. (i - 1) + 1 = i /\ (i <= l.size <=> i - 1 # l.size)
            BY <4>1, <4>3, <1>2
          <5> QED BY <3>2, <4>2, <4>3, <5>2, <5>3, <5>4
        <4>4. CASE ~(i - 1 <= l.size)
          <5>1. ~(i <= l.size)
            BY <4>1, <4>4, <1>2
          <5> QED BY <3>2, <4>2, <4>4, <5>1
        <4> QED BY <4>3, <4>4
      <3> QED BY <3>1, <3>2
    <2>2. w0 = [i \in 1 .. N |-> w0[i]]
      OBVIOUS
    <2> HIDE DEF w0
    <2> QED BY <2>1, <2>2 DEF Walks
  <1>4. ASSUME NEW w, Walks(w, l), NEW i \in 1 .. N, w[i] # w0[i] PROVE FALSE
    <2> DEFINE Bad == {j \in 1 .. N : w[j] # w0[j]}
    <2>1. Bad # {} /\ Bad \subseteq 1 .. N
      BY <1>4
    <2> HIDE DEF Bad
    <2>2. PICK j \in Bad : \A k \in Bad : j <= k
      BY <2>1, <1>2, SmallestNumber
    <2>3. j \in 1 .. N /\ w[j] # w0[j] /\ j \in Nat
      BY <2>2 DEF Bad
    <2>4. /\ w[j] = IF j = 1 THEN l.head ELSE IF w[j - 1] = Nil THEN Nil ELSE l.next[w[j - 1]]
          /\ w0[j] = IF j = 1 THEN l.head ELSE IF w0[j - 1] = Nil THEN Nil ELSE l.next[w0[j - 1]]
      <3> HIDE DEF w0
      <3> QED BY <2>3, <1>3, <1>4 DEF Walks
    <2>5. j # 1 /\ w[j - 1] # w0[j - 1]
      <3> HIDE DEF w0
      <3> QED BY <2>3, <2>4
    <2>6. j - 1 \in Nat /\ j - 1 \in 1 .. N /\ ~(j <= j - 1)
      BY <2>3, <2>5, <1>2
    <2>7. j - 1 \in Bad
      <3> HIDE DEF w0
      <3> QED BY <2>5, <2>6 DEF Bad
    <2> QED BY <2>2, <2>6, <2>7
  <1>5. Walks(Walk(l), l)
    <2> HIDE DEF w0
    <2>1. \E w : Walks(w, l)
      BY <1>3
    <2> QED BY <1>1, <2>1
  <1>6. \A i \in 1 .. N : Walk(l)[i] = w0[i]
    <2> HIDE DEF w0
    <2> QED BY <1>4, <1>5
  <1>7. ASSUME NEW i \in 1 .. l.size PROVE i \in 1 .. N /\ w0[i] = o[i]
    BY <1>2
  <1> HIDE DEF w0
  <1> QED BY <1>6, <1>7

-------------------------------------------------------------------------------
(* The order that the walk finds *)

\* The order in which the walk meets the elements; the list is whole when its
\* pointers follow that order.
Order(l) == [i \in 1 .. l.size |-> Walk(l)[i]]
IsList(l, S) == Follows(l, Order(l), S)

\* The pointers follow one order only.
LEMMA OrderOf ==
  ASSUME NEW l, NEW o, NEW S, Follows(l, o, S)
  PROVE  o = Order(l) /\ IsList(l, S)
  <1>1. \A i \in 1 .. l.size : Walk(l)[i] = o[i]
    BY WalkFollows
  <1>2. o = [i \in 1 .. l.size |-> o[i]]
    BY DEF Follows
  <1>3. o = Order(l)
    BY <1>1, <1>2 DEF Order
  <1> QED BY <1>3 DEF IsList

\* A list that is whole, in the words of the invariant.
LEMMA ListFacts ==
  ASSUME NEW l, NEW S, IsList(l, S)
  PROVE  /\ l \in Lists /\ l.size \in Nat /\ l.size = Cardinality(S) /\ IsFiniteSet(S) /\ S \subseteq Keys
         /\ {Walk(l)[i] : i \in 1 .. l.size} = S
         /\ S = {} <=> l.head = Nil
         /\ S = {} <=> l.size = 0
         /\ l.head = Nil <=> l.tail = Nil
         /\ l.head # Nil => /\ l.head \in S /\ l.tail \in S
                            /\ l.prev[l.head] = Nil /\ l.next[l.tail] = Nil /\ l.tail = Walk(l)[l.size]
         /\ \A k \in S : l.next[k] # Nil => l.next[k] \in S /\ l.prev[l.next[k]] = k
  <1> DEFINE n == l.size
             o == Order(l)
  <1>1. /\ l \in Lists /\ n \in Nat /\ S \in SUBSET Keys /\ o \in [1 .. n -> S]
        /\ \A e \in S : \E i \in 1 .. n : o[i] = e
        /\ \A i, j \in 1 .. n : o[i] = o[j] => i = j
        /\ l.head = IF n = 0 THEN Nil ELSE o[1]
        /\ l.tail = IF n = 0 THEN Nil ELSE o[n]
        /\ \A i \in 1 .. n : l.next[o[i]] = IF i = n THEN Nil ELSE o[i + 1]
        /\ \A i \in 1 .. n : l.prev[o[i]] = IF i = 1 THEN Nil ELSE o[i - 1]
    BY DEF IsList, Follows, Lists
  <1>2. n = Cardinality(S) /\ IsFiniteSet(S)
    BY FollowsSize DEF IsList
  <1>3. \A i \in 1 .. n : o[i] = Walk(l)[i]
    BY DEF Order
  <1> HIDE DEF n, o
  <1>4. {Walk(l)[i] : i \in 1 .. n} = S
    <2>1. \A i \in 1 .. n : Walk(l)[i] \in S
      BY <1>1, <1>3
    <2>2. \A e \in S : \E i \in 1 .. n : Walk(l)[i] = e
      BY <1>1, <1>3
    <2> HIDE DEF n
    <2> QED BY <2>1, <2>2
  <1>5. n # 0 => 1 \in 1 .. n /\ n \in 1 .. n /\ o[1] \in S /\ o[n] \in S
    BY <1>1
  <1>6. S = {} <=> n = 0
    BY <1>1, <1>5
  <1>7. \A e \in S : e # Nil
    BY <1>1, NilIsNoKey
  <1>8. ASSUME NEW k \in S, l.next[k] # Nil PROVE l.next[k] \in S /\ l.prev[l.next[k]] = k
    <2>1. PICK i \in 1 .. n : o[i] = k
      BY <1>1
    <2>2. i # n /\ l.next[k] = o[i + 1]
      BY <2>1, <1>1, <1>8
    <2>3. i + 1 \in 1 .. n /\ i + 1 # 1 /\ (i + 1) - 1 = i
      BY <2>2, <1>1
    <2>4. l.prev[o[i + 1]] = o[(i + 1) - 1]
      BY <2>3, <1>1
    <2> QED BY <2>1, <2>2, <2>3, <2>4, <1>1
  <1>9. n # 0 => /\ l.head \in S /\ l.tail \in S /\ l.head # Nil /\ l.tail # Nil
                 /\ l.prev[l.head] = Nil /\ l.next[l.tail] = Nil /\ l.tail = Walk(l)[n]
    BY <1>1, <1>3, <1>5, <1>7
  <1> QED BY <1>1, <1>2, <1>4, <1>6, <1>8, <1>9 DEF n

\* remove and moveToFront keep the list whole.
LEMMA RemovedList ==
  ASSUME NEW l, NEW S, IsList(l, S), NEW k \in S
  PROVE  /\ IsList(Removed(l, k), S \ {k})
         /\ Removed(l, k).size = l.size - 1
         /\ \E p \in 1 .. l.size : Order(l)[p] = k /\ Order(Removed(l, k)) = Cut(Order(l), p, l.size)
  <1>1. Follows(l, Order(l), S)
    BY DEF IsList
  <1>2. PICK p \in 1 .. l.size : Order(l)[p] = k
    BY <1>1 DEF Follows
  <1>3. Follows(Removed(l, k), Cut(Order(l), p, l.size), S \ {k}) /\ Removed(l, k).size = l.size - 1
    BY <1>1, <1>2, RemovedFollows
  <1>4. Cut(Order(l), p, l.size) = Order(Removed(l, k)) /\ IsList(Removed(l, k), S \ {k})
    BY <1>3, OrderOf
  <1> QED BY <1>2, <1>3, <1>4

\* So does linking a new element.
LEMMA LinkedList ==
  ASSUME NEW l, NEW S, IsList(l, S), NEW k \in Keys, k \notin S
  PROVE  /\ IsList(Linked(l, k), S \cup {k})
         /\ Linked(l, k).size = l.size + 1
         /\ Order(Linked(l, k)) = Push(k, Order(l), l.size)
  <1>1. Follows(l, Order(l), S)
    BY DEF IsList
  <1>2. Follows(Linked(l, k), Push(k, Order(l), l.size), S \cup {k}) /\ Linked(l, k).size = l.size + 1
    BY <1>1, LinkedFollows
  <1>3. Push(k, Order(l), l.size) = Order(Linked(l, k)) /\ IsList(Linked(l, k), S \cup {k})
    BY <1>2, OrderOf
  <1> QED BY <1>2, <1>3

\* A list without head and tail is whole, whatever its elements point to.
LEMMA EmptyList ==
  ASSUME NEW nx \in [Keys -> Keys \cup {Nil}], NEW pv \in [Keys -> Keys \cup {Nil}]
  PROVE  IsList([head |-> Nil, tail |-> Nil, next |-> nx, prev |-> pv, size |-> 0], {})
  <1> DEFINE l == [head |-> Nil, tail |-> Nil, next |-> nx, prev |-> pv, size |-> 0]
             o == [i \in 1 .. l.size |-> Nil]
  <1>1. l \in Lists /\ l.size = 0 /\ l.head = Nil /\ l.tail = Nil
    BY DEF Lists
  <1>2. \A i \in 1 .. l.size : FALSE
    BY <1>1
  <1> HIDE DEF l
  <1>3. o \in [1 .. l.size -> {}]
    BY <1>2
  <1> HIDE DEF o
  <1>4. Follows(l, o, {})
    BY <1>1, <1>2, <1>3 DEF Follows
  <1> QED BY <1>4, OrderOf DEF l

-------------------------------------------------------------------------------
(* Map, list and counter together *)

\* The list l is whole and has the keys of the map, the counter adds up the
\* sizes, and both bounds hold.
Coherent(l, E, sz, total) ==
  /\ sz \in [Keys -> Nat]
  /\ IsList(l, E)
  /\ total = SumFunctionOnSet(sz, E)
  /\ Cardinality(E) <= MaxEntries
  /\ total > MaxSize => Cardinality(E) = 1

\* removeEntry: a single entry is what a counter above the limit weighs, so that
\* without it nothing is left.
LEMMA CoherentRemoved ==
  ASSUME NEW l, NEW E, NEW sz, NEW total, Coherent(l, E, sz, total), NEW k \in E
  PROVE  Coherent(Removed(l, k), E \ {k}, sz, total - sz[k])
  <1>1. IsList(l, E) /\ sz \in [Keys -> Nat] /\ total = SumFunctionOnSet(sz, E) /\ Cardinality(E) <= MaxEntries
        /\ (total > MaxSize => Cardinality(E) = 1)
    BY DEF Coherent
  <1>2. IsList(Removed(l, k), E \ {k})
    BY <1>1, RemovedList
  <1>3. IsFiniteSet(E) /\ E \subseteq Keys
    BY <1>1, ListFacts
  <1>4. IsFiniteSet(E \ {k}) /\ Cardinality(E \ {k}) = Cardinality(E) - 1 /\ Cardinality(E) \in Nat
    BY <1>3, FS_RemoveElement, FS_CardinalityType
  <1>5. \A x \in E : sz[x] \in Nat
    BY <1>1, <1>3
  <1>6. SumFunctionOnSet(sz, E) = sz[k] + SumFunctionOnSet(sz, E \ {k})
    BY <1>3, <1>5, SumRemove
  <1>7. SumFunctionOnSet(sz, E \ {k}) \in Nat /\ sz[k] \in Nat
    <2>1. \A x \in E \ {k} : sz[x] \in Nat
      BY <1>5
    <2> QED BY <1>4, <1>5, <2>1, SumType
  <1>8. total - sz[k] = SumFunctionOnSet(sz, E \ {k})
    BY <1>1, <1>6, <1>7
  <1>9. MaxEntries \in Nat /\ MaxSize \in Nat
    BY BoundsAssumption DEF BoundsAssumption
  <1>10. total - sz[k] > MaxSize => Cardinality(E \ {k}) = 1
    <2> SUFFICES ASSUME total - sz[k] > MaxSize PROVE FALSE
      OBVIOUS
    <2>1. total > MaxSize
      BY <1>1, <1>6, <1>7, <1>9
    <2>2. Cardinality(E \ {k}) = 0
      BY <2>1, <1>1, <1>4
    <2>3. E \ {k} = {}
      BY <2>2, <1>4, FS_EmptySet
    <2>4. SumFunctionOnSet(sz, E \ {k}) = 0
      BY <2>3, SumEmpty
    <2> QED BY <2>4, <1>8, <1>9
  <1>11. Cardinality(E \ {k}) <= MaxEntries
    BY <1>1, <1>4, <1>9
  <1> QED BY <1>1, <1>2, <1>8, <1>10, <1>11 DEF Coherent

\* moveToFront
LEMMA MovedList ==
  ASSUME NEW l, NEW S, IsList(l, S), NEW k \in S
  PROVE  IsList(MovedToFront(l, k), S)
  <1>1. CASE l.head = k
    BY <1>1 DEF MovedToFront
  <1>2. CASE l.head # k
    <2>1. IsList(Removed(l, k), S \ {k}) /\ k \in Keys
      BY RemovedList, ListFacts
    <2>2. IsList(Linked(Removed(l, k), k), (S \ {k}) \cup {k})
      BY <2>1, LinkedList
    <2>3. (S \ {k}) \cup {k} = S
      OBVIOUS
    <2> QED BY <1>2, <2>2, <2>3 DEF MovedToFront
  <1> QED BY <1>1, <1>2

\* Set's last part, once the entry fits or nothing is left to evict.
LEMMA CoherentAdded ==
  ASSUME NEW l, NEW E, NEW sz, NEW total, Coherent(l, E, sz, total), NEW k \in Keys, k \notin E,
         NEW n \in Nat, (Cardinality(E) < MaxEntries /\ total + n <= MaxSize) \/ l.size = 0
  PROVE  Coherent(Linked(l, k), E \cup {k}, [sz EXCEPT ![k] = n], total + n)
  <1> DEFINE z == [sz EXCEPT ![k] = n]
             F == E \cup {k}
  <1>1. IsList(l, E) /\ sz \in [Keys -> Nat] /\ total = SumFunctionOnSet(sz, E) /\ Cardinality(E) <= MaxEntries
    BY DEF Coherent
  <1>2. IsList(Linked(l, k), F)
    BY <1>1, LinkedList
  <1>3. IsFiniteSet(E) /\ E \subseteq Keys /\ (l.size = 0 => E = {})
    BY <1>1, ListFacts
  <1>4. IsFiniteSet(F) /\ Cardinality(F) = Cardinality(E) + 1 /\ Cardinality(E) \in Nat
    BY <1>3, FS_AddElement, FS_CardinalityType
  <1>5. z \in [Keys -> Nat] /\ z[k] = n /\ \A x \in E : z[x] = sz[x]
    BY <1>1, <1>3
  <1>6. F \ {k} = E /\ k \in F /\ \A x \in F : z[x] \in Nat
    BY <1>3, <1>5
  <1> HIDE DEF z, F
  <1>7. SumFunctionOnSet(z, F) = z[k] + SumFunctionOnSet(z, F \ {k})
    BY <1>4, <1>6, SumRemove
  <1>8. SumFunctionOnSet(z, E) = SumFunctionOnSet(sz, E)
    BY <1>3, <1>5, SumEqual
  <1>9. SumFunctionOnSet(sz, E) \in Nat
    <2>1. \A x \in E : sz[x] \in Nat
      BY <1>1, <1>3
    <2> QED BY <1>3, <2>1, SumType
  <1>10. total + n = SumFunctionOnSet(z, F)
    BY <1>1, <1>5, <1>6, <1>7, <1>8, <1>9
  <1>11. MaxEntries \in Nat \ {0} /\ MaxSize \in Nat
    BY BoundsAssumption DEF BoundsAssumption
  <1>12. CASE l.size = 0
    <2>1. Cardinality(E) = 0
      BY <1>12, <1>3, FS_EmptySet
    <2>2. Cardinality(F) <= MaxEntries /\ Cardinality(F) = 1
      BY <2>1, <1>4, <1>11
    <2> QED BY <2>2, <1>2, <1>5, <1>10 DEF Coherent, z, F
  <1>13. CASE Cardinality(E) < MaxEntries /\ total + n <= MaxSize
    <2>1. Cardinality(F) <= MaxEntries /\ ~(total + n > MaxSize)
      BY <1>13, <1>1, <1>4, <1>9, <1>11
    <2> QED BY <2>1, <1>2, <1>5, <1>10 DEF Coherent, z, F
  <1> QED BY <1>12, <1>13

\* Clear
LEMMA CoherentEmpty ==
  ASSUME NEW nx \in [Keys -> Keys \cup {Nil}], NEW pv \in [Keys -> Keys \cup {Nil}], NEW sz \in [Keys -> Nat]
  PROVE  Coherent([head |-> Nil, tail |-> Nil, next |-> nx, prev |-> pv, size |-> 0], {}, sz, 0)
  <1>1. IsList([head |-> Nil, tail |-> Nil, next |-> nx, prev |-> pv, size |-> 0], {})
    BY EmptyList
  <1>2. SumFunctionOnSet(sz, {}) = 0
    BY SumEmpty
  <1>3. Cardinality({}) = 0
    BY FS_EmptySet
  <1>4. MaxEntries \in Nat /\ MaxSize \in Nat
    BY BoundsAssumption DEF BoundsAssumption
  <1>5. Cardinality({}) <= MaxEntries /\ ~(0 > MaxSize)
    BY <1>3, <1>4
  <1> QED BY <1>1, <1>2, <1>5 DEF Coherent

-------------------------------------------------------------------------------
(* InvalidateCache removes nothing. *)

\* What the fold of InvalidateCache leaves of the list.
RemovesAll(g, l, S) ==
  g = [s \in SUBSET S |->
         IF s = {} THEN l
         ELSE Removed(g[s \ {CHOOSE x \in s : TRUE}], CHOOSE x \in s : TRUE)]

\* Without a matching key that is the list itself.
LEMMA NothingRemoved ==
  ASSUME NEW l
  PROVE  FoldSet(LAMBDA k, m : Removed(m, k), l, {}) = l
  <1>1. FoldSet(LAMBDA k, m : Removed(m, k), l, {}) = (CHOOSE g : RemovesAll(g, l, {}))[{}]
    BY DEF FoldSet, MapThenFoldSet, RemovesAll
  <1> DEFINE g0 == [s \in SUBSET {} |-> l]
  <1>2. RemovesAll(g0, l, {})
    <2>1. \A s \in SUBSET {} : s = {}
      OBVIOUS
    <2> QED BY <2>1 DEF RemovesAll
  <1>3. RemovesAll(CHOOSE g : RemovesAll(g, l, {}), l, {})
    <2> HIDE DEF g0
    <2> QED BY <1>2
  <1>4. ASSUME NEW g, RemovesAll(g, l, {}) PROVE g[{}] = l
    BY <1>4 DEF RemovesAll
  <1> QED BY <1>1, <1>3, <1>4

\* No key has the prefix, so that the operation changes nothing.
LEMMA InvalidatesNothing ==
  ASSUME NEW api, InvalidateCache(api), List \in Lists, currentSize \in Int
  PROVE  /\ mu = Nobody
         /\ UNCHANGED <<cache, mu, todo, handlers>>
  <1> DEFINE matching == {k \in entries : HasPrefixOf(k, api)}
  <1>1. matching = {}
    BY DEF HasPrefixOf
  <1>2. /\ mu = Nobody
        /\ entries' = entries \ matching
        /\ currentSize' = currentSize - SumFunctionOnSet(size, matching)
        /\ SetList(FoldSet(LAMBDA k, l : Removed(l, k), List, matching))
        /\ UNCHANGED <<size, expired, mu, todo, handlers>>
    BY DEF InvalidateCache
  <1> HIDE DEF matching
  <1>3. entries' = entries
    BY <1>1, <1>2
  <1>4. currentSize' = currentSize
    <2>1. SumFunctionOnSet(size, {}) = 0
      BY SumEmpty
    <2>2. currentSize' = currentSize - 0
      BY <1>1, <1>2, <2>1
    <2> QED BY <2>2
  <1>5. SetList(FoldSet(LAMBDA k, l : Removed(l, k), List, {}))
    BY <1>1, <1>2
  <1>6. FoldSet(LAMBDA k, l : Removed(l, k), List, {}) = List
    BY NothingRemoved
  <1>7. SetList(List)
    BY <1>5, <1>6
  <1>8. UNCHANGED list
    BY <1>7 DEF SetList, List, list
  <1> QED BY <1>2, <1>3, <1>4, <1>8 DEF cache

-------------------------------------------------------------------------------
(* The steps keep the cache coherent. *)

\* The inductive invariant: the cache is coherent at every step, between the steps
\* of Set too, ...
CacheOK == Coherent(List, entries, size, currentSize)

\* ... Set holds the mutex from its first step to its last, its key is not in the
\* map meanwhile, and the cleaner removes only entries that are still there.
HandlersOK ==
  /\ expired \in [Keys -> BOOLEAN]
  /\ pc \in [Handlers -> {"idle", "backend", "set", "evict"}]
  /\ key \in [Handlers -> Keys \cup {Nil}]
  /\ respSize \in [Handlers -> Nat]
  /\ mu \in Handlers \cup {Nobody, Cleaner}
  /\ todo \subseteq entries
  /\ mu # Cleaner => todo = {}
  /\ \A h \in Handlers : /\ pc[h] = "evict" <=> mu = h
                         /\ pc[h] # "idle" => key[h] \in Keys
                         /\ pc[h] \in {"set", "evict"} => respSize[h] \in Sizes
                         /\ pc[h] = "evict" => key[h] \notin entries

CacheInv == CacheOK /\ HandlersOK

\* What coherence says of the variables.
LEMMA CacheFacts ==
  ASSUME CacheOK
  PROVE  /\ List \in Lists /\ entries \subseteq Keys /\ size \in [Keys -> Nat] /\ currentSize \in Nat
         /\ IsList(List, entries)
         /\ entries # {} => head \in entries /\ tail \in entries
         /\ listSize = Cardinality(entries) /\ listSize \in Nat
         /\ next \in [Keys -> Keys \cup {Nil}] /\ prev \in [Keys -> Keys \cup {Nil}]
         /\ (listSize = 0) <=> (entries = {})
  <1>1. IsList(List, entries) /\ size \in [Keys -> Nat] /\ currentSize = SumFunctionOnSet(size, entries)
    BY DEF CacheOK, Coherent
  <1>2. /\ List.head = head /\ List.tail = tail /\ List.size = listSize /\ List.next = next /\ List.prev = prev
    BY DEF List
  <1>3. /\ List \in Lists /\ List.size \in Nat /\ List.size = Cardinality(entries) /\ IsFiniteSet(entries) /\ entries \subseteq Keys
        /\ entries = {} <=> List.head = Nil
        /\ entries = {} <=> List.size = 0
        /\ List.head # Nil => List.head \in entries /\ List.tail \in entries
    BY <1>1, ListFacts
  <1>4. currentSize \in Nat
    <2>1. \A x \in entries : size[x] \in Nat
      BY <1>1, <1>3
    <2> QED BY <1>1, <1>3, <2>1, SumType
  <1>5. next \in [Keys -> Keys \cup {Nil}] /\ prev \in [Keys -> Keys \cup {Nil}]
    BY <1>2, <1>3 DEF Lists
  <1> QED BY <1>1, <1>2, <1>3, <1>4, <1>5

\* The variables of the list after an operation on it.
LEMMA ListIs ==
  ASSUME NEW l \in Lists, SetList(l) PROVE List' = l
  <1>1. l = [head |-> l.head, tail |-> l.tail, next |-> l.next, prev |-> l.prev, size |-> l.size]
    BY DEF Lists
  <1> QED BY <1>1 DEF SetList, List

LEMMA ListStays == ASSUME UNCHANGED list PROVE List' = List
  BY DEF list, List

\* removeEntry keeps the cache coherent.
LEMMA RemovesEntry ==
  ASSUME CacheOK, NEW k \in entries, RemoveEntry(k), UNCHANGED size
  PROVE  CacheOK' /\ entries' = entries \ {k} /\ List' = Removed(List, k)
  <1>1. Coherent(Removed(List, k), entries \ {k}, size, currentSize - size[k])
    BY CoherentRemoved DEF CacheOK
  <1>2. List' = Removed(List, k)
    <2>1. IsList(Removed(List, k), entries \ {k})
      BY <1>1 DEF Coherent
    <2>2. Removed(List, k) \in Lists
      BY <2>1, ListFacts
    <2> QED BY <2>2, ListIs DEF RemoveEntry
  <1>3. entries' = entries \ {k} /\ size' = size /\ currentSize' = currentSize - size[k]
    BY DEF RemoveEntry
  <1>4. Coherent(List', entries', size', currentSize')
    BY <1>1, <1>2, <1>3
  <1> QED BY <1>2, <1>3, <1>4 DEF CacheOK

LEMMA CacheStays ==
  ASSUME CacheOK, UNCHANGED <<entries, size, currentSize, list>> PROVE CacheOK' /\ List' = List
  <1>1. List' = List
    BY ListStays
  <1>2. Coherent(List', entries', size', currentSize')
    BY <1>1 DEF CacheOK
  <1> QED BY <1>1, <1>2 DEF CacheOK

\* Get: an expired entry goes, another one moves to the front.
LEMMA GetsEntry ==
  ASSUME CacheOK, NEW k \in Keys, Get(k), UNCHANGED size
  PROVE  /\ CacheOK'
         /\ k \in entries /\ expired[k] => entries' = entries \ {k} /\ List' = Removed(List, k)
         /\ k \in entries /\ ~expired[k] => entries' = entries /\ List' = MovedToFront(List, k)
         /\ k \notin entries => entries' = entries /\ List' = List
  <1>1. CASE k \in entries /\ expired[k]
    <2>1. RemoveEntry(k)
      BY <1>1 DEF Get
    <2> QED BY <1>1, <2>1, RemovesEntry
  <1>2. CASE k \in entries /\ ~expired[k]
    <2>1. SetList(MovedToFront(List, k)) /\ entries' = entries /\ currentSize' = currentSize
      BY <1>2 DEF Get
    <2>2. /\ IsList(List, entries) /\ size \in [Keys -> Nat] /\ currentSize = SumFunctionOnSet(size, entries)
          /\ Cardinality(entries) <= MaxEntries /\ (currentSize > MaxSize => Cardinality(entries) = 1)
      BY DEF CacheOK, Coherent
    <2>3. IsList(MovedToFront(List, k), entries)
      BY <1>2, <2>2, MovedList
    <2>4. List' = MovedToFront(List, k)
      <3>1. MovedToFront(List, k) \in Lists
        BY <2>3, ListFacts
      <3> QED BY <2>1, <3>1, ListIs
    <2>5. Coherent(MovedToFront(List, k), entries, size, currentSize)
      BY <2>2, <2>3 DEF Coherent
    <2>6. Coherent(List', entries', size', currentSize')
      BY <2>1, <2>4, <2>5
    <2> QED BY <1>2, <2>1, <2>4, <2>6 DEF CacheOK
  <1>3. CASE k \notin entries
    <2>1. UNCHANGED <<entries, size, currentSize, list>>
      BY <1>3 DEF Get
    <2> QED BY <1>3, <2>1, CacheStays
  <1> QED BY <1>1, <1>2, <1>3

LEMMA StartsOK == Init => CacheInv
  <1> SUFFICES ASSUME Init PROVE CacheInv
    OBVIOUS
  <1>1. /\ size = [k \in Keys |-> 0] /\ next = [k \in Keys |-> Nil] /\ prev = [k \in Keys |-> Nil]
        /\ List = [head |-> Nil, tail |-> Nil, next |-> next, prev |-> prev, size |-> 0]
        /\ entries = {} /\ currentSize = 0
    BY DEF Init, List
  <1>2. size \in [Keys -> Nat] /\ next \in [Keys -> Keys \cup {Nil}] /\ prev \in [Keys -> Keys \cup {Nil}]
    BY <1>1
  <1>3. Coherent([head |-> Nil, tail |-> Nil, next |-> next, prev |-> prev, size |-> 0], {}, size, 0)
    BY <1>2, CoherentEmpty
  <1>4. CacheOK
    BY <1>1, <1>3 DEF CacheOK
  <1>5. HandlersOK
    <2>1. /\ expired = [k \in Keys |-> FALSE] /\ mu = Nobody /\ todo = {}
          /\ pc = [h \in Handlers |-> "idle"] /\ key = [h \in Handlers |-> Nil]
          /\ respSize = [h \in Handlers |-> 0]
      BY DEF Init
    <2>2. Nobody \notin Handlers
      BY BoundsAssumption DEF BoundsAssumption
    <2>3. expired \in [Keys -> BOOLEAN] /\ key \in [Handlers -> Keys \cup {Nil}]
          /\ pc \in [Handlers -> {"idle", "backend", "set", "evict"}] /\ respSize \in [Handlers -> Nat]
      BY <2>1
    <2>4. \A h \in Handlers : pc[h] = "idle" /\ mu # h
      BY <2>1, <2>2
    <2> QED BY <1>1, <2>1, <2>3, <2>4 DEF HandlersOK
  <1> QED BY <1>4, <1>5 DEF CacheInv

\* Every step keeps the invariant.
LEMMA StepsOK == CacheInv /\ [Next]_vars => CacheInv'
  <1> SUFFICES ASSUME CacheInv, [Next]_vars PROVE CacheInv'
    OBVIOUS
  <1>a. CacheOK /\ HandlersOK
    BY DEF CacheInv
  <1>b. /\ List \in Lists /\ entries \subseteq Keys /\ size \in [Keys -> Nat] /\ currentSize \in Nat
        /\ entries # {} => head \in entries /\ tail \in entries
        /\ listSize = Cardinality(entries) /\ listSize \in Nat
        /\ next \in [Keys -> Keys \cup {Nil}] /\ prev \in [Keys -> Keys \cup {Nil}]
        /\ (listSize = 0) <=> (entries = {})
    BY <1>a, CacheFacts
  <1>c. Nobody \notin Handlers /\ Cleaner \notin Handlers /\ Nobody # Cleaner /\ Sizes \subseteq Nat
    BY BoundsAssumption DEF BoundsAssumption
  <1>1. ASSUME NEW h \in Handlers, NEW k \in Keys, Lookup(h, k) PROVE CacheInv'
    <2>1. Get(k) /\ UNCHANGED <<size, expired, mu, todo, respSize>> /\ mu = Nobody /\ pc[h] = "idle"
      BY <1>1 DEF Lookup
    <2>2. CacheOK' /\ (entries' = entries \/ entries' = entries \ {k})
      BY <2>1, <1>a, GetsEntry
    <2>3. HandlersOK'
      <3>1. CASE k \in entries /\ ~expired[k]
        <4>1. UNCHANGED <<pc, key>>
          BY <3>1, <1>1 DEF Lookup
        <4> QED BY <4>1, <2>1, <2>2, <1>a, <1>c DEF HandlersOK
      <3>2. CASE ~(k \in entries /\ ~expired[k])
        <4>1. pc' = [pc EXCEPT ![h] = "backend"] /\ key' = [key EXCEPT ![h] = k]
          BY <3>2, <1>1 DEF Lookup
        <4> QED BY <4>1, <2>1, <2>2, <1>a, <1>c DEF HandlersOK
      <3> QED BY <3>1, <3>2
    <2> QED BY <2>2, <2>3 DEF CacheInv
  <1>2. ASSUME NEW h \in Handlers, BackendUncacheable(h) PROVE CacheInv'
    <2>1. CacheOK' /\ entries' = entries
      BY <1>2, <1>a, CacheStays DEF BackendUncacheable, cache
    <2>2. HandlersOK'
      BY <1>2, <1>a, <1>c, <2>1 DEF BackendUncacheable, HandlersOK, cache
    <2> QED BY <2>1, <2>2 DEF CacheInv
  <1>3. ASSUME NEW h \in Handlers, NEW n \in Sizes, BackendAnswers(h, n) PROVE CacheInv'
    <2>1. CacheOK' /\ entries' = entries
      BY <1>3, <1>a, CacheStays DEF BackendAnswers, cache
    <2>2. HandlersOK'
      BY <1>3, <1>a, <1>c, <2>1 DEF BackendAnswers, HandlersOK, cache
    <2> QED BY <2>1, <2>2 DEF CacheInv
  <1>4. ASSUME NEW h \in Handlers, SetBegin(h) PROVE CacheInv'
    <2>1. CacheOK' /\ entries' = entries \ {key[h]}
      <3>1. CASE key[h] \in entries
        BY <3>1, <1>4, <1>a, RemovesEntry DEF SetBegin
      <3>2. CASE key[h] \notin entries
        BY <3>2, <1>4, <1>a, CacheStays DEF SetBegin
      <3> QED BY <3>1, <3>2
    <2>2. HandlersOK'
      BY <1>4, <1>a, <1>c, <2>1 DEF SetBegin, HandlersOK
    <2> QED BY <2>1, <2>2 DEF CacheInv
  <1>5. ASSUME NEW h \in Handlers, EvictLRU(h) PROVE CacheInv'
    <2>1. tail \in entries
      BY <1>5, <1>b DEF EvictLRU, NeedsRoom
    <2>2. CacheOK' /\ entries' = entries \ {tail}
      BY <1>5, <1>a, <2>1, RemovesEntry DEF EvictLRU
    <2>3. HandlersOK'
      BY <1>5, <1>a, <1>c, <2>2 DEF EvictLRU, HandlersOK, handlers
    <2> QED BY <2>2, <2>3 DEF CacheInv
  <1>6. ASSUME NEW h \in Handlers, SetEnd(h) PROVE CacheInv'
    <2>1. /\ pc[h] = "evict" /\ mu = h /\ key[h] \in Keys /\ key[h] \notin entries /\ respSize[h] \in Nat
      BY <1>6, <1>a, <1>c DEF SetEnd, HandlersOK
    <2>2. (Cardinality(entries) < MaxEntries /\ currentSize + respSize[h] <= MaxSize) \/ List.size = 0
      <3>1. List.size = listSize
        BY DEF List
      <3>2. Cardinality(entries) \in Nat /\ MaxEntries \in Nat /\ MaxSize \in Nat
        BY <1>b, BoundsAssumption DEF BoundsAssumption
      <3> QED BY <1>6, <1>b, <2>1, <3>1, <3>2 DEF SetEnd, NeedsRoom
    <2>3. Coherent(Linked(List, key[h]), entries \cup {key[h]}, [size EXCEPT ![key[h]] = respSize[h]],
                   currentSize + respSize[h])
      BY <1>a, <2>1, <2>2, CoherentAdded DEF CacheOK
    <2>4. List' = Linked(List, key[h])
      <3>1. IsList(Linked(List, key[h]), entries \cup {key[h]})
        BY <2>3 DEF Coherent
      <3>2. Linked(List, key[h]) \in Lists
        BY <3>1, ListFacts
      <3> QED BY <1>6, <3>2, ListIs DEF SetEnd
    <2>5. entries' = entries \cup {key[h]} /\ size' = [size EXCEPT ![key[h]] = respSize[h]]
          /\ currentSize' = currentSize + respSize[h]
      BY <1>6 DEF SetEnd
    <2>6. Coherent(List', entries', size', currentSize')
      BY <2>3, <2>4, <2>5
    <2>7. HandlersOK'
      BY <1>6, <1>a, <1>c, <2>1, <2>5 DEF SetEnd, HandlersOK
    <2> QED BY <2>6, <2>7 DEF CacheInv, CacheOK
  <1>7. ASSUME NEW k \in Keys, Delete(k) PROVE CacheInv'
    <2>1. CacheOK' /\ (entries' = entries \/ entries' = entries \ {k})
      <3>1. CASE k \in entries
        BY <3>1, <1>7, <1>a, RemovesEntry DEF Delete
      <3>2. CASE k \notin entries
        BY <3>2, <1>7, <1>a, CacheStays DEF Delete
      <3> QED BY <3>1, <3>2
    <2>2. HandlersOK'
      BY <1>7, <1>a, <1>c, <2>1 DEF Delete, HandlersOK, handlers
    <2> QED BY <2>1, <2>2 DEF CacheInv
  <1>8. ASSUME NEW k \in Keys, Expire(k) PROVE CacheInv'
    <2>1. CacheOK' /\ entries' = entries
      BY <1>8, <1>a, CacheStays DEF Expire
    <2>2. HandlersOK'
      BY <1>8, <1>a, <1>c, <2>1 DEF Expire, HandlersOK, handlers
    <2> QED BY <2>1, <2>2 DEF CacheInv
  <1>9. ASSUME NEW a \in Apis, InvalidateCache(a) PROVE CacheInv'
    <2>1. UNCHANGED <<cache, mu, todo, handlers>>
      BY <1>9, <1>b, InvalidatesNothing
    <2>2. CacheOK' /\ entries' = entries
      BY <2>1, <1>a, CacheStays DEF cache
    <2>3. HandlersOK'
      BY <2>1, <2>2, <1>a DEF HandlersOK, handlers, cache
    <2> QED BY <2>2, <2>3 DEF CacheInv
  <1>10. ASSUME Clear PROVE CacheInv'
    <2>1. Coherent([head |-> Nil, tail |-> Nil, next |-> next, prev |-> prev, size |-> 0], {}, size, 0)
      BY <1>b, CoherentEmpty
    <2>2. /\ List' = [head |-> Nil, tail |-> Nil, next |-> next, prev |-> prev, size |-> 0]
          /\ entries' = {} /\ size' = size /\ currentSize' = 0
      BY <1>10 DEF Clear, List
    <2>3. Coherent(List', entries', size', currentSize')
      BY <2>1, <2>2
    <2>4. HandlersOK'
      BY <1>10, <1>a, <1>c, <2>2 DEF Clear, HandlersOK, handlers
    <2> QED BY <2>3, <2>4 DEF CacheInv, CacheOK
  <1>11. ASSUME CleanupTick PROVE CacheInv'
    <2>1. CacheOK' /\ entries' = entries
      BY <1>11, <1>a, CacheStays DEF CleanupTick, cache
    <2>2. HandlersOK'
      BY <1>11, <1>a, <1>c, <2>1 DEF CleanupTick, HandlersOK, handlers, cache
    <2> QED BY <2>1, <2>2 DEF CacheInv
  <1>12. ASSUME CleanupEntry PROVE CacheInv'
    <2>1. PICK k \in todo : RemoveEntry(k) /\ todo' = todo \ {k}
      BY <1>12 DEF CleanupEntry
    <2>2. k \in entries
      BY <2>1, <1>a DEF HandlersOK
    <2>3. CacheOK' /\ entries' = entries \ {k}
      BY <2>1, <2>2, <1>12, <1>a, RemovesEntry DEF CleanupEntry
    <2>4. HandlersOK'
      BY <1>12, <1>a, <1>c, <2>1, <2>3 DEF CleanupEntry, HandlersOK, handlers
    <2> QED BY <2>3, <2>4 DEF CacheInv
  <1>13. ASSUME CleanupEnd PROVE CacheInv'
    <2>1. CacheOK' /\ entries' = entries
      BY <1>13, <1>a, CacheStays DEF CleanupEnd, cache
    <2>2. HandlersOK'
      BY <1>13, <1>a, <1>c, <2>1 DEF CleanupEnd, HandlersOK, handlers, cache
    <2> QED BY <2>1, <2>2 DEF CacheInv
  <1>14. CASE UNCHANGED vars
    <2>1. CacheOK' /\ entries' = entries
      BY <1>14, <1>a, CacheStays DEF vars, list
    <2>2. HandlersOK'
      BY <1>14, <1>a, <2>1 DEF vars, HandlersOK
    <2> QED BY <2>1, <2>2 DEF CacheInv
  <1> QED
    BY <1>1, <1>2, <1>3, <1>4, <1>5, <1>6, <1>7, <1>8, <1>9, <1>10, <1>11, <1>12, <1>13, <1>14 DEF Next

LEMMA AlwaysOK == Spec => []CacheInv
  BY StartsOK, StepsOK, PTL DEF Spec

\* The walk along the list from its head meets every entry of the map once and ends
\* at its tail, the backward pointers mirror the forward ones, after every operation
\* of the cache and between the evictions of Set: no entry is lost to eviction and
\* nothing is evicted twice.
THEOREM ListIsWhole == Spec => []ListWhole
  <1>1. CacheInv => ListWhole
    <2> SUFFICES ASSUME CacheInv PROVE ListWhole
      OBVIOUS
    <2>1. IsList(List, entries)
      BY DEF CacheInv, CacheOK, Coherent
    <2>2. /\ List.head = head /\ List.tail = tail /\ List.size = listSize /\ List.next = next /\ List.prev = prev
      BY DEF List
    <2>3. /\ List.size = Cardinality(entries)
          /\ {Walk(List)[i] : i \in 1 .. List.size} = entries
          /\ (entries = {}) <=> (List.head = Nil)
          /\ (List.head = Nil) <=> (List.tail = Nil)
          /\ List.head # Nil => /\ List.prev[List.head] = Nil /\ List.next[List.tail] = Nil
                                /\ List.tail = Walk(List)[List.size]
          /\ \A k \in entries : List.next[k] # Nil => List.next[k] \in entries /\ List.prev[List.next[k]] = k
      BY <2>1, ListFacts
    <2> QED BY <2>2, <2>3 DEF ListWhole
  <1> QED BY <1>1, AlwaysOK, PTL

\* The map holds at most MaxEntries, the byte counter is the sum of the sizes of the
\* entries in it, and it exceeds the limit only for one response larger than that.
THEOREM StaysWithinBounds == Spec => []WithinBounds
  <1>1. CacheInv => WithinBounds
    BY DEF CacheInv, CacheOK, Coherent, WithinBounds, SizeExact
  <1> QED BY <1>1, AlwaysOK, PTL

-------------------------------------------------------------------------------
(* The listing of a list is the sequence of the least-recently-used cache. *)

\* A sequence without its element at p, as RemoveAt cuts it out.
LEMMA CutSequence ==
  ASSUME NEW R, NEW s \in Seq(R), NEW p \in 1 .. Len(s)
  PROVE  SubSeq(s, 1, p - 1) \o SubSeq(s, p + 1, Len(s))
           = [i \in 1 .. Len(s) - 1 |-> IF i < p THEN s[i] ELSE s[i + 1]]
  <1> DEFINE n == Len(s)
             a == SubSeq(s, 1, p - 1)
             b == SubSeq(s, p + 1, n)
             c == [i \in 1 .. n - 1 |-> IF i < p THEN s[i] ELSE s[i + 1]]
  <1>1. n \in Nat /\ p \in 1 .. n
    OBVIOUS
  <1>2. a \in Seq(R) /\ Len(a) = p - 1 /\ \A i \in 1 .. p - 1 : a[i] = s[i]
    OBVIOUS
  <1>3. b \in Seq(R) /\ Len(b) = n - p /\ \A i \in 1 .. n - p : b[i] = s[p + i]
    OBVIOUS
  <1> HIDE DEF a, b
  <1>4. /\ a \o b \in Seq(R) /\ Len(a \o b) = n - 1
        /\ \A i \in 1 .. n - 1 : (a \o b)[i] = IF i < p THEN a[i] ELSE b[i - (p - 1)]
    <2>1. /\ a \o b \in Seq(R) /\ Len(a \o b) = Len(a) + Len(b)
          /\ \A i \in 1 .. Len(a) + Len(b) : (a \o b)[i] = IF i <= Len(a) THEN a[i] ELSE b[i - Len(a)]
      BY <1>2, <1>3, ConcatProperties
    <2>2. Len(a) + Len(b) = n - 1 /\ \A i \in 1 .. n - 1 : i < p <=> i <= p - 1
      BY <1>1, <1>2, <1>3
    <2> QED BY <2>1, <2>2, <1>2
  <1>5. ASSUME NEW i \in 1 .. n - 1 PROVE (a \o b)[i] = c[i]
    <2>1. CASE i < p
      BY <2>1, <1>1, <1>2, <1>4
    <2>2. CASE ~(i < p)
      <3>1. i - (p - 1) \in 1 .. n - p /\ p + (i - (p - 1)) = i + 1
        BY <2>2, <1>1
      <3> QED BY <2>2, <3>1, <1>3, <1>4
    <2> QED BY <2>1, <2>2
  <1>6. DOMAIN (a \o b) = 1 .. n - 1 /\ a \o b = [i \in 1 .. n - 1 |-> (a \o b)[i]]
    <2> DEFINE d == a \o b
    <2>1. d \in Seq(R) /\ Len(d) = n - 1
      BY <1>4
    <2> HIDE DEF d
    <2>2. DOMAIN d = 1 .. n - 1 /\ d = [i \in 1 .. n - 1 |-> d[i]]
      BY <2>1
    <2> QED BY <2>2 DEF d
  <1> QED BY <1>5, <1>6 DEF a, b

\* Each entry of the listing is an element of the order with its size.
LEMMA ListingIs ==
  ASSUME NEW l, NEW sz
  PROVE  Listing(l, sz) = [i \in 1 .. l.size |-> [key |-> Order(l)[i], size |-> sz[Order(l)[i]]]]
  <1>1. \A i \in 1 .. l.size : Walk(l)[i] = Order(l)[i]
    BY DEF Order
  <1> QED BY <1>1 DEF Listing

\* What the listing of a list of the elements of S is like.
Entries == [key : Keys, size : Nat]
IsListing(s, l, sz, S) ==
  /\ s \in Seq(Entries) /\ Len(s) = l.size /\ DOMAIN s = 1 .. l.size /\ l.size \in Nat
  /\ \A i \in 1 .. l.size : /\ s[i] = [key |-> Order(l)[i], size |-> sz[Order(l)[i]]]
                            /\ s[i].key = Order(l)[i] /\ s[i].size = sz[Order(l)[i]]
                            /\ Order(l)[i] \in S /\ Order(l)[i] \in Keys
  /\ \A i, j \in 1 .. l.size : Order(l)[i] = Order(l)[j] => i = j

LEMMA ListingFacts ==
  ASSUME NEW l, NEW S, IsList(l, S), NEW sz \in [Keys -> Nat]
  PROVE  IsListing(Listing(l, sz), l, sz, S)
  <1> DEFINE o == Order(l)
             n == l.size
             s == Listing(l, sz)
  <1>1. n \in Nat /\ S \subseteq Keys
    BY ListFacts
  <1>2. /\ o \in [1 .. n -> S]
        /\ \A i, j \in 1 .. n : o[i] = o[j] => i = j
    BY DEF IsList, Follows
  <1>4. s = [i \in 1 .. n |-> [key |-> o[i], size |-> sz[o[i]]]]
    BY ListingIs
  <1> HIDE DEF o, n, s
  <1>5. \A i \in 1 .. n : o[i] \in S /\ o[i] \in Keys /\ sz[o[i]] \in Nat
    BY <1>1, <1>2
  <1>6. s \in [1 .. n -> [key : Keys, size : Nat]]
    BY <1>4, <1>5
  <1>7. s \in Seq([key : Keys, size : Nat]) /\ Len(s) = n /\ DOMAIN s = 1 .. n
    <2> DEFINE R == [key : Keys, size : Nat]
    <2>1. s \in [1 .. n -> R]
      BY <1>6
    <2> HIDE DEF R
    <2>2. s \in Seq(R) /\ Len(s) = n /\ DOMAIN s = 1 .. n
      BY <1>1, <2>1
    <2> QED BY <2>2 DEF R
  <1>8. \A i \in 1 .. n : /\ s[i] = [key |-> o[i], size |-> sz[o[i]]]
                          /\ s[i].key = o[i] /\ s[i].size = sz[o[i]]
    BY <1>4
  <1> QED BY <1>1, <1>2, <1>4, <1>5, <1>7, <1>8 DEF o, n, s, IsListing, Entries

\* The listing without the entry of k.
Take(s, k) ==
  IF \E i \in DOMAIN s : s[i].key = k
    THEN LET p == CHOOSE i \in DOMAIN s : s[i].key = k
         IN  SubSeq(s, 1, p - 1) \o SubSeq(s, p + 1, Len(s))
    ELSE s

\* Taking an entry out of the listing is taking its element out of the list.
LEMMA ListingWithout ==
  ASSUME NEW l, NEW S, IsList(l, S), NEW sz \in [Keys -> Nat], NEW k \in S
  PROVE  /\ Take(Listing(l, sz), k) = Listing(Removed(l, k), sz)
         /\ l.tail = k => Listing(Removed(l, k), sz) = SubSeq(Listing(l, sz), 1, Len(Listing(l, sz)) - 1)
  <1> DEFINE n == l.size
             o == Order(l)
             s == Listing(l, sz)
             r == Listing(Removed(l, k), sz)
  <1>1. PICK p \in 1 .. n : o[p] = k /\ Order(Removed(l, k)) = Cut(o, p, n)
    BY RemovedList
  <1>2. Removed(l, k).size = n - 1 /\ IsList(Removed(l, k), S \ {k})
    BY RemovedList
  <1>3. /\ s \in Seq([key : Keys, size : Nat]) /\ Len(s) = n /\ DOMAIN s = 1 .. n /\ n \in Nat
        /\ \A i \in 1 .. n : s[i] = [key |-> o[i], size |-> sz[o[i]]] /\ s[i].key = o[i]
        /\ \A i, j \in 1 .. n : o[i] = o[j] => i = j
    <2>1. IsListing(s, l, sz, S)
      <3> HIDE DEF o, n
      <3> QED BY ListingFacts
    <2> QED BY <2>1 DEF IsListing, Entries
  <1>4. r = [i \in 1 .. n - 1 |-> [key |-> Cut(o, p, n)[i], size |-> sz[Cut(o, p, n)[i]]]]
    <2> DEFINE m == Removed(l, k)
    <2>1. Listing(m, sz) = [i \in 1 .. m.size |-> [key |-> Order(m)[i], size |-> sz[Order(m)[i]]]]
      BY ListingIs
    <2> QED BY <2>1, <1>1, <1>2
  <1>5. p \in 1 .. n
    OBVIOUS
  <1> HIDE DEF n, o, s
  <1>6. r = [i \in 1 .. n - 1 |-> IF i < p THEN s[i] ELSE s[i + 1]]
    <2>1. ASSUME NEW i \in 1 .. n - 1
          PROVE  [key |-> Cut(o, p, n)[i], size |-> sz[Cut(o, p, n)[i]]] = IF i < p THEN s[i] ELSE s[i + 1]
      <3>1. i \in 1 .. n /\ i + 1 \in 1 .. n
        BY <1>3
      <3>2. Cut(o, p, n)[i] = IF i < p THEN o[i] ELSE o[i + 1]
        BY DEF Cut
      <3>3. CASE i < p
        BY <3>1, <3>2, <3>3, <1>3
      <3>4. CASE ~(i < p)
        BY <3>1, <3>2, <3>4, <1>3
      <3> QED BY <3>3, <3>4
    <2> HIDE DEF r
    <2> QED BY <2>1, <1>4
  <1> HIDE DEF r
  <1>7. Take(s, k) = r
    <2>1. \E i \in DOMAIN s : s[i].key = k
      BY <1>1, <1>3, <1>5
    <2>2. (CHOOSE i \in DOMAIN s : s[i].key = k) = p
      BY <1>1, <1>3, <1>5
    <2>3. Take(s, k) = SubSeq(s, 1, p - 1) \o SubSeq(s, p + 1, Len(s))
      BY <2>1, <2>2 DEF Take
    <2>4. p \in 1 .. Len(s)
      BY <1>3, <1>5
    <2>5. SubSeq(s, 1, p - 1) \o SubSeq(s, p + 1, Len(s)) = [i \in 1 .. Len(s) - 1 |-> IF i < p THEN s[i] ELSE s[i + 1]]
      BY <1>3, <2>4, CutSequence
    <2> QED BY <2>3, <2>5, <1>3, <1>6
  <1>8. ASSUME l.tail = k PROVE r = SubSeq(s, 1, Len(s) - 1)
    <2>1. n # 0 /\ n \in 1 .. n
      BY <1>3, <1>5
    <2>2. l.tail = o[n]
      BY <2>1 DEF IsList, Follows, n, o
    <2>3. p = n
      BY <1>1, <1>3, <1>5, <1>8, <2>1, <2>2
    <2>4. \A i \in 1 .. n - 1 : i < p
      BY <2>3, <1>3
    <2>5. r = [i \in 1 .. n - 1 |-> s[i]]
      BY <2>4, <1>6
    <2>6. SubSeq(s, 1, Len(s) - 1) = [i \in 1 .. n - 1 |-> s[i]]
      <3>1. SubSeq(s, 1, n - 1) = [i \in 1 .. (n - 1 - 1 + 1) |-> s[i + 1 - 1]]
        BY <1>3, <2>1
      <3>2. n - 1 - 1 + 1 = n - 1 /\ \A i \in 1 .. n - 1 : i + 1 - 1 = i
        BY <1>3
      <3> QED BY <3>1, <3>2, <1>3
    <2> QED BY <2>5, <2>6
  <1> QED BY <1>7, <1>8 DEF n, o, s, r

\* A key that has no entry is not taken out.
LEMMA ListingWithoutAbsent ==
  ASSUME NEW l, NEW S, IsList(l, S), NEW sz \in [Keys -> Nat], NEW k, k \notin S
  PROVE  Take(Listing(l, sz), k) = Listing(l, sz)
  <1>1. \A i \in DOMAIN Listing(l, sz) : Listing(l, sz)[i].key \in S
    <2>1. IsListing(Listing(l, sz), l, sz, S)
      BY ListingFacts
    <2> QED BY <2>1 DEF IsListing
  <1> QED BY <1>1 DEF Take

\* The sizes of the entries are the same.
Agree(z, sz, S) == \A e \in S : z[e] = sz[e]

\* Linking an element puts its entry in front of the listing.
LEMMA ListingWith ==
  ASSUME NEW l, NEW S, IsList(l, S), NEW sz \in [Keys -> Nat], NEW z \in [Keys -> Nat],
         NEW k \in Keys, k \notin S, Agree(z, sz, S)
  PROVE  Listing(Linked(l, k), z) = <<[key |-> k, size |-> z[k]]>> \o Listing(l, sz)
  <1> DEFINE n == l.size
             o == Order(l)
             s == Listing(l, sz)
             m == Linked(l, k)
             e == [key |-> k, size |-> z[k]]
             t == <<e>> \o s
  <1>1. IsList(m, S \cup {k}) /\ m.size = n + 1 /\ Order(m) = Push(k, o, n)
    BY LinkedList
  <1>2. /\ s \in Seq([key : Keys, size : Nat]) /\ Len(s) = n /\ n \in Nat
        /\ \A i \in 1 .. n : s[i] = [key |-> o[i], size |-> sz[o[i]]] /\ o[i] \in S
    <2>1. IsListing(s, l, sz, S)
      <3> HIDE DEF o, n
      <3> QED BY ListingFacts
    <2> QED BY <2>1 DEF IsListing, Entries
  <1>3. Listing(m, z) = [i \in 1 .. m.size |-> [key |-> Order(m)[i], size |-> z[Order(m)[i]]]]
    BY ListingIs
  <1> HIDE DEF n, o, s, m
  <1>4. e \in [key : Keys, size : Nat]
    OBVIOUS
  <1>5. t \in Seq([key : Keys, size : Nat]) /\ Len(t) = n + 1
        /\ \A i \in 1 .. n + 1 : t[i] = IF i = 1 THEN e ELSE s[i - 1]
    <2> HIDE DEF e
    <2> QED BY <1>2, <1>4
  <1>6. ASSUME NEW i \in 1 .. n + 1 PROVE [key |-> Push(k, o, n)[i], size |-> z[Push(k, o, n)[i]]] = t[i]
    <2>1. Push(k, o, n)[i] = IF i = 1 THEN k ELSE o[i - 1]
      BY DEF Push
    <2>2. CASE i = 1
      <3> HIDE DEF t
      <3> QED BY <2>1, <2>2, <1>5
    <2>3. CASE i # 1
      <3>1. i - 1 \in 1 .. n
        BY <2>3, <1>2
      <3>2. Push(k, o, n)[i] = o[i - 1]
        BY <2>1, <2>3
      <3>3. z[o[i - 1]] = sz[o[i - 1]] /\ s[i - 1] = [key |-> o[i - 1], size |-> sz[o[i - 1]]]
        BY <3>1, <1>2 DEF Agree
      <3> HIDE DEF t, e
      <3>4. t[i] = s[i - 1]
        BY <2>3, <1>5
      <3> QED BY <3>2, <3>3, <3>4
    <2> QED BY <2>2, <2>3
  <1> HIDE DEF t, e
  <1>7. t = [i \in 1 .. n + 1 |-> t[i]]
    BY <1>2, <1>5
  <1>8. Listing(m, z) = [i \in 1 .. n + 1 |-> [key |-> Push(k, o, n)[i], size |-> z[Push(k, o, n)[i]]]]
    BY <1>1, <1>3
  <1>9. Listing(m, z) = t
    BY <1>6, <1>7, <1>8
  <1> QED BY <1>9 DEF m, t, e, s

\* The entry that is used moves to the front.
LEMMA ListingMoved ==
  ASSUME NEW l, NEW S, IsList(l, S), NEW sz \in [Keys -> Nat], NEW k \in S, l.head # k
  PROVE  \E i \in DOMAIN Listing(l, sz) :
           /\ Listing(l, sz)[i].key = k
           /\ Listing(MovedToFront(l, k), sz) = <<Listing(l, sz)[i]>> \o Take(Listing(l, sz), k)
  <1> DEFINE s == Listing(l, sz)
  <1>1. IsList(Removed(l, k), S \ {k}) /\ k \in Keys
    BY RemovedList, ListFacts
  <1>2. Listing(Linked(Removed(l, k), k), sz) = <<[key |-> k, size |-> sz[k]]>> \o Listing(Removed(l, k), sz)
    BY <1>1, ListingWith DEF Agree
  <1>3. Take(s, k) = Listing(Removed(l, k), sz)
    BY ListingWithout
  <1>4. PICK i \in 1 .. l.size : Order(l)[i] = k
    BY DEF IsList, Follows
  <1>5. i \in DOMAIN s /\ s[i] = [key |-> k, size |-> sz[k]] /\ s[i].key = k
    <2>1. IsListing(s, l, sz, S)
      BY ListingFacts
    <2> QED BY <2>1, <1>4 DEF IsListing
  <1>6. MovedToFront(l, k) = Linked(Removed(l, k), k)
    BY DEF MovedToFront
  <1> QED BY <1>2, <1>3, <1>5, <1>6

\* The abstract cache weighs the listing as the counter weighs the entries.
LEMMA ListingWeighs ==
  ASSUME NEW l, NEW S, IsList(l, S), NEW sz \in [Keys -> Nat]
  PROVE  Lru!TotalSize(Listing(l, sz)) = SumFunctionOnSet(sz, S)
  <1> DEFINE n == l.size
             o == Order(l)
             s == Listing(l, sz)
             f == [i \in DOMAIN s |-> s[i].size]
  <1>1. Lru!TotalSize(s) = SumFunctionOnSet(f, DOMAIN f)
    BY DEF Lru!TotalSize, Lru!SumFunction, Lru!SumFunctionOnSet, Lru!FoldFunctionOnSet, Lru!MapThenFoldSet,
           SumFunctionOnSet, FoldFunctionOnSet, MapThenFoldSet
  <1>2. IsListing(s, l, sz, S)
    <2> HIDE DEF n, o, f
    <2> QED BY ListingFacts
  <1>3. /\ DOMAIN s = 1 .. n /\ n \in Nat /\ \A i \in 1 .. n : s[i].size = sz[o[i]]
        /\ \A i, j \in 1 .. n : o[i] = o[j] => i = j
    BY <1>2 DEF IsListing
  <1>4. o \in [1 .. n -> S] /\ \A e \in S : \E i \in 1 .. n : o[i] = e
    BY DEF IsList, Follows
  <1>5. S \subseteq Keys
    BY ListFacts
  <1>6. \A e \in S : sz[e] \in Nat
    BY <1>5
  <1> HIDE DEF n, o, s
  <1>7. DOMAIN f = 1 .. n /\ \A i \in 1 .. n : f[i] = sz[o[i]]
    BY <1>3
  <1> HIDE DEF f
  <1>8. SumFunctionOnSet(f, 1 .. n) = SumFunctionOnSet(sz, S)
    BY <1>3, <1>4, <1>6, <1>7, SumInOrder DEF Values
  <1> QED BY <1>1, <1>7, <1>8 DEF s

\* The entry that room is made for, from the holder of the mutex.
Waiting(m, k, n) == IF m \in Handlers THEN [key |-> k[m], size |-> n[m]] ELSE Nil

\* The setter is the holder of the mutex.
LEMMA PendingIs ==
  ASSUME HandlersOK
  PROVE  Pending = Waiting(mu, key, respSize)
  <1>1. \A h \in Handlers : pc[h] = "evict" <=> mu = h
    BY DEF HandlersOK
  <1>2. CASE mu \in Handlers
    <2>1. Setter = {mu}
      BY <1>1, <1>2 DEF Setter
    <2>2. (CHOOSE h \in Setter : TRUE) = mu
      BY <2>1
    <2>3. Setter # {}
      BY <2>1
    <2> QED BY <1>2, <2>2, <2>3 DEF Pending, Waiting
  <1>3. CASE mu \notin Handlers
    <2>1. Setter = {}
      BY <1>1, <1>3 DEF Setter
    <2> QED BY <1>3, <2>1 DEF Pending, Waiting
  <1> QED BY <1>2, <1>3

LEMMA WithoutIs == ASSUME NEW k PROVE Lru!Without(k) = Take(Recent, k)
  BY DEF Lru!Without, Take

LEMMA RecentIs ==
  /\ Recent = Listing(List, size)
  /\ Recent' = Listing(List', size')
  BY DEF Recent

\* Removing an entry is what the abstract cache does to it, ...
LEMMA DropsKey ==
  ASSUME CacheOK, NEW k \in entries, List' = Removed(List, k), UNCHANGED size
  PROVE  Recent' = Lru!Without(k)
  <1>1. IsList(List, entries) /\ size \in [Keys -> Nat]
    BY CacheFacts
  <1>2. Take(Listing(List, size), k) = Listing(Removed(List, k), size)
    BY <1>1, ListingWithout
  <1>3. Recent' = Listing(Removed(List, k), size)
    BY RecentIs
  <1> QED BY <1>2, <1>3, RecentIs, WithoutIs

\* ... and so is leaving a cache without it alone.
LEMMA LacksKey ==
  ASSUME CacheOK, NEW k, k \notin entries, List' = List, UNCHANGED size
  PROVE  Recent' = Lru!Without(k)
  <1>1. IsList(List, entries) /\ size \in [Keys -> Nat]
    BY CacheFacts
  <1>2. Take(Listing(List, size), k) = Listing(List, size)
    BY <1>1, ListingWithoutAbsent
  <1> QED BY <1>2, RecentIs, WithoutIs

LEMMA RecentStays ==
  ASSUME List' = List, UNCHANGED size
  PROVE  Recent' = Recent
  BY RecentIs

\* What the abstract cache sees of the counter and the bound.
LEMMA RecentFacts ==
  ASSUME CacheOK
  PROVE  /\ Recent \in Seq(Entries) /\ Len(Recent) = listSize /\ listSize = Cardinality(entries) /\ listSize \in Nat
         /\ Lru!TotalSize(Recent) = currentSize /\ currentSize \in Nat
         /\ (Recent = <<>>) <=> (listSize = 0)
  <1>1. IsList(List, entries) /\ size \in [Keys -> Nat] /\ listSize = Cardinality(entries) /\ listSize \in Nat
        /\ currentSize \in Nat
    BY CacheFacts
  <1>2. IsListing(Listing(List, size), List, size, entries)
    BY <1>1, ListingFacts
  <1>3. List.size = listSize
    BY DEF List
  <1>4. Recent \in Seq(Entries) /\ Len(Recent) = listSize
    BY <1>2, <1>3, RecentIs DEF IsListing
  <1>5. Lru!TotalSize(Recent) = currentSize
    <2>1. Lru!TotalSize(Listing(List, size)) = SumFunctionOnSet(size, entries)
      BY <1>1, ListingWeighs
    <2> QED BY <2>1, RecentIs DEF CacheOK, Coherent
  <1>6. (Recent = <<>>) <=> (listSize = 0)
    BY <1>1, <1>4
  <1> QED BY <1>1, <1>4, <1>5, <1>6

\* Set evicts exactly while the pending entry does not fit and there is something
\* to drop.
LEMMA RoomIs ==
  ASSUME CacheInv, NEW h \in Handlers, mu = h
  PROVE  /\ Pending # Nil /\ Pending = [key |-> key[h], size |-> respSize[h]]
         /\ NeedsRoom(h) <=> (~Lru!Fits(Pending) /\ Recent # <<>>)
  <1>a. CacheOK /\ HandlersOK
    BY DEF CacheInv
  <1>1. Pending = [key |-> key[h], size |-> respSize[h]]
    BY <1>a, PendingIs DEF Waiting
  <1>2. key[h] \in Keys /\ respSize[h] \in Sizes /\ respSize[h] \in Nat
    BY <1>a, BoundsAssumption DEF HandlersOK, BoundsAssumption
  <1>3. Pending # Nil
    <2>1. [key |-> key[h], size |-> respSize[h]] \in [key : Keys, size : Sizes]
      BY <1>2
    <2> QED BY <1>1, <2>1, BoundsAssumption DEF BoundsAssumption
  <1>4. /\ Len(Recent) = Cardinality(entries) /\ Cardinality(entries) \in Nat /\ listSize \in Nat
        /\ Lru!TotalSize(Recent) = currentSize /\ currentSize \in Nat
        /\ (Recent = <<>>) <=> (listSize = 0)
    BY <1>a, RecentFacts
  <1>5. MaxEntries \in Nat /\ MaxSize \in Nat
    BY BoundsAssumption DEF BoundsAssumption
  <1>6. Lru!Fits(Pending) <=> Cardinality(entries) < MaxEntries /\ currentSize + respSize[h] <= MaxSize
    <2>1. Pending.size = respSize[h]
      BY <1>1
    <2> QED BY <2>1, <1>4 DEF Lru!Fits
  <1>7. NeedsRoom(h) <=> (~Lru!Fits(Pending) /\ Recent # <<>>)
    BY <1>2, <1>4, <1>5, <1>6 DEF NeedsRoom
  <1> QED BY <1>1, <1>3, <1>7

\* The initial state maps to the initial state, ...
LEMMA StartsLru == Init => Lru!Init
  <1> SUFFICES ASSUME Init PROVE Lru!Init
    OBVIOUS
  <1>1. CacheInv
    BY StartsOK
  <1>2. Recent = <<>>
    <2>1. listSize = 0
      BY DEF Init
    <2> QED BY <2>1, <1>1, RecentFacts DEF CacheInv
  <1>3. Pending = Nil
    <2>1. mu = Nobody /\ Nobody \notin Handlers
      BY BoundsAssumption DEF Init, BoundsAssumption
    <2> QED BY <2>1, <1>1, PendingIs DEF CacheInv, Waiting
  <1> QED BY <1>2, <1>3 DEF Lru!Init

\* What PendingIs and RecentFacts say after a step.
PendingOK == Pending = Waiting(mu, key, respSize)
EmptyOK == listSize = 0 => Recent = <<>>

LEMMA PendingIsNext == HandlersOK' => Pending' = Waiting(mu', key', respSize')
  <1>1. HandlersOK => PendingOK
    BY PendingIs DEF PendingOK
  <1>2. HandlersOK' => PendingOK'
    BY <1>1, PTL
  <1> QED BY <1>2 DEF PendingOK

LEMMA EmptyNext == CacheOK' /\ listSize' = 0 => Recent' = <<>>
  <1>1. CacheOK => EmptyOK
    BY RecentFacts DEF EmptyOK
  <1>2. CacheOK' => EmptyOK'
    BY <1>1, PTL
  <1> QED BY <1>2 DEF EmptyOK

\* ... and every step to a step or a stutter: a hit uses an entry, an expired one, a
\* deleted one and one the cleaner removes is discarded, Set begins, drops the least
\* recently used entries and adds its own.
LEMMA StepsLru == CacheInv /\ CacheInv' /\ [Next]_vars => [Lru!Next]_<<Recent, Pending>>
  <1> SUFFICES ASSUME CacheInv, CacheInv', [Next]_vars PROVE [Lru!Next]_<<Recent, Pending>>
    OBVIOUS
  <1>a. CacheOK /\ HandlersOK /\ CacheOK' /\ HandlersOK'
    BY DEF CacheInv
  <1>b. /\ entries \subseteq Keys /\ IsList(List, entries) /\ size \in [Keys -> Nat]
        /\ entries # {} => head \in entries /\ tail \in entries
        /\ (listSize = 0) <=> (entries = {})
        /\ List.head = head /\ List.tail = tail
    BY <1>a, CacheFacts DEF List
  <1>c. Nobody \notin Handlers /\ Cleaner \notin Handlers
    BY BoundsAssumption DEF BoundsAssumption
  <1>d. Pending = Waiting(mu, key, respSize)
    BY <1>a, PendingIs
  <1>e. Pending' = Waiting(mu', key', respSize')
    BY <1>a, PendingIsNext
  <1>f. mu \notin Handlers => Pending = Nil
    BY <1>d DEF Waiting
  <1>g. mu' \notin Handlers => Pending' = Nil
    BY <1>e DEF Waiting
  <1>1. ASSUME NEW h \in Handlers, NEW k \in Keys, Lookup(h, k) PROVE [Lru!Next]_<<Recent, Pending>>
    <2>1. Get(k) /\ UNCHANGED <<size, mu>> /\ mu = Nobody
      BY <1>1 DEF Lookup
    <2>2. Pending = Nil /\ Pending' = Nil
      BY <2>1, <1>c, <1>f, <1>g
    <2>3. /\ k \in entries /\ expired[k] => List' = Removed(List, k)
          /\ k \in entries /\ ~expired[k] => List' = MovedToFront(List, k)
          /\ k \notin entries => List' = List
      BY <2>1, <1>a, GetsEntry
    <2>4. CASE k \in entries /\ expired[k]
      <3>1. Recent' = Lru!Without(k)
        BY <2>1, <2>3, <2>4, <1>a, DropsKey
      <3>2. Lru!Discard(k)
        BY <3>1, <2>2 DEF Lru!Discard
      <3> QED BY <3>2 DEF Lru!Next
    <2>5. CASE k \in entries /\ ~expired[k] /\ head = k
      <3>1. List' = List
        BY <2>3, <2>5, <1>b DEF MovedToFront
      <3>2. Recent' = Recent
        BY <3>1, <2>1, RecentStays
      <3> QED BY <3>2, <2>2
    <2>6. CASE k \in entries /\ ~expired[k] /\ head # k
      <3>1. PICK i \in DOMAIN Listing(List, size) :
              /\ Listing(List, size)[i].key = k
              /\ Listing(MovedToFront(List, k), size)
                   = <<Listing(List, size)[i]>> \o Take(Listing(List, size), k)
        BY <2>6, <1>b, ListingMoved
      <3>2. Recent' = Listing(MovedToFront(List, k), size)
        BY <2>1, <2>3, <2>6, RecentIs
      <3>3. i \in DOMAIN Recent /\ Recent[i].key = k /\ Recent' = <<Recent[i]>> \o Lru!Without(k)
        BY <3>1, <3>2, RecentIs, WithoutIs
      <3>4. Lru!Use(k)
        BY <3>3, <2>2 DEF Lru!Use
      <3> QED BY <3>4 DEF Lru!Next
    <2>7. CASE k \notin entries
      <3>1. Recent' = Recent
        BY <2>1, <2>3, <2>7, RecentStays
      <3> QED BY <3>1, <2>2
    <2> QED BY <2>4, <2>5, <2>6, <2>7
  <1>2. ASSUME NEW h \in Handlers, BackendUncacheable(h) \/ \E n \in Sizes : BackendAnswers(h, n)
        PROVE  [Lru!Next]_<<Recent, Pending>>
    <2>1. UNCHANGED <<list, size, mu>> /\ pc[h] = "backend" /\ \A g \in Handlers \ {h} : key'[g] = key[g] /\ respSize'[g] = respSize[g]
      BY <1>2, <1>a DEF BackendUncacheable, BackendAnswers, cache, HandlersOK
    <2>2. Recent' = Recent
      BY <2>1, ListStays, RecentStays
    <2>3. mu # h
      BY <2>1, <1>a DEF HandlersOK
    <2>4. Pending' = Pending
      BY <2>1, <2>3, <1>d, <1>e DEF Waiting
    <2> QED BY <2>2, <2>4
  <1>4. ASSUME NEW h \in Handlers, SetBegin(h) PROVE [Lru!Next]_<<Recent, Pending>>
    <2>1. mu = Nobody /\ mu' = h /\ pc[h] = "set" /\ UNCHANGED <<size, key, respSize>>
          /\ (key[h] \in entries => RemoveEntry(key[h])) /\ (key[h] \notin entries => UNCHANGED list)
      BY <1>4 DEF SetBegin
    <2>2. key[h] \in Keys /\ respSize[h] \in Sizes
      BY <2>1, <1>a DEF HandlersOK
    <2>3. Pending = Nil /\ Pending' = [key |-> key[h], size |-> respSize[h]]
      BY <2>1, <1>c, <1>f, <1>e DEF Waiting
    <2>4. Recent' = Lru!Without(key[h])
      <3>1. CASE key[h] \in entries
        <4>1. List' = Removed(List, key[h])
          BY <3>1, <2>1, <1>a, RemovesEntry
        <4> QED BY <3>1, <4>1, <2>1, <1>a, DropsKey
      <3>2. CASE key[h] \notin entries
        <4>1. List' = List
          BY <3>2, <2>1, ListStays
        <4> QED BY <3>2, <4>1, <2>1, <1>a, LacksKey
      <3> QED BY <3>1, <3>2
    <2>5. Lru!Begin(key[h], respSize[h])
      BY <2>3, <2>4 DEF Lru!Begin
    <2> QED BY <2>2, <2>5 DEF Lru!Next
  <1>5. ASSUME NEW h \in Handlers, EvictLRU(h) PROVE [Lru!Next]_<<Recent, Pending>>
    <2>1. pc[h] = "evict" /\ NeedsRoom(h) /\ RemoveEntry(tail) /\ UNCHANGED <<size, mu, key, respSize>>
      BY <1>5 DEF EvictLRU, handlers
    <2>2. mu = h
      BY <2>1, <1>a DEF HandlersOK
    <2>3. Pending # Nil /\ ~Lru!Fits(Pending) /\ Recent # <<>>
      BY <2>1, <2>2, RoomIs
    <2>4. tail \in entries
      BY <2>1, <1>b DEF NeedsRoom
    <2>5. List' = Removed(List, tail)
      BY <2>1, <2>4, <1>a, RemovesEntry
    <2>6. Listing(Removed(List, tail), size) = SubSeq(Listing(List, size), 1, Len(Listing(List, size)) - 1)
      BY <2>4, <1>b, ListingWithout
    <2>7. Recent' = SubSeq(Recent, 1, Len(Recent) - 1)
      BY <2>1, <2>5, <2>6, RecentIs
    <2>8. Pending' = Pending
      BY <2>1, <1>d, <1>e
    <2>9. Lru!DropLeastRecent
      BY <2>3, <2>7, <2>8 DEF Lru!DropLeastRecent
    <2> QED BY <2>9 DEF Lru!Next
  <1>6. ASSUME NEW h \in Handlers, SetEnd(h) PROVE [Lru!Next]_<<Recent, Pending>>
    <2>1. pc[h] = "evict" /\ ~NeedsRoom(h) /\ SetList(Linked(List, key[h])) /\ mu' = Nobody
          /\ size' = [size EXCEPT ![key[h]] = respSize[h]]
      BY <1>6 DEF SetEnd
    <2>2. mu = h /\ key[h] \in Keys /\ key[h] \notin entries /\ respSize[h] \in Nat
      BY <2>1, <1>a DEF HandlersOK
    <2>3. Pending = [key |-> key[h], size |-> respSize[h]] /\ Pending # Nil /\ (Lru!Fits(Pending) \/ Recent = <<>>)
      BY <2>1, <2>2, RoomIs
    <2>4. Pending' = Nil
      BY <2>1, <1>c, <1>g
    <2>5. List' = Linked(List, key[h])
      <3>1. IsList(Linked(List, key[h]), entries \cup {key[h]})
        BY <2>2, <1>b, LinkedList
      <3>2. Linked(List, key[h]) \in Lists
        BY <3>1, ListFacts
      <3> QED BY <2>1, <3>2, ListIs
    <2>6. size' \in [Keys -> Nat] /\ size'[key[h]] = respSize[h] /\ \A e \in entries : size'[e] = size[e]
      BY <2>1, <2>2, <1>b
    <2>7. Listing(Linked(List, key[h]), size') = <<[key |-> key[h], size |-> size'[key[h]]]>> \o Listing(List, size)
      <3> DEFINE z == size'
                 k == key[h]
      <3>1. z \in [Keys -> Nat] /\ k \in Keys /\ k \notin entries /\ \A e \in entries : z[e] = size[e]
        BY <2>2, <2>6
      <3> HIDE DEF z, k
      <3>0. Agree(z, size, entries)
        BY <3>1 DEF Agree
      <3>2. Listing(Linked(List, k), z) = <<[key |-> k, size |-> z[k]]>> \o Listing(List, size)
        <4>1. IsList(List, entries) /\ size \in [Keys -> Nat]
          BY <1>b
        <4>2. z \in [Keys -> Nat] /\ k \in Keys /\ k \notin entries
          BY <3>1
        <4> QED BY ONLY <4>1, <4>2, <3>0, ListingWith
      <3> QED BY <3>2 DEF z, k
    <2>8. Recent' = <<Pending>> \o Recent
      BY <2>3, <2>5, <2>6, <2>7, RecentIs
    <2>9. Lru!Add
      BY <2>3, <2>4, <2>8 DEF Lru!Add
    <2> QED BY <2>9 DEF Lru!Next
  <1>7. ASSUME NEW k \in Keys, Delete(k) PROVE [Lru!Next]_<<Recent, Pending>>
    <2>1. mu = Nobody /\ UNCHANGED <<size, mu>>
          /\ (k \in entries => RemoveEntry(k)) /\ (k \notin entries => UNCHANGED list)
      BY <1>7 DEF Delete
    <2>2. Pending = Nil /\ Pending' = Nil
      BY <2>1, <1>c, <1>f, <1>g
    <2>3. Recent' = Lru!Without(k)
      <3>1. CASE k \in entries
        <4>1. List' = Removed(List, k)
          BY <3>1, <2>1, <1>a, RemovesEntry
        <4> QED BY <3>1, <4>1, <2>1, <1>a, DropsKey
      <3>2. CASE k \notin entries
        <4>1. List' = List
          BY <3>2, <2>1, ListStays
        <4> QED BY <3>2, <4>1, <2>1, <1>a, LacksKey
      <3> QED BY <3>1, <3>2
    <2>4. Lru!Discard(k)
      BY <2>2, <2>3 DEF Lru!Discard
    <2> QED BY <2>4 DEF Lru!Next
  <1>8. ASSUME NEW k \in Keys, Expire(k) PROVE [Lru!Next]_<<Recent, Pending>>
    <2>1. UNCHANGED <<list, size, mu, key, respSize>>
      BY <1>8 DEF Expire, handlers
    <2> QED BY <2>1, <1>d, <1>e, ListStays, RecentStays
  <1>9. ASSUME NEW a \in Apis, InvalidateCache(a) PROVE [Lru!Next]_<<Recent, Pending>>
    <2>1. UNCHANGED <<cache, mu, todo, handlers>>
      BY <1>9, <1>a, CacheFacts, InvalidatesNothing
    <2>2. UNCHANGED <<list, size, mu, key, respSize>>
      BY <2>1 DEF cache, handlers
    <2> QED BY <2>2, <1>d, <1>e, ListStays, RecentStays
  <1>10. ASSUME Clear PROVE [Lru!Next]_<<Recent, Pending>>
    <2>1. mu = Nobody /\ UNCHANGED mu /\ listSize' = 0
      BY <1>10 DEF Clear
    <2>2. Pending = Nil /\ Pending' = Nil
      BY <2>1, <1>c, <1>f, <1>g
    <2>3. Recent' = <<>>
      BY <2>1, <1>a, EmptyNext
    <2>4. Lru!Clear
      BY <2>2, <2>3 DEF Lru!Clear
    <2> QED BY <2>4 DEF Lru!Next
  <1>11. ASSUME CleanupTick \/ CleanupEnd PROVE [Lru!Next]_<<Recent, Pending>>
    <2>1. UNCHANGED <<list, size>> /\ mu \notin Handlers /\ mu' \notin Handlers
      BY <1>11, <1>c DEF CleanupTick, CleanupEnd, cache
    <2> QED BY <2>1, <1>f, <1>g, ListStays, RecentStays
  <1>12. ASSUME CleanupEntry PROVE [Lru!Next]_<<Recent, Pending>>
    <2>1. PICK k \in todo : RemoveEntry(k)
      BY <1>12 DEF CleanupEntry
    <2>2. mu = Cleaner /\ UNCHANGED <<size, mu>>
      BY <1>12 DEF CleanupEntry
    <2>3. k \in entries /\ k \in Keys
      BY <2>1, <1>a, <1>b DEF HandlersOK
    <2>4. Pending = Nil /\ Pending' = Nil
      BY <2>2, <1>c, <1>f, <1>g
    <2>5. List' = Removed(List, k)
      BY <2>1, <2>2, <2>3, <1>a, RemovesEntry
    <2>6. Recent' = Lru!Without(k)
      BY <2>2, <2>3, <2>5, <1>a, DropsKey
    <2>7. Lru!Discard(k)
      BY <2>4, <2>6 DEF Lru!Discard
    <2> QED BY <2>3, <2>7 DEF Lru!Next
  <1>13. CASE UNCHANGED vars
    <2>1. UNCHANGED <<list, size, mu, key, respSize>>
      BY <1>13 DEF vars, list
    <2> QED BY <2>1, <1>d, <1>e, ListStays, RecentStays
  <1> QED
    BY <1>1, <1>2, <1>4, <1>5, <1>6, <1>7, <1>8, <1>9, <1>10, <1>11, <1>12, <1>13 DEF Next

\* The map, the linked list and the byte counter together are a least-recently-used
\* cache: a response makes room by dropping the least recently used entries, only as
\* long as it does not fit, and no interleaving of lookups, sets, deletes and the
\* cleaner reorders, loses or repeats an entry.
THEOREM ImplementsLruCache == Spec => IsLruCache
  BY StartsLru, StepsLru, AlwaysOK, PTL DEF Spec, IsLruCache, Lru!Spec
===============================================================================
