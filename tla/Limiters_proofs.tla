---------------------------- MODULE Limiters_proofs ----------------------------
(***************************************************************************)
(* The limiters, for any number of requests, nodes, limits and ticks.      *)
(*                                                                         *)
(* A behaviour of MCLimiters is a behaviour of each limiter, so that the   *)
(* invariants of each are proved of its own steps.  The provers have no    *)
(* induction; where one is needed, over the elements a sum ranges over,    *)
(* the smallest set for which a statement fails is led to a contradiction. *)
(***************************************************************************)
EXTENDS MCLimiters, Sequences, Functions, FiniteSetTheorems, TLAPS

-------------------------------------------------------------------------------
(* Sums over finite sets *)

\* A collection of subsets of a finite set has a smallest member: the form of
\* induction on finite sets that the provers can use.
LEMMA LeastSubset ==
  ASSUME NEW S, IsFiniteSet(S), NEW T, T \subseteq SUBSET S, T # {}
  PROVE  \E s \in T : \A t \in T : ~(t \subseteq s /\ t # s)
  <1>1. IsWellFoundedOn(StrictSubsetOrdering(S), FiniteSubsetsOf(S))
    BY FS_StrictSubsetOrderingWellFounded
  <1>2. T \subseteq FiniteSubsetsOf(S)
    BY FS_Subset DEF FiniteSubsetsOf
  <1>3. PICK s \in T : \A t \in T : <<t, s>> \notin StrictSubsetOrdering(S)
    BY <1>1, <1>2, WFMin
  <1> QED BY <1>3 DEF StrictSubsetOrdering

\* What the fold of SumFunctionOnSet adds up: g[s] is the sum of f over s.
Adds(g, f, S) ==
  g = [s \in SUBSET S |->
         IF s = {} THEN 0
         ELSE f[CHOOSE x \in s : TRUE] + g[s \ {CHOOSE x \in s : TRUE}]]

\* There is one way to add up the values of a function, ...
LEMMA AddsUnique ==
  ASSUME NEW S, IsFiniteSet(S), NEW f, NEW g, NEW h, Adds(g, f, S), Adds(h, f, S)
  PROVE  g = h
  <1> DEFINE Bad == {s \in SUBSET S : g[s] # h[s]}
  <1>1. SUFFICES Bad = {}
    BY <1>1 DEF Adds
  <1>2. SUFFICES ASSUME Bad # {} PROVE FALSE
    OBVIOUS
  <1>3. PICK s \in Bad : \A t \in Bad : ~(t \subseteq s /\ t # s)
    <2>1. Bad \subseteq SUBSET S
      OBVIOUS
    <2> HIDE DEF Bad
    <2> QED BY <1>2, <2>1, LeastSubset
  <1> DEFINE c == CHOOSE x \in s : TRUE
  <1>4. s # {} => c \in s
    OBVIOUS
  <1>5. s # {} => g[s \ {c}] = h[s \ {c}]
    BY <1>3, <1>4
  <1> QED BY <1>3, <1>5 DEF Adds

\* ... and there is one.
LEMMA AddsExists ==
  ASSUME NEW S, IsFiniteSet(S), NEW f
  PROVE  \E g : Adds(g, f, S)
  <1> DEFINE Bad == {s \in SUBSET S : ~ \E g : Adds(g, f, s)}
  <1>1. SUFFICES ASSUME Bad # {} PROVE FALSE
    OBVIOUS
  <1>2. PICK s \in Bad : \A t \in Bad : ~(t \subseteq s /\ t # s)
    <2>1. Bad \subseteq SUBSET S
      OBVIOUS
    <2> HIDE DEF Bad
    <2> QED BY <1>1, <2>1, LeastSubset
  <1> DEFINE G(t) == CHOOSE g : Adds(g, f, t)
             c(t) == CHOOSE x \in t : TRUE
             h == [t \in SUBSET s |-> IF t = {} THEN 0 ELSE f[c(t)] + G(t \ {c(t)})[t \ {c(t)}]]
  <1>3. \A t \in SUBSET s : t # s => Adds(G(t), f, t)
    <2> SUFFICES ASSUME NEW t \in SUBSET s, t # s PROVE Adds(G(t), f, t)
      OBVIOUS
    <2>1. \E g : Adds(g, f, t)
      BY <1>2
    <2> QED BY <2>1
  <1>4. \A t \in SUBSET s : t # {} => c(t) \in t
    OBVIOUS
  <1>5. \A t \in SUBSET s : t # s => h[t] = G(t)[t]
    <2> SUFFICES ASSUME NEW t \in SUBSET s, t # s PROVE h[t] = G(t)[t]
      OBVIOUS
    <2>0. CASE t = {}
      <3>1. h[t] = 0
        BY <2>0
      <3>2. Adds(G(t), f, t)
        BY <1>3
      <3> HIDE DEF G, h
      <3> QED BY <2>0, <3>1, <3>2 DEF Adds
    <2> SUFFICES ASSUME t # {} PROVE h[t] = G(t)[t]
      BY <2>0
    <2> DEFINE u == t \ {c(t)}
               k == [v \in SUBSET u |-> G(t)[v]]
    <2>1. u \in SUBSET s /\ u # s /\ u \in SUBSET t
      BY <1>4
    <2>2. Adds(G(t), f, t) /\ Adds(G(u), f, u)
      BY <1>3, <2>1
    <2>3. Adds(k, f, u)
      <3> SUFFICES ASSUME NEW v \in SUBSET u
                   PROVE  k[v] = IF v = {} THEN 0
                                 ELSE f[CHOOSE x \in v : TRUE] + k[v \ {CHOOSE x \in v : TRUE}]
        BY DEF Adds
      <3>1. v \in SUBSET t /\ v \ {CHOOSE x \in v : TRUE} \in SUBSET u
        BY <2>1
      <3>2. G(t)[v] = IF v = {} THEN 0
                      ELSE f[CHOOSE x \in v : TRUE] + G(t)[v \ {CHOOSE x \in v : TRUE}]
        <4> HIDE DEF G, u
        <4> QED BY <2>2, <3>1 DEF Adds
      <3> QED BY <3>1, <3>2
    <2>4. IsFiniteSet(u)
      BY <2>1, <1>2, FS_Subset
    <2>5. k = G(u)
      <3> HIDE DEF k, G, u
      <3> QED BY <2>2, <2>3, <2>4, AddsUnique
    <2>6. G(t)[u] = G(u)[u]
      <3>1. k[u] = G(t)[u]
        OBVIOUS
      <3> HIDE DEF k, G
      <3> QED BY <2>5, <3>1
    <2>7. G(t)[t] = f[c(t)] + G(t)[u]
      <3> HIDE DEF G
      <3> QED BY <2>2 DEF Adds
    <2>8. h[t] = f[c(t)] + G(u)[u]
      <3> HIDE DEF G
      <3> QED OBVIOUS
    <2> QED BY <2>6, <2>7, <2>8
  <1>6. Adds(h, f, s)
    <2> SUFFICES ASSUME NEW t \in SUBSET s
                 PROVE  h[t] = IF t = {} THEN 0 ELSE f[c(t)] + h[t \ {c(t)}]
      <3>1. h = [t \in SUBSET s |-> h[t]]
        OBVIOUS
      <3> HIDE DEF G, h
      <3> QED BY <3>1 DEF Adds
    <2>0. t = {} => h[t] = 0
      OBVIOUS
    <2> SUFFICES ASSUME t # {} PROVE h[t] = f[c(t)] + h[t \ {c(t)}]
      BY <2>0
    <2>1. t \ {c(t)} \in SUBSET s /\ t \ {c(t)} # s
      BY <1>4
    <2>2. h[t \ {c(t)}] = G(t \ {c(t)})[t \ {c(t)}]
      BY <1>5, <2>1
    <2> HIDE DEF G
    <2> QED BY <2>2
  <1> QED BY <1>2, <1>6

\* SumFunctionOnSet adds up, in some order.
LEMMA SumAdds ==
  ASSUME NEW S, IsFiniteSet(S), NEW f
  PROVE  \E g : Adds(g, f, S) /\ SumFunctionOnSet(f, S) = g[S]
  <1>1. SumFunctionOnSet(f, S) = (CHOOSE g : Adds(g, f, S))[S]
    BY DEF SumFunctionOnSet, FoldFunctionOnSet, MapThenFoldSet, Adds
  <1>2. PICK g : Adds(g, f, S)
    BY AddsExists
  <1> QED BY <1>1, <1>2

\* Nothing adds up to zero.
LEMMA SumEmpty == ASSUME NEW f PROVE SumFunctionOnSet(f, {}) = 0
  BY SumAdds, FS_EmptySet DEF Adds

\* A sum over a set that is not empty takes one value off.
LEMMA SumUnfold ==
  ASSUME NEW S, IsFiniteSet(S), NEW f, S # {}
  PROVE  \E x \in S : SumFunctionOnSet(f, S) = f[x] + SumFunctionOnSet(f, S \ {x})
  <1> DEFINE x == CHOOSE y \in S : TRUE
             T == S \ {x}
  <1>1. PICK g : Adds(g, f, S) /\ SumFunctionOnSet(f, S) = g[S]
    BY SumAdds
  <1>2. PICK h : Adds(h, f, T) /\ SumFunctionOnSet(f, T) = h[T]
    BY SumAdds, FS_Subset
  <1>3. g[S] = f[x] + g[T]
    BY <1>1 DEF Adds
  <1> DEFINE k == [s \in SUBSET T |-> g[s]]
  <1>4. Adds(k, f, T)
    <2> SUFFICES ASSUME NEW v \in SUBSET T
                 PROVE  k[v] = IF v = {} THEN 0
                               ELSE f[CHOOSE y \in v : TRUE] + k[v \ {CHOOSE y \in v : TRUE}]
      BY DEF Adds
    <2>1. v \in SUBSET S /\ v \ {CHOOSE y \in v : TRUE} \in SUBSET T
      OBVIOUS
    <2>2. g[v] = IF v = {} THEN 0
                 ELSE f[CHOOSE y \in v : TRUE] + g[v \ {CHOOSE y \in v : TRUE}]
      BY <1>1, <2>1 DEF Adds
    <2> QED BY <2>1, <2>2
  <1>5. k = h
    <2>1. IsFiniteSet(T)
      BY FS_Subset
    <2> HIDE DEF k, T
    <2> QED BY <1>2, <1>4, <2>1, AddsUnique
  <1>6. k[T] = g[T]
    OBVIOUS
  <1>7. SumFunctionOnSet(f, T) = g[T]
    <2> HIDE DEF k, T
    <2> QED BY <1>2, <1>5, <1>6
  <1>8. x \in S
    OBVIOUS
  <1> HIDE DEF x
  <1> QED BY <1>1, <1>3, <1>7, <1>8

\* Zeros add up to zero.
LEMMA SumZero ==
  ASSUME NEW S, IsFiniteSet(S), NEW f, \A x \in S : f[x] = 0
  PROVE  SumFunctionOnSet(f, S) = 0
  <1> DEFINE Bad == {s \in SUBSET S : SumFunctionOnSet(f, s) # 0}
  <1>1. SUFFICES ASSUME Bad # {} PROVE FALSE
    OBVIOUS
  <1>2. PICK s \in Bad : \A t \in Bad : ~(t \subseteq s /\ t # s)
    <2>1. Bad \subseteq SUBSET S
      OBVIOUS
    <2> HIDE DEF Bad
    <2> QED BY <1>1, <2>1, LeastSubset
  <1>3. s # {} /\ IsFiniteSet(s)
    <2>1. s # {}
      BY SumEmpty
    <2> QED BY <2>1, FS_Subset
  <1>4. PICK x \in s : SumFunctionOnSet(f, s) = f[x] + SumFunctionOnSet(f, s \ {x})
    BY <1>3, SumUnfold
  <1>5. s \ {x} \in SUBSET S /\ s \ {x} \notin Bad
    BY <1>2
  <1> QED BY <1>4, <1>5

\* Natural numbers add up to a natural number.
LEMMA SumType ==
  ASSUME NEW S, IsFiniteSet(S), NEW f, \A x \in S : f[x] \in Nat
  PROVE  SumFunctionOnSet(f, S) \in Nat
  <1> DEFINE Bad == {s \in SUBSET S : SumFunctionOnSet(f, s) \notin Nat}
  <1>1. SUFFICES ASSUME Bad # {} PROVE FALSE
    OBVIOUS
  <1>2. PICK s \in Bad : \A t \in Bad : ~(t \subseteq s /\ t # s)
    <2>1. Bad \subseteq SUBSET S
      OBVIOUS
    <2> HIDE DEF Bad
    <2> QED BY <1>1, <2>1, LeastSubset
  <1>3. s # {} /\ IsFiniteSet(s)
    <2>1. SumFunctionOnSet(f, {}) \in Nat
      BY SumEmpty
    <2>2. s # {}
      BY <2>1
    <2> QED BY <2>2, FS_Subset
  <1>4. PICK x \in s : SumFunctionOnSet(f, s) = f[x] + SumFunctionOnSet(f, s \ {x})
    BY <1>3, SumUnfold
  <1>5. s \ {x} \in SUBSET S /\ s \ {x} \notin Bad
    BY <1>2
  <1> QED BY <1>4, <1>5

\* Any element may be taken out of the sum.
LEMMA SumRemove ==
  ASSUME NEW S, IsFiniteSet(S), NEW f, \A x \in S : f[x] \in Nat, NEW x \in S
  PROVE  SumFunctionOnSet(f, S) = f[x] + SumFunctionOnSet(f, S \ {x})
  <1> DEFINE Bad == {s \in SUBSET S : \E y \in s : SumFunctionOnSet(f, s) # f[y] + SumFunctionOnSet(f, s \ {y})}
  <1>1. SUFFICES ASSUME Bad # {} PROVE FALSE
    OBVIOUS
  <1>2. PICK s \in Bad : \A t \in Bad : ~(t \subseteq s /\ t # s)
    <2>1. Bad \subseteq SUBSET S
      OBVIOUS
    <2> HIDE DEF Bad
    <2> QED BY <1>1, <2>1, LeastSubset
  <1>3. PICK y \in s : SumFunctionOnSet(f, s) # f[y] + SumFunctionOnSet(f, s \ {y})
    OBVIOUS
  <1>4. PICK z \in s : SumFunctionOnSet(f, s) = f[z] + SumFunctionOnSet(f, s \ {z})
    BY SumUnfold, FS_Subset
  <1>5. y # z /\ y \in s \ {z} /\ z \in s \ {y}
    BY <1>3, <1>4
  <1>6. \A t \in SUBSET s : t # s => \A w \in t :
           SumFunctionOnSet(f, t) = f[w] + SumFunctionOnSet(f, t \ {w})
    BY <1>2
  <1>7. /\ SumFunctionOnSet(f, s \ {z}) = f[y] + SumFunctionOnSet(f, (s \ {z}) \ {y})
        /\ SumFunctionOnSet(f, s \ {y}) = f[z] + SumFunctionOnSet(f, (s \ {y}) \ {z})
    BY <1>5, <1>6
  <1>8. (s \ {z}) \ {y} = (s \ {y}) \ {z}
    OBVIOUS
  <1>9. SumFunctionOnSet(f, (s \ {z}) \ {y}) \in Nat /\ f[y] \in Nat /\ f[z] \in Nat
    <2>1. IsFiniteSet((s \ {z}) \ {y}) /\ (s \ {z}) \ {y} \subseteq S
      BY FS_Subset
    <2> QED BY <2>1, SumType
  <1> HIDE DEF Bad
  <1> QED BY <1>3, <1>4, <1>7, <1>8, <1>9

\* Equal values have equal sums.
LEMMA SumEqual ==
  ASSUME NEW S, IsFiniteSet(S), NEW f, NEW g, \A x \in S : f[x] = g[x]
  PROVE  SumFunctionOnSet(f, S) = SumFunctionOnSet(g, S)
  <1>1. PICK h : Adds(h, f, S) /\ SumFunctionOnSet(f, S) = h[S]
    BY SumAdds
  <1>2. PICK k : Adds(k, g, S) /\ SumFunctionOnSet(g, S) = k[S]
    BY SumAdds
  <1>3. Adds(h, g, S)
    <2>1. \A s \in SUBSET S : s # {} => f[CHOOSE x \in s : TRUE] = g[CHOOSE x \in s : TRUE]
      OBVIOUS
    <2> QED BY <1>1, <2>1 DEF Adds
  <1> QED BY <1>1, <1>2, <1>3, AddsUnique

\* A sum one term of which changes.
LEMMA SumUpdate ==
  ASSUME NEW S, IsFiniteSet(S), NEW f, NEW g, NEW x \in S,
         \A y \in S : f[y] \in Nat /\ g[y] \in Nat,
         \A y \in S \ {x} : g[y] = f[y]
  PROVE  SumFunctionOnSet(g, S) - g[x] = SumFunctionOnSet(f, S) - f[x]
  <1>1. IsFiniteSet(S \ {x})
    BY FS_Subset
  <1>2. SumFunctionOnSet(g, S \ {x}) = SumFunctionOnSet(f, S \ {x})
    BY <1>1, SumEqual
  <1>3. SumFunctionOnSet(f, S \ {x}) \in Nat
    BY <1>1, SumType
  <1> QED BY <1>2, <1>3, SumRemove

-------------------------------------------------------------------------------
(* The limiters together *)

all == <<vars, clusterVars, dbVars, localVars, quotaVars, sandboxVars, subject>>

\* A step of the limiters is for each of them a step of its own or none.
LEMMA Moves ==
  [LimitersNext]_all =>
    /\ [Next]_vars /\ [Cluster!Next]_Cluster!vars /\ [Db!Next]_Db!vars
    /\ [Local!Next]_Local!vars /\ [Quota!Next]_Quota!vars /\ [Sandbox!Next]_Sandbox!vars
  <1> SUFFICES ASSUME [LimitersNext]_all
      PROVE  /\ [Next]_vars /\ [Cluster!Next]_Cluster!vars /\ [Db!Next]_Db!vars
             /\ [Local!Next]_Local!vars /\ [Quota!Next]_Quota!vars /\ [Sandbox!Next]_Sandbox!vars
    OBVIOUS
  <1>1. Cluster!vars' = Cluster!vars <=> UNCHANGED clusterVars
    BY DEF Cluster!vars, clusterVars, Cluster!counters, Cluster!callers, Cluster!events, Cluster!bounds, Cluster!tallies
  <1>2. Db!vars = dbVars /\ Local!vars = localVars /\ Quota!vars = quotaVars /\ Sandbox!vars = sandboxVars
    BY DEF Db!vars, dbVars, Local!vars, localVars, Quota!vars, quotaVars, Sandbox!vars, sandboxVars
  <1>3. CASE UNCHANGED all
    BY <1>1, <1>3 DEF all, Db!vars, dbVars, Local!vars, localVars, Quota!vars, quotaVars, Sandbox!vars, sandboxVars
  <1>4. CASE LimitersNext
    BY <1>1, <1>4 DEF LimitersNext, Only, Db!vars, dbVars, Local!vars, localVars, Quota!vars, quotaVars, Sandbox!vars, sandboxVars
  <1> QED BY <1>3, <1>4

\* A behaviour of the limiters is a behaviour of each of them.
LEMMA Parts ==
  LimitersSpec => /\ Spec /\ Cluster!Spec /\ Db!Spec /\ Local!Spec /\ Quota!Spec /\ Sandbox!Spec
  <1>1. LimitersInit => Init /\ Cluster!Init /\ Db!Init /\ Local!Init /\ Quota!Init /\ Sandbox!Init
    BY DEF LimitersInit
  <1> QED BY <1>1, Moves, PTL DEF LimitersSpec, all, Spec, Cluster!Spec, Db!Spec, Local!Spec, Quota!Spec, Sandbox!Spec

-------------------------------------------------------------------------------
(* The local limiter of the gateway *)

\* Arithmetic of products, which the provers do not find by themselves.
LEMMA TimesMonotone ==
  ASSUME NEW a \in Nat, NEW x \in Int, NEW y \in Int, x <= y
  PROVE  a * x \in Int /\ a * y \in Int /\ a * x <= a * y
  OBVIOUS

\* One more time.
LEMMA TimesNext ==
  ASSUME NEW a \in Nat, NEW x \in Int
  PROVE  a * (x + 1) = a * x + a /\ a * x \in Int
  OBVIOUS

\* Quotients grow with what is divided.
LEMMA DivMonotone ==
  ASSUME NEW a \in Nat, NEW b \in Nat, a <= b, NEW w \in Nat \ {0}
  PROVE  a \div w \in Nat /\ b \div w \in Nat /\ a \div w <= b \div w
  OBVIOUS

-------------------------------------------------------------------------------
\* An entry of the local limiter
Entries == [tokens: 0 .. Burst * Window, last: Nat, reset: Nat]

\* Entry e, made at bn, covers the g requests it admitted by the time t.
Covers(g, bn, e, t) ==
  /\ e \in Entries
  /\ bn <= e.last /\ e.last <= t
  /\ bn \div Window < e.reset /\ e.reset <= t \div Window + 1
  /\ g * Window + e.tokens <= (Burst * Window) * (e.reset - bn \div Window) + Limit * (e.last - bn)

\* Entries bs, made at bns, cover the requests gs they admitted by the time t.
AllCover(gs, bns, bs, t) ==
  \A b \in 1 .. MaxBuckets :
    IF bs[b] = None THEN gs[b] = 0 ELSE Covers(gs[b], bns[b], bs[b], t)

\* Callers hold entries there are, looked up by the time t.
AllHeld(hs, bs, t) ==
  \A c \in Requests : hs[c] # None =>
    /\ hs[c].entry \in 1 .. MaxBuckets /\ bs[hs[c].entry] # None
    /\ hs[c].at \in Nat /\ hs[c].at <= t

LocalInv ==
  /\ tick \in Nat
  /\ current \in 0 .. MaxBuckets
  /\ buckets \in [1 .. MaxBuckets -> Entries \cup {None}]
  /\ born \in [1 .. MaxBuckets -> Nat] /\ given \in [1 .. MaxBuckets -> Nat]
  /\ \A b \in 1 .. MaxBuckets : born[b] <= tick
  /\ AllCover(given, born, buckets, tick)
  /\ current # 0 => buckets[current] # None
  /\ AllHeld(holds, buckets, tick)

\* The numbers the limiters of the gateway are configured with.
LEMMA FullType == Burst * Window \in Nat /\ Limit \in Nat /\ Burst \in Nat /\ Window \in Nat \ {0}
  BY BoundsAssumption, LimitsAssumption DEF BoundsAssumption, LimitsAssumption

\* What an entry covers it still covers a tick later.
LEMMA CoversLater ==
  ASSUME NEW g \in Nat, NEW bn \in Nat, NEW e, NEW t \in Nat, Covers(g, bn, e, t)
  PROVE  Covers(g, bn, e, t + 1)
  <1>1. t \div Window <= (t + 1) \div Window /\ t \div Window \in Nat /\ (t + 1) \div Window \in Nat
    BY DivMonotone, FullType
  <1>2. e.reset \in Nat /\ e.last \in Nat
    BY DEF Covers, Entries
  <1> QED BY <1>1, <1>2 DEF Covers

\* A full bucket in a later window.
LEMMA CoversRenewed ==
  ASSUME NEW g \in Nat, NEW bn \in Nat, NEW e, NEW t \in Nat, Covers(g, bn, e, t),
         NEW r \in Nat, e.reset < r, r <= t \div Window + 1
  PROVE  Covers(g, bn, [tokens |-> Burst * Window, last |-> t, reset |-> r], t)
  <1> DEFINE F == Burst * Window
             w == bn \div Window
  <1>1. F \in Nat /\ Limit \in Nat /\ w \in Nat /\ e.reset \in Nat /\ e.last \in Nat /\ e.tokens \in Nat
        /\ g * Window \in Nat
    <2>1. w \in Nat /\ g * Window \in Nat
      BY FullType
    <2> QED BY <2>1, FullType DEF Covers, Entries
  <1>2. g * Window + e.tokens <= F * (e.reset - w) + Limit * (e.last - bn)
    BY DEF Covers
  <1>3. bn <= e.last /\ e.last <= t /\ w < e.reset
    BY DEF Covers
  <1> HIDE DEF F, w
  <1>4. F * (e.reset - w + 1) = F * (e.reset - w) + F /\ F * (e.reset - w) \in Int
    BY <1>1, TimesNext
  <1>5. F * (e.reset - w + 1) <= F * (r - w) /\ F * (r - w) \in Int
    BY <1>1, TimesMonotone
  <1>6. Limit * (e.last - bn) <= Limit * (t - bn) /\ Limit * (t - bn) \in Int /\ Limit * (e.last - bn) \in Int
    BY <1>1, <1>3, TimesMonotone
  <1>7. g * Window + F <= F * (r - w) + Limit * (t - bn)
    BY <1>1, <1>2, <1>4, <1>5, <1>6
  <1>8. bn <= t /\ w < r
    BY <1>1, <1>3
  <1> QED BY <1>1, <1>7, <1>8, FullType DEF Covers, Entries, F, w

\* Refilling up to the time t.
LEMMA CoversRefilled ==
  ASSUME NEW g \in Nat, NEW bn \in Nat, NEW e, NEW t \in Nat, Covers(g, bn, e, t)
  PROVE  Covers(g, bn, [e EXCEPT !.tokens = Local!Lesser(Burst * Window, @ + (t - e.last) * Limit),
                                 !.last = t], t)
  <1> DEFINE F == Burst * Window
             w == bn \div Window
             k == Local!Lesser(Burst * Window, e.tokens + (t - e.last) * Limit)
  <1>1. F \in Nat /\ Limit \in Nat /\ w \in Nat /\ e.reset \in Nat /\ e.last \in Nat /\ e.tokens \in Nat
        /\ g * Window \in Nat /\ e \in Entries
    <2>1. w \in Nat /\ g * Window \in Nat
      BY FullType
    <2> QED BY <2>1, FullType DEF Covers, Entries
  <1>2. g * Window + e.tokens <= F * (e.reset - w) + Limit * (e.last - bn)
    BY DEF Covers
  <1>3. bn <= e.last /\ e.last <= t /\ w < e.reset /\ e.reset <= t \div Window + 1
    BY DEF Covers
  <1>4. (t - e.last) * Limit \in Nat
    BY <1>1, <1>3
  <1>5. (t - e.last) * Limit + Limit * (e.last - bn) = Limit * (t - bn) /\ Limit * (e.last - bn) \in Int
    BY <1>1
  <1>6. k \in 0 .. F /\ k <= e.tokens + (t - e.last) * Limit
    BY <1>1, <1>4 DEF Local!Lesser
  <1> HIDE DEF F, w, k
  <1>7. F * (e.reset - w) \in Int
    BY <1>1
  <1>8. g * Window + k <= F * (e.reset - w) + Limit * (t - bn)
    BY <1>1, <1>2, <1>4, <1>5, <1>6, <1>7
  <1> DEFINE d == [e EXCEPT !.tokens = k, !.last = t]
  <1>9. d \in Entries /\ d.tokens = k /\ d.last = t /\ d.reset = e.reset
    BY <1>1, <1>6 DEF Entries, F
  <1> HIDE DEF d
  <1>10. Covers(g, bn, d, t)
    BY <1>1, <1>3, <1>8, <1>9 DEF Covers, F, w
  <1> QED BY <1>10 DEF d, k

\* Taking a token.
LEMMA CoversTaken ==
  ASSUME NEW g \in Nat, NEW bn \in Nat, NEW e, NEW t \in Nat, Covers(g, bn, e, t), e.tokens >= Window
  PROVE  Covers(g + 1, bn, [e EXCEPT !.tokens = @ - Window], t)
  <1> DEFINE d == [e EXCEPT !.tokens = @ - Window]
  <1>1. d \in Entries /\ d.tokens = e.tokens - Window /\ d.last = e.last /\ d.reset = e.reset
    BY FullType DEF Covers, Entries
  <1>2. (g + 1) * Window + (e.tokens - Window) = g * Window + e.tokens
    BY FullType DEF Covers, Entries
  <1> HIDE DEF d
  <1>3. Covers(g + 1, bn, d, t)
    BY <1>1, <1>2 DEF Covers
  <1> QED BY <1>3 DEF d

\* A full bucket made now.
LEMMA CoversMade ==
  ASSUME NEW t \in Nat
  PROVE  Covers(0, t, [tokens |-> Burst * Window, last |-> t, reset |-> t \div Window + 1], t)
  <1> DEFINE F == Burst * Window
             w == t \div Window
  <1>1. F \in Nat /\ w \in Nat /\ Limit \in Nat
    BY FullType
  <1> HIDE DEF F, w
  <1>2. F * (w + 1 - w) = F /\ Limit * (t - t) = 0
    BY <1>1
  <1>3. 0 * Window = 0
    BY FullType
  <1> QED BY <1>1, <1>2, <1>3 DEF Covers, Entries, F, w

\* The bucket a caller finds covers what its entry admitted.
LEMMA FoundCovers ==
  ASSUME LocalInv, NEW c \in Requests, holds[c] # None
  PROVE  Covers(given[holds[c].entry], born[holds[c].entry], Local!Found(c), tick)
  <1> DEFINE b == holds[c].entry
             e == buckets[b]
             r == holds[c].at \div Window + 1
             base == IF r > e.reset
                       THEN [tokens |-> Burst * Window, last |-> tick, reset |-> r] ELSE e
  <1>1. b \in 1 .. MaxBuckets /\ e # None /\ holds[c].at \in Nat /\ holds[c].at <= tick
        /\ tick \in Nat /\ given[b] \in Nat /\ born[b] \in Nat
    BY DEF LocalInv, AllCover, AllHeld
  <1>2. Covers(given[b], born[b], e, tick)
    BY <1>1 DEF LocalInv, AllCover, AllHeld
  <1>3. r \in Nat /\ r <= tick \div Window + 1
    BY <1>1, DivMonotone, FullType
  <1>4. Local!Found(c) =
          [base EXCEPT !.tokens = Local!Lesser(Burst * Window, @ + (tick - base.last) * Limit),
                       !.last = tick]
    BY DEF Local!Found, Local!FullBucket, Local!ResetAt, Local!WindowOf
  <1>5. e.reset \in Nat
    BY <1>2 DEF Covers, Entries
  <1>6. Covers(given[b], born[b], base, tick)
    <2> HIDE DEF e, b, r
    <2>1. CASE r > e.reset
      BY <1>1, <1>2, <1>3, <1>5, <2>1, CoversRenewed
    <2>2. CASE ~(r > e.reset)
      BY <1>2, <2>2
    <2> QED BY <2>1, <2>2
  <1> HIDE DEF base, b
  <1>7. Covers(given[b], born[b],
               [base EXCEPT !.tokens = Local!Lesser(Burst * Window, @ + (tick - base.last) * Limit),
                            !.last = tick], tick)
    <2>1. given[b] \in Nat /\ born[b] \in Nat /\ tick \in Nat
      BY <1>1
    <2> QED BY <1>6, <2>1, CoversRefilled
  <1> QED BY <1>4, <1>7 DEF b

\* Every step of the local limiter keeps what its entries cover.
LEMMA LocalStep == LocalInv /\ [Local!Next]_Local!vars => LocalInv'
  <1> SUFFICES ASSUME LocalInv, [Local!Next]_Local!vars PROVE LocalInv'
    OBVIOUS
  <1>0. \A b \in 1 .. MaxBuckets, e \in Entries : e # None
    BY AbsenceAssumption DEF AbsenceAssumption, Entries
  <1>1. CASE Local!Tick
    <2>1. tick' = tick + 1 /\ tick' \in Nat
          /\ UNCHANGED <<buckets, current, holds, born, given, spike>>
      BY <1>1 DEF Local!Tick, LocalInv
    <2>2. \A b \in 1 .. MaxBuckets : buckets[b] # None
             => Covers(given[b], born[b], buckets[b], tick')
      BY <2>1, CoversLater DEF LocalInv, AllCover, AllHeld
    <2>3. \A b \in 1 .. MaxBuckets : born'[b] <= tick'
      BY <2>1 DEF LocalInv, AllCover, AllHeld
    <2>4. \A c \in Requests : holds[c] # None => holds[c].at <= tick'
      BY <2>1 DEF LocalInv, AllCover, AllHeld
    <2>5. AllCover(given', born', buckets', tick')
      BY <2>1, <2>2 DEF LocalInv, AllCover, AllHeld
    <2>6. AllHeld(holds', buckets', tick')
      BY <2>1, <2>4 DEF LocalInv, AllCover, AllHeld
    <2>7. /\ tick' \in Nat /\ current' \in 0 .. MaxBuckets
          /\ buckets' \in [1 .. MaxBuckets -> Entries \cup {None}]
          /\ born' \in [1 .. MaxBuckets -> Nat] /\ given' \in [1 .. MaxBuckets -> Nat]
          /\ (current' # 0 => buckets'[current'] # None)
      BY <2>1 DEF LocalInv, AllCover, AllHeld
    <2> QED BY <2>3, <2>5, <2>6, <2>7 DEF LocalInv
  <1>2. CASE Local!ForgetBucket
    <2>1. current' = 0 /\ UNCHANGED <<tick, buckets, holds, born, given>> /\ 0 \in 0 .. MaxBuckets
      BY <1>2, BoundsAssumption DEF Local!ForgetBucket, BoundsAssumption
    <2> QED BY <2>1 DEF LocalInv
  <1>3. ASSUME NEW c \in Requests, Local!Lookup(c) PROVE LocalInv'
    <2>1. CASE UNCHANGED <<buckets, current, holds, born, given>>
      BY <1>3, <2>1 DEF Local!Lookup, LocalInv, AllCover, AllHeld
    <2>2. CASE /\ current # 0
               /\ holds' = [holds EXCEPT ![c] = [at |-> tick, entry |-> current]]
               /\ UNCHANGED <<buckets, current, born, given>>
      BY <1>3, <2>2 DEF Local!Lookup, LocalInv, AllCover, AllHeld
    <2>3. ASSUME NEW b \in 1 .. MaxBuckets, buckets[b] = None,
                 buckets' = [buckets EXCEPT ![b] = Local!FullBucket(tick)],
                 born' = [born EXCEPT ![b] = tick], current' = b,
                 holds' = [holds EXCEPT ![c] = [at |-> tick, entry |-> b]],
                 UNCHANGED given
          PROVE  LocalInv'
      <3>1. Local!FullBucket(tick)
              = [tokens |-> Burst * Window, last |-> tick, reset |-> tick \div Window + 1]
        BY DEF Local!FullBucket, Local!ResetAt, Local!WindowOf
      <3>2. given[b] = 0 /\ tick \in Nat
        BY <2>3 DEF LocalInv, AllCover, AllHeld
      <3>3. Covers(0, tick, Local!FullBucket(tick), tick)
        BY <3>1, <3>2, CoversMade
      <3>4. /\ buckets' \in [1 .. MaxBuckets -> Entries \cup {None}]
            /\ born' \in [1 .. MaxBuckets -> Nat]
            /\ buckets'[b] = Local!FullBucket(tick) /\ born'[b] = tick /\ buckets'[b] # None
            /\ \A a \in 1 .. MaxBuckets : a # b => buckets'[a] = buckets[a] /\ born'[a] = born[a]
        BY <1>0, <2>3, <3>2, <3>3 DEF LocalInv, AllCover, AllHeld, Covers
      <3>5. \A d \in Requests : holds'[d] # None =>
              /\ holds'[d].entry \in 1 .. MaxBuckets /\ buckets'[holds'[d].entry] # None
              /\ holds'[d].at \in Nat /\ holds'[d].at <= tick
        BY <2>3, <3>2, <3>4 DEF LocalInv, AllCover, AllHeld
      <3>6. UNCHANGED tick
        BY <1>3 DEF Local!Lookup
      <3>7. \A a \in 1 .. MaxBuckets :
              IF buckets'[a] = None THEN given[a] = 0
              ELSE Covers(given[a], born'[a], buckets'[a], tick)
        BY <3>2, <3>3, <3>4 DEF LocalInv, AllCover, AllHeld
      <3>8. \A a \in 1 .. MaxBuckets : born'[a] <= tick
        BY <3>2, <3>4 DEF LocalInv, AllCover, AllHeld
      <3> QED BY <2>3, <3>4, <3>5, <3>6, <3>7, <3>8 DEF LocalInv, AllCover, AllHeld
    <2> QED BY <1>3, <2>1, <2>2, <2>3 DEF Local!Lookup
  <1>4. ASSUME NEW c \in Requests, Local!UseBucket(c) PROVE LocalInv'
    <2> DEFINE b == holds[c].entry
               e == Local!Found(c)
    <2>1. holds[c] # None /\ b \in 1 .. MaxBuckets /\ buckets[b] # None
      BY <1>4 DEF Local!UseBucket, LocalInv, AllCover, AllHeld
    <2>2. Covers(given[b], born[b], e, tick)
      BY <2>1, FoundCovers
    <2>3. PICK d, g : /\ Covers(g, born[b], d, tick) /\ g \in Nat
                      /\ buckets' = [buckets EXCEPT ![b] = d]
                      /\ given' = [given EXCEPT ![b] = g]
      <3>1. CASE /\ e.tokens >= Window
                 /\ buckets' = [buckets EXCEPT ![b] = [e EXCEPT !.tokens = @ - Window]]
                 /\ given' = [given EXCEPT ![b] = @ + 1]
        <4>1. given[b] \in Nat /\ born[b] \in Nat /\ tick \in Nat
          BY <2>1 DEF LocalInv, AllCover, AllHeld
        <4>2. Covers(given[b] + 1, born[b], [e EXCEPT !.tokens = @ - Window], tick)
          BY <2>2, <3>1, <4>1, CoversTaken
        <4>3. given' = [given EXCEPT ![b] = given[b] + 1] /\ given[b] + 1 \in Nat
          BY <3>1, <4>1
        <4> HIDE DEF e, b
        <4> QED BY <3>1, <4>2, <4>3
      <3>2. CASE buckets' = [buckets EXCEPT ![b] = e] /\ UNCHANGED given
        <4>1. given' = [given EXCEPT ![b] = given[b]] /\ given[b] \in Nat
          BY <2>1, <3>2 DEF LocalInv, AllCover, AllHeld
        <4> HIDE DEF e, b
        <4> QED BY <2>2, <3>2, <4>1
      <3> QED BY <1>4, <3>1, <3>2 DEF Local!UseBucket
    <2>4. d \in Entries /\ d # None
      BY <1>0, <2>1, <2>3 DEF Covers
    <2>5. /\ holds' = [holds EXCEPT ![c] = None]
          /\ UNCHANGED <<tick, current, born>>
      BY <1>4 DEF Local!UseBucket
    <2> HIDE DEF b
    <2>6. /\ buckets' \in [1 .. MaxBuckets -> Entries \cup {None}]
          /\ given' \in [1 .. MaxBuckets -> Nat]
          /\ buckets'[b] = d /\ given'[b] = g
          /\ \A a \in 1 .. MaxBuckets : a # b => buckets'[a] = buckets[a] /\ given'[a] = given[a]
      BY <2>1, <2>3, <2>4 DEF LocalInv, AllCover, AllHeld
    <2>7. \A a \in 1 .. MaxBuckets : buckets[a] # None => buckets'[a] # None
      BY <2>4, <2>6
    <2>8. \A a \in 1 .. MaxBuckets :
            IF buckets'[a] = None THEN given'[a] = 0
            ELSE Covers(given'[a], born[a], buckets'[a], tick)
      BY <2>3, <2>4, <2>6 DEF LocalInv, AllCover, AllHeld
    <2>9. \A r \in Requests : holds'[r] # None =>
            /\ holds'[r].entry \in 1 .. MaxBuckets /\ buckets'[holds'[r].entry] # None
            /\ holds'[r].at \in Nat /\ holds'[r].at <= tick
      BY <2>5, <2>7 DEF LocalInv, AllCover, AllHeld
    <2> QED BY <2>5, <2>6, <2>7, <2>8, <2>9 DEF LocalInv, AllCover, AllHeld
  <1>5. CASE UNCHANGED Local!vars
    BY <1>5 DEF Local!vars, LocalInv
  <1> QED BY <1>1, <1>2, <1>3, <1>4, <1>5 DEF Local!Next

\* No entry is there at the start.
LEMMA LocalStart == Local!Init => LocalInv
  <1> SUFFICES ASSUME Local!Init PROVE LocalInv
    OBVIOUS
  <1>1. /\ tick = 0 /\ current = 0 /\ buckets = [b \in 1 .. MaxBuckets |-> None]
        /\ holds = [c \in Requests |-> None]
        /\ born = [b \in 1 .. MaxBuckets |-> 0] /\ given = [b \in 1 .. MaxBuckets |-> 0]
    BY DEF Local!Init
  <1>2. 0 \in 0 .. MaxBuckets
    BY BoundsAssumption DEF BoundsAssumption
  <1>3. \A b \in 1 .. MaxBuckets : buckets[b] = None /\ given[b] = 0 /\ born[b] = 0
    BY <1>1
  <1>4. \A c \in Requests : holds[c] = None
    BY <1>1
  <1> QED BY <1>1, <1>2, <1>3, <1>4 DEF LocalInv, AllCover, AllHeld

\* What one entry of the local limiter admits is bounded, however late a request that
\* found it in the map uses it.
THEOREM EntriesBounded == LimitersSpec => []EntryBound
  <1>1. LocalInv => EntryBound
    <2> SUFFICES ASSUME LocalInv, NEW b \in 1 .. MaxBuckets
                 PROVE  given[b] * Window
                          <= Burst * Window * (1 + tick \div Window - born[b] \div Window)
                               + Limit * (tick - born[b])
      BY DEF EntryBound, Local!EntryBound, Local!WindowOf
    <2> DEFINE F == Burst * Window
               w == born[b] \div Window
               v == tick \div Window
    <2>1. /\ tick \in Nat /\ born[b] \in Nat /\ given[b] \in Nat /\ born[b] <= tick
          /\ F \in Nat /\ Limit \in Nat
      BY FullType DEF LocalInv, AllCover, AllHeld
    <2>2. w \in Nat /\ v \in Nat /\ w <= v
      BY <2>1, DivMonotone, FullType
    <2>3. CASE buckets[b] = None
      <3>1. given[b] = 0
        BY <2>3 DEF LocalInv, AllCover, AllHeld
      <3>2. given[b] * Window = 0
        BY <3>1, FullType
      <3> HIDE DEF F, w, v
      <3>3. F * (1 + v - w) \in Nat /\ Limit * (tick - born[b]) \in Nat
        BY <2>1, <2>2
      <3> QED BY <3>2, <3>3 DEF F, v, w
    <2>4. CASE buckets[b] # None
      <3> DEFINE e == buckets[b]
      <3>1. Covers(given[b], born[b], e, tick)
        BY <2>4 DEF LocalInv, AllCover, AllHeld
      <3> HIDE DEF e
      <3>2. /\ e.reset \in Nat /\ e.last \in Nat /\ e.tokens \in Nat
            /\ e.reset <= v + 1 /\ e.last <= tick
            /\ given[b] * Window + e.tokens <= F * (e.reset - w) + Limit * (e.last - born[b])
        BY <3>1, FullType DEF Covers, Entries
      <3>3. given[b] * Window \in Nat
        BY <2>1, FullType
      <3> HIDE DEF F, w, v
      <3>4. F * (e.reset - w) <= F * (1 + v - w) /\ F * (e.reset - w) \in Int /\ F * (1 + v - w) \in Int
        BY <2>1, <2>2, <3>2, TimesMonotone
      <3>5. /\ Limit * (e.last - born[b]) <= Limit * (tick - born[b])
            /\ Limit * (e.last - born[b]) \in Int /\ Limit * (tick - born[b]) \in Int
        BY <2>1, <3>2, TimesMonotone
      <3>6. given[b] * Window <= F * (1 + v - w) + Limit * (tick - born[b])
        BY <3>2, <3>3, <3>4, <3>5
      <3> QED BY <3>6 DEF F, v, w
    <2> QED BY <2>3, <2>4
  <1> QED BY Parts, LocalStart, LocalStep, <1>1, PTL DEF Local!Spec

-------------------------------------------------------------------------------
(* The limiter that counts in the database *)

\* The sum over a subset is no larger.
LEMMA SumSubset ==
  ASSUME NEW S, IsFiniteSet(S), NEW f, \A x \in S : f[x] \in Nat, NEW U \in SUBSET S
  PROVE  SumFunctionOnSet(f, U) <= SumFunctionOnSet(f, S)
  <1> DEFINE Bad == {s \in SUBSET S : ~ \A u \in SUBSET s : SumFunctionOnSet(f, u) <= SumFunctionOnSet(f, s)}
  <1>1. SUFFICES ASSUME Bad # {} PROVE FALSE
    OBVIOUS
  <1>2. PICK s \in Bad : \A t \in Bad : ~(t \subseteq s /\ t # s)
    <2>1. Bad \subseteq SUBSET S
      OBVIOUS
    <2> HIDE DEF Bad
    <2> QED BY <1>1, <2>1, LeastSubset
  <1>3. PICK u \in SUBSET s : ~(SumFunctionOnSet(f, u) <= SumFunctionOnSet(f, s))
    OBVIOUS
  <1>4. IsFiniteSet(s) /\ SumFunctionOnSet(f, s) \in Nat
    BY FS_Subset, SumType
  <1>5. u # s
    BY <1>3, <1>4
  <1>6. PICK x \in s : x \notin u
    BY <1>5
  <1>7. SumFunctionOnSet(f, s) = f[x] + SumFunctionOnSet(f, s \ {x})
    BY <1>4, SumRemove
  <1>8. SumFunctionOnSet(f, u) <= SumFunctionOnSet(f, s \ {x})
    <2>1. s \ {x} \in SUBSET S /\ s \ {x} \notin Bad /\ u \in SUBSET (s \ {x})
      BY <1>2, <1>6
    <2> QED BY <2>1
  <1>9. IsFiniteSet(s \ {x}) /\ SumFunctionOnSet(f, s \ {x}) \in Nat /\ f[x] \in Nat
    <2>1. IsFiniteSet(s \ {x})
      BY <1>4, FS_Subset
    <2> QED BY <2>1, SumType
  <1>10. IsFiniteSet(u) /\ SumFunctionOnSet(f, u) \in Nat
    <2>1. u \subseteq S /\ IsFiniteSet(u)
      BY <1>4, FS_Subset
    <2> QED BY <2>1, SumType
  <1> HIDE DEF Bad
  <1> QED BY <1>3, <1>4, <1>7, <1>8, <1>9, <1>10

\* The fold is the same in the instance.
LEMMA DbSum ==
  ASSUME NEW f, NEW S PROVE Db!SumFunctionOnSet(f, S) = SumFunctionOnSet(f, S)
  BY DEF Db!SumFunctionOnSet, Db!FoldFunctionOnSet, Db!MapThenFoldSet,
         SumFunctionOnSet, FoldFunctionOnSet, MapThenFoldSet

\* What the k-th value of the counter gives back to a bucket.
Regrant(i) == 1 + Db!Greater(0, Burst - i)

\* What the first values of the counter give back, one value at a time.
LEMMA RegrantsGrow ==
  /\ \A k \in 0 .. Limit : Db!Regrants(k) \in Nat
  /\ \A k \in 0 .. Limit : \A j \in 0 .. k : Db!Regrants(j) <= Db!Regrants(k)
  /\ \A k \in 0 .. Limit - 1 : Db!Regrants(k + 1) = Db!Regrants(k) + Regrant(k + 1)
  <1> DEFINE f == [i \in 1 .. Limit |-> 1 + Db!Greater(0, Burst - i)]
  <1>1. \A k \in 0 .. Limit : Db!Regrants(k) = SumFunctionOnSet(f, 1 .. k)
    BY DbSum DEF Db!Regrants
  <1>2. Limit \in Nat /\ Burst \in Nat
    BY FullType
  <1>3. \A i \in 1 .. Limit : f[i] \in Nat /\ f[i] = Regrant(i)
    BY <1>2 DEF Regrant, Db!Greater
  <1>4. ASSUME NEW k \in 0 .. Limit PROVE IsFiniteSet(1 .. k) /\ \A i \in 1 .. k : f[i] \in Nat
    <2>1. k \in Int /\ 1 .. k \subseteq 1 .. Limit
      BY <1>2
    <2>2. IsFiniteSet(1 .. k)
      BY <2>1, FS_Interval
    <2> HIDE DEF f
    <2> QED BY <1>3, <2>1, <2>2
  <1> HIDE DEF f
  <1>5. \A k \in 0 .. Limit : SumFunctionOnSet(f, 1 .. k) \in Nat
    BY <1>4, SumType
  <1>6. \A k \in 0 .. Limit : \A j \in 0 .. k :
          SumFunctionOnSet(f, 1 .. j) <= SumFunctionOnSet(f, 1 .. k)
    <2> SUFFICES ASSUME NEW k \in 0 .. Limit, NEW j \in 0 .. k
                 PROVE  SumFunctionOnSet(f, 1 .. j) <= SumFunctionOnSet(f, 1 .. k)
      OBVIOUS
    <2>1. 1 .. j \in SUBSET (1 .. k)
      BY <1>2
    <2> QED BY <1>4, <2>1, SumSubset
  <1>7. \A k \in 0 .. Limit - 1 : SumFunctionOnSet(f, 1 .. k + 1) = SumFunctionOnSet(f, 1 .. k) + f[k + 1]
    <2> SUFFICES ASSUME NEW k \in 0 .. Limit - 1
                 PROVE  SumFunctionOnSet(f, 1 .. k + 1) = SumFunctionOnSet(f, 1 .. k) + f[k + 1]
      OBVIOUS
    <2>1. k + 1 \in 0 .. Limit /\ k \in 0 .. Limit /\ k + 1 \in 1 .. k + 1 /\ k + 1 \in 1 .. Limit
      BY <1>2
    <2>2. (1 .. k + 1) \ {k + 1} = 1 .. k
      BY <2>1
    <2>3. SumFunctionOnSet(f, 1 .. k + 1) = f[k + 1] + SumFunctionOnSet(f, (1 .. k + 1) \ {k + 1})
      <3> DEFINE U == 1 .. k + 1
      <3>1. IsFiniteSet(U) /\ (\A i \in U : f[i] \in Nat) /\ k + 1 \in U
        BY <1>4, <2>1
      <3> HIDE DEF U
      <3>2. SumFunctionOnSet(f, U) = f[k + 1] + SumFunctionOnSet(f, U \ {k + 1})
        BY <3>1, SumRemove
      <3> QED BY <3>2 DEF U
    <2>4. SumFunctionOnSet(f, 1 .. k + 1) = f[k + 1] + SumFunctionOnSet(f, 1 .. k)
      BY <2>2, <2>3
    <2>5. SumFunctionOnSet(f, 1 .. k) \in Nat /\ f[k + 1] \in Nat
      BY <1>3, <1>5, <2>1
    <2> QED BY <2>4, <2>5
  <1>8. \A k \in 0 .. Limit - 1 : k + 1 \in 1 .. Limit /\ k + 1 \in 0 .. Limit /\ k \in 0 .. Limit
    BY <1>2
  <1>9. \A k \in 0 .. Limit - 1 : Db!Regrants(k + 1) = Db!Regrants(k) + Regrant(k + 1)
    BY <1>1, <1>3, <1>7, <1>8
  <1>10. \A k \in 0 .. Limit : \A j \in 0 .. k : j \in 0 .. Limit
    BY <1>2
  <1>11. \A k \in 0 .. Limit : \A j \in 0 .. k : Db!Regrants(j) <= Db!Regrants(k)
    BY <1>1, <1>6, <1>10
  <1> QED BY <1>1, <1>5, <1>9, <1>11

\* Units the database allows for r completed runs of the counter and k of its values.
Allowance(r, k) == Window * (r * Db!Regrants(Limit) + Db!Regrants(k))

\* An allowance is a natural number of units.
LEMMA AllowanceType ==
  ASSUME NEW r \in Nat, NEW k \in 0 .. Limit
  PROVE  Allowance(r, k) \in Nat
  BY RegrantsGrow, FullType DEF Allowance

\* An allowance grows with the deletions and with the counter.
LEMMA AllowanceGrows ==
  ASSUME NEW r \in Nat, NEW s \in Nat, NEW k \in 0 .. Limit, NEW j \in 0 .. Limit,
         r < s \/ (r = s /\ k <= j)
  PROVE  Allowance(r, k) <= Allowance(s, j)
  <1> DEFINE G == Db!Regrants(Limit)
             a == Db!Regrants(k)
             b == Db!Regrants(j)
  <1>1. G \in Nat /\ a \in Nat /\ b \in Nat /\ a <= G /\ (k <= j => a <= b)
    <2>1. Limit \in 0 .. Limit /\ k \in 0 .. Limit /\ (k <= j => k \in 0 .. j)
      BY FullType
    <2> QED BY <2>1, RegrantsGrow
  <1> HIDE DEF G, a, b
  <1>2. r * G \in Nat /\ s * G \in Nat /\ r * G + a \in Nat /\ s * G + b \in Nat
    BY <1>1
  <1>3. r * G + a <= s * G + b
    <2>1. CASE r < s
      <3>1. G * (r + 1) = G * r + G /\ G * (r + 1) <= G * s
        BY <1>1, <2>1, TimesNext, TimesMonotone
      <3>2. G * r = r * G /\ G * s = s * G
        BY <1>1
      <3> QED BY <1>1, <1>2, <3>1, <3>2
    <2>2. CASE r = s /\ k <= j
      BY <1>1, <1>2, <2>2
    <2> QED BY <2>1, <2>2
  <1>4. Window * (r * G + a) <= Window * (s * G + b)
    BY <1>2, <1>3, FullType, TimesMonotone
  <1> QED BY <1>4 DEF Allowance, G, a, b

\* One more value of the counter gives back what it regrants.
LEMMA AllowanceNext ==
  ASSUME NEW r \in Nat, NEW k \in 0 .. Limit - 1
  PROVE  Allowance(r, k + 1) = Allowance(r, k) + Window * Regrant(k + 1)
  <1> DEFINE G == Db!Regrants(Limit)
             a == Db!Regrants(k)
             c == Regrant(k + 1)
  <1>1. Db!Regrants(k + 1) = a + c /\ G \in Nat /\ a \in Nat /\ c \in Nat
    <2>1. Limit \in 0 .. Limit /\ k \in 0 .. Limit
      BY FullType
    <2>2. c \in Nat
      BY FullType DEF Regrant, Db!Greater
    <2> QED BY <2>1, <2>2, RegrantsGrow
  <1> HIDE DEF G, a, c
  <1>2. r * G \in Nat
    BY <1>1
  <1>3. Window * (r * G + (a + c)) = Window * (r * G + a) + Window * c
    BY <1>1, <1>2, FullType
  <1> QED BY <1>1, <1>3 DEF Allowance, G, a, c

-------------------------------------------------------------------------------
\* State of a bucket, and calls under way.
DbStates == [tokens: 0 .. Burst * Window, last: Nat, window: Nat]
DbCalls == [at: Nat, step: {"read", "increment"}, seen: 0 .. Limit]

\* The x requests admitted from bucket s are accounted for by a full bucket, its
\* refill, and the first k values of the counter in a run that was deleted or that
\* has got that far, after at most rs deletions.
Accounted(x, s, c, rs, k) ==
  \E r \in 0 .. rs :
    /\ r < rs \/ k <= c[s.window]
    /\ x * Window + s.tokens
         <= Burst * Window + Limit * (s.last - s.window * Window) + Allowance(r, k)

\* What holds of bucket s and the call cl of a node that admitted x requests.
BucketTrue(x, s, cl, c, rs) ==
  /\ s.window = s.last \div Window
  /\ cl # None => s.last = cl.at
  /\ IF cl # None /\ cl.step = "increment"
       THEN cl.seen < Limit /\ Accounted(x, s, c, rs, cl.seen)
       ELSE \E k \in 0 .. Limit : Accounted(x, s, c, rs, k)

DbType ==
  /\ clock \in 0 .. MaxTicks /\ wiped \in Nat
  /\ count \in [Db!Windows -> Nat]
  /\ state \in [Requests -> DbStates \cup {None}]
  /\ call \in [Requests -> DbCalls \cup {None}]
  /\ spent \in [Requests -> Nat]
  /\ \A d \in Requests : call[d] # None => state[d] # None
  /\ \A d \in Requests : state[d] # None => state[d].last <= clock

AllTrue(x, s, cl, c, rs) ==
  \A d \in Requests : s[d] # None => BucketTrue(x[d], s[d], cl[d], c, rs)

NodesBound(x, rs) ==
  \A d \in Requests : x[d] <= Limit + Burst + (1 + rs) * Db!Regrants(Limit)

DbInv == DbType /\ AllTrue(spent, state, call, count, wiped) /\ NodesBound(spent, wiped)

\* Neither a state of a node nor a call is absent.
LEMMA DbAbsent == (\A s \in DbStates : s # None) /\ (\A cl \in DbCalls : cl # None)
  <1>1. \A cl \in DbCalls : cl \in [at: Nat, step: {"read", "increment"}, seen: Nat]
    BY FullType DEF DbCalls
  <1>2. \A s \in DbStates : s \in [tokens: Nat, last: Nat, window: Nat]
    BY FullType DEF DbStates
  <1> QED BY <1>1, <1>2, AbsenceAssumption DEF AbsenceAssumption

\* The start of a window lies before the time, and less than a window before it.
LEMMA DivBounds ==
  ASSUME NEW t \in Nat, NEW w \in Nat \ {0}
  PROVE  t \div w \in Nat /\ (t \div w) * w \in Nat /\ (t \div w) * w <= t /\ t - (t \div w) * w <= w - 1
  OBVIOUS

\* Later deletions and larger counts account for no less.
LEMMA AccountedLater ==
  ASSUME NEW x \in Nat, NEW s \in DbStates, NEW c, NEW e, NEW rs \in Nat, NEW qs \in Nat,
         NEW k \in 0 .. Limit, Accounted(x, s, c, rs, k),
         rs < qs \/ (rs = qs /\ (k <= c[s.window] => k <= e[s.window]))
  PROVE  Accounted(x, s, e, qs, k)
  BY DEF Accounted

\* A bucket that accounts for its tokens still does after more increments and deletions.
LEMMA BucketTrueLater ==
  ASSUME NEW x \in Nat, NEW s \in DbStates, NEW cl \in DbCalls \cup {None}, NEW c, NEW e,
         NEW rs \in Nat, NEW qs \in Nat,
         BucketTrue(x, s, cl, c, rs), rs < qs \/ (rs = qs /\ \A k \in 0 .. Limit : k <= c[s.window] => k <= e[s.window])
  PROVE  BucketTrue(x, s, cl, e, qs)
  <1>1. \A k \in 0 .. Limit : Accounted(x, s, c, rs, k) => Accounted(x, s, e, qs, k)
    BY AccountedLater
  <1>2. cl # None => cl.seen \in 0 .. Limit
    BY DEF DbCalls
  <1> QED BY <1>1, <1>2 DEF BucketTrue

\* What is accounted for is bounded.
LEMMA AccountedBound ==
  ASSUME NEW x \in Nat, NEW s \in DbStates, NEW c, NEW rs \in Nat, NEW k \in 0 .. Limit,
         s.window = s.last \div Window, Accounted(x, s, c, rs, k)
  PROVE  x <= Limit + Burst + (1 + rs) * Db!Regrants(Limit)
  <1> DEFINE G == Db!Regrants(Limit)
             y == Limit + Burst + (1 + rs) * G
  <1>1. G \in Nat /\ Limit \in Nat /\ Burst \in Nat /\ Window \in Nat \ {0}
    <2>1. Limit \in 0 .. Limit
      BY FullType
    <2> QED BY <2>1, FullType, RegrantsGrow
  <1>2. PICK r \in 0 .. rs : x * Window + s.tokens
          <= Burst * Window + Limit * (s.last - s.window * Window) + Allowance(r, k)
    BY DEF Accounted
  <1>3. Allowance(r, k) <= Allowance(rs, Limit) /\ Allowance(r, k) \in Nat
    <2>1. r \in Nat /\ Limit \in 0 .. Limit /\ (r < rs \/ r = rs) /\ k <= Limit
      BY <1>1
    <2> QED BY <2>1, AllowanceGrows, AllowanceType
  <1>4. /\ s.last \in Nat /\ s.tokens \in Nat /\ s.window * Window \in Nat
        /\ s.last - s.window * Window \in Int /\ s.last - s.window * Window <= Window
    <2>1. s.last \in Nat /\ s.tokens \in Nat
      BY FullType DEF DbStates
    <2> DEFINE S0 == s.window * Window
    <2>2. S0 \in Nat /\ s.last - S0 <= Window - 1
      BY <1>1, <2>1, DivBounds
    <2> HIDE DEF S0
    <2>3. s.last - S0 \in Int /\ s.last - S0 <= Window
      BY <1>1, <2>1, <2>2
    <2> QED BY <2>1, <2>2, <2>3 DEF S0
  <1>5. /\ Limit * (s.last - s.window * Window) <= Limit * Window
        /\ Limit * (s.last - s.window * Window) \in Int /\ Limit * Window \in Int
    BY <1>1, <1>4, TimesMonotone
  <1>6. Allowance(rs, Limit) = Window * (rs * G + G)
    BY DEF Allowance
  <1> HIDE DEF G
  <1>7. rs * G \in Nat /\ (1 + rs) * G = rs * G + G /\ y \in Nat
    BY <1>1
  <1>8. Window * y = Limit * Window + Burst * Window + Window * (rs * G + G)
    <2> DEFINE h == rs * G + G
    <2>1. h \in Nat /\ y = Limit + Burst + h
      BY <1>1, <1>7
    <2> HIDE DEF h, y
    <2>2. Window * y = Limit * Window + Burst * Window + Window * h
      BY <1>1, <2>1
    <2> QED BY <2>2 DEF h
  <1>9. Burst * Window \in Nat /\ x * Window \in Nat /\ Window * (rs * G + G) \in Nat
    BY <1>1, <1>7
  <1>10. x * Window <= Window * y
    BY <1>2, <1>3, <1>4, <1>5, <1>6, <1>8, <1>9
  <1> HIDE DEF y
  <1>11. ~(x >= y + 1)
    <2>1. x >= y + 1 => Window * (y + 1) <= Window * x
      BY <1>1, <1>7, TimesMonotone
    <2>2. Window * (y + 1) = Window * y + Window /\ Window * y \in Int /\ Window * x = x * Window
      BY <1>1, <1>7, TimesNext
    <2> QED BY <1>1, <1>9, <1>10, <2>1, <2>2
  <1> QED BY <1>7, <1>11 DEF y, G

\* A bucket with x admitted requests is renewed in a new window or refilled.
LEMMA RefreshedTrue ==
  ASSUME DbInv, NEW d \in Requests, call[d] = None
  PROVE  LET s == Db!Refreshed(d, clock)
             x == Db!SpentAt(d, clock)
         IN  /\ s \in DbStates /\ x \in Nat /\ s.last = clock /\ s.window = clock \div Window
             /\ \E k \in 0 .. Limit : Accounted(x, s, count, wiped, k)
  <1> DEFINE t == clock
             w == t \div Window
             F == Burst * Window
  <1>1. /\ t \in Nat /\ F \in Nat /\ Limit \in Nat /\ wiped \in Nat /\ w \in Db!Windows
        /\ spent[d] \in Nat /\ count[w] \in Nat /\ w \in Nat /\ w * Window \in Nat /\ w * Window <= t
    <2>1. t \in Nat /\ MaxTicks \in Nat /\ t <= MaxTicks
      BY BoundsAssumption DEF DbInv, DbType, BoundsAssumption
    <2>2. w \in Db!Windows /\ w \in Nat
      BY <2>1, DivMonotone, FullType DEF Db!Windows
    <2>3. w * Window \in Nat /\ w * Window <= t
      BY <2>1, FullType, DivBounds
    <2> HIDE DEF w
    <2> QED BY <2>1, <2>2, <2>3, FullType DEF DbInv, DbType
  <1>2. CASE state[d] = None \/ state[d].window < w
    <2> DEFINE s == [tokens |-> F, last |-> t, window |-> w]
    <2>1. Db!Refreshed(d, clock) = s /\ Db!SpentAt(d, clock) = 0
      BY <1>2 DEF Db!Refreshed, Db!SpentAt, Db!WindowOf
    <2> HIDE DEF w, F
    <2>2. s \in DbStates /\ s.last = t /\ s.window = w /\ s.tokens = F
      BY <1>1 DEF DbStates, F
    <2>3. Accounted(0, s, count, wiped, 0)
      <3> HIDE DEF s
      <3>1. 0 \in 0 .. wiped /\ 0 <= count[s.window] /\ 0 \in 0 .. Limit
        BY <1>1, <2>2
      <3>2. Limit * (t - w * Window) \in Nat /\ Allowance(0, 0) \in Nat /\ 0 * Window = 0
        <4>1. t - w * Window \in Nat
          BY <1>1
        <4> QED BY <1>1, <3>1, <4>1, AllowanceType, FullType
      <3>3. 0 * Window + s.tokens
              <= Burst * Window + Limit * (s.last - s.window * Window) + Allowance(0, 0)
        BY <1>1, <2>2, <3>2 DEF F
      <3> QED BY <3>1, <3>3 DEF Accounted
    <2> HIDE DEF s
    <2>4. 0 \in 0 .. Limit
      BY <1>1
    <2> QED BY <2>1, <2>2, <2>3, <2>4 DEF w
  <1>3. CASE state[d] # None /\ ~(state[d].window < w)
    <2> DEFINE e == state[d]
               n == Db!Lesser(F, e.tokens + (t - e.last) * Limit)
               s == [e EXCEPT !.tokens = n, !.last = t]
    <2>1. Db!Refreshed(d, clock) = s /\ Db!SpentAt(d, clock) = spent[d]
      BY <1>3 DEF Db!Refreshed, Db!SpentAt, Db!WindowOf
    <2>2. e \in DbStates /\ BucketTrue(spent[d], e, call[d], count, wiped) /\ e.last <= t
      BY <1>3 DEF DbInv, DbType, AllTrue
    <2>3. e.last \in Nat /\ e.tokens \in 0 .. F /\ e.window \in Nat /\ e.window = e.last \div Window
      BY <2>2 DEF DbStates, BucketTrue
    <2>4. e.window = w
      <3>1. e.last \div Window <= w
        BY <1>1, <2>2, <2>3, DivMonotone, FullType
      <3> HIDE DEF w, e
      <3> QED BY <1>1, <1>3, <2>3, <3>1 DEF e
    <2>5. PICK k \in 0 .. Limit : Accounted(spent[d], e, count, wiped, k)
      BY <2>2 DEF BucketTrue
    <2> HIDE DEF e, w, F
    <2>6. PICK r \in 0 .. wiped : /\ r < wiped \/ k <= count[e.window]
            /\ spent[d] * Window + e.tokens
                 <= Burst * Window + Limit * (e.last - e.window * Window) + Allowance(r, k)
      BY <2>5 DEF Accounted
    <2>7. (t - e.last) * Limit \in Nat
      BY <1>1, <2>2, <2>3
    <2>8. n \in 0 .. F /\ n <= e.tokens + (t - e.last) * Limit
      BY <1>1, <2>3, <2>7 DEF Db!Lesser
    <2> HIDE DEF n
    <2>9. s \in DbStates /\ s.tokens = n /\ s.last = t /\ s.window = e.window
      BY <1>1, <2>2, <2>8 DEF DbStates, F
    <2> HIDE DEF s
    <2>10. (t - e.last) * Limit + Limit * (e.last - e.window * Window) = Limit * (t - e.window * Window)
           /\ Limit * (e.last - e.window * Window) \in Int
      <3> DEFINE S0 == e.window * Window
      <3>1. S0 \in Nat
        BY <1>1, <2>4
      <3> HIDE DEF S0
      <3>2. (t - e.last) * Limit + Limit * (e.last - S0) = Limit * (t - S0) /\ Limit * (e.last - S0) \in Int
        BY <1>1, <2>3, <3>1
      <3> QED BY <3>2 DEF S0
    <2>11. spent[d] * Window + s.tokens
             <= Burst * Window + Limit * (s.last - s.window * Window) + Allowance(r, k)
      <3>1. spent[d] * Window \in Nat /\ Burst * Window \in Nat /\ Allowance(r, k) \in Nat
        BY <1>1, FullType, AllowanceType
      <3> QED BY <2>3, <2>6, <2>7, <2>8, <2>9, <2>10, <3>1
    <2>12. Accounted(spent[d], s, count, wiped, k)
      BY <2>6, <2>9, <2>11 DEF Accounted
    <2> QED BY <1>1, <2>1, <2>4, <2>9, <2>12 DEF w
  <1> QED BY <1>2, <1>3

\* More deletions, more times the same.
LEMMA MoreTimes ==
  ASSUME NEW g \in Nat, NEW r \in Nat, NEW q \in Nat, r <= q
  PROVE  (1 + r) * g <= (1 + q) * g /\ (1 + r) * g \in Nat /\ (1 + q) * g \in Nat
  <1>1. g * (1 + r) <= g * (1 + q)
    BY TimesMonotone
  <1> QED BY <1>1

\* A step that moves node d, and the counters or the number of deletions forward.
LEMMA DbMove ==
  ASSUME DbInv, NEW d \in Requests, NEW s, NEW x \in Nat, NEW cl \in DbCalls \cup {None},
         state' = [state EXCEPT ![d] = s], spent' = [spent EXCEPT ![d] = x],
         call' = [call EXCEPT ![d] = cl], clock' = clock,
         count' \in [Db!Windows -> Nat], wiped' \in Nat,
         wiped < wiped' \/ (wiped = wiped' /\ \A w \in Db!Windows : count[w] <= count'[w]),
         s = None => x = spent[d] /\ cl = None,
         s # None => s \in DbStates /\ s.last <= clock /\ BucketTrue(x, s, cl, count', wiped')
  PROVE  DbInv'
  <1>1. DbType'
    <2>1. state' \in [Requests -> DbStates \cup {None}] /\ call' \in [Requests -> DbCalls \cup {None}]
          /\ spent' \in [Requests -> Nat]
      BY DEF DbInv, DbType
    <2>2. \A n \in Requests : call'[n] # None => state'[n] # None
      BY DEF DbInv, DbType
    <2>3. \A n \in Requests : state'[n] # None => state'[n].last <= clock'
      BY DEF DbInv, DbType
    <2> QED BY <2>1, <2>2, <2>3 DEF DbInv, DbType
  <1>2. AllTrue(spent', state', call', count', wiped')
    <2> SUFFICES ASSUME NEW n \in Requests, state'[n] # None
                 PROVE  BucketTrue(spent'[n], state'[n], call'[n], count', wiped')
      BY DEF AllTrue
    <2>1. CASE n = d
      BY <2>1 DEF DbInv, DbType
    <2>2. CASE n # d
      <3>1. /\ state'[n] = state[n] /\ spent'[n] = spent[n] /\ call'[n] = call[n]
            /\ state[n] \in DbStates /\ spent[n] \in Nat /\ call[n] \in DbCalls \cup {None}
            /\ BucketTrue(spent[n], state[n], call[n], count, wiped)
            /\ state[n].last <= clock /\ wiped \in Nat /\ clock \in 0 .. MaxTicks
        BY <2>2 DEF DbInv, DbType, AllTrue
      <3> DEFINE w == state[n].window
      <3>2. w \in Db!Windows
        <4>1. w = state[n].last \div Window /\ state[n].last \in Nat /\ state[n].last <= MaxTicks
              /\ MaxTicks \in Nat
          BY <3>1, BoundsAssumption DEF BucketTrue, DbStates, BoundsAssumption
        <4> HIDE DEF w
        <4> QED BY <4>1, DivMonotone, FullType DEF Db!Windows
      <3>3. wiped < wiped' \/ (wiped = wiped' /\ \A k \in 0 .. Limit : k <= count[w] => k <= count'[w])
        <4>1. count[w] \in Nat /\ count'[w] \in Nat
          BY <3>2 DEF DbInv, DbType
        <4> HIDE DEF w
        <4> QED BY <3>2, <4>1
      <3> QED BY <3>1, <3>3, BucketTrueLater
    <2> QED BY <2>1, <2>2
  <1>3. NodesBound(spent', wiped')
    <2> SUFFICES ASSUME NEW n \in Requests
                 PROVE  spent'[n] <= Limit + Burst + (1 + wiped') * Db!Regrants(Limit)
      BY DEF NodesBound
    <2>1. CASE state'[n] # None
      <3>1. BucketTrue(spent'[n], state'[n], call'[n], count', wiped')
        BY <1>2, <2>1 DEF AllTrue
      <3>2. state'[n] \in DbStates /\ spent'[n] \in Nat /\ call'[n] \in DbCalls \cup {None}
        BY <1>1, <2>1 DEF DbType
      <3>3. call'[n] # None => call'[n].seen \in 0 .. Limit
        BY <3>2 DEF DbCalls
      <3>4. PICK k \in 0 .. Limit : Accounted(spent'[n], state'[n], count', wiped', k)
        BY <3>1, <3>3 DEF BucketTrue
      <3>5. state'[n].window = state'[n].last \div Window
        BY <3>1 DEF BucketTrue
      <3> QED BY <3>2, <3>4, <3>5, AccountedBound
    <2>2. CASE state'[n] = None
      <3>1. spent'[n] = spent[n] /\ spent[n] \in Nat /\ wiped \in Nat /\ wiped <= wiped'
        BY <2>2 DEF DbInv, DbType
      <3>2. spent[n] <= Limit + Burst + (1 + wiped) * Db!Regrants(Limit)
        BY DEF DbInv, NodesBound
      <3> DEFINE G == Db!Regrants(Limit)
      <3>3. G \in Nat /\ Limit \in Nat /\ Burst \in Nat
        <4>1. Limit \in 0 .. Limit
          BY FullType
        <4> QED BY <4>1, FullType, RegrantsGrow
      <3> HIDE DEF G
      <3>4. (1 + wiped) * G <= (1 + wiped') * G /\ (1 + wiped) * G \in Nat /\ (1 + wiped') * G \in Nat
        BY <3>1, <3>3, MoreTimes
      <3>5. spent[n] <= Limit + Burst + (1 + wiped) * G
        BY <3>2 DEF G
      <3>6. spent'[n] <= Limit + Burst + (1 + wiped') * G
        BY <3>1, <3>3, <3>4, <3>5
      <3> QED BY <3>6 DEF G
    <2> QED BY <2>1, <2>2
  <1> QED BY <1>1, <1>2, <1>3 DEF DbInv

\* A step of a call that leaves the bucket as it is.
LEMMA DbMoveCall ==
  ASSUME DbInv, NEW d \in Requests, call[d] # None, NEW cl \in DbCalls \cup {None},
         call' = [call EXCEPT ![d] = cl], UNCHANGED <<clock, state, spent, wiped>>,
         count' \in [Db!Windows -> Nat], \A w \in Db!Windows : count[w] <= count'[w],
         BucketTrue(spent[d], state[d], cl, count', wiped)
  PROVE  DbInv'
  <1> DEFINE s == state[d]
             x == spent[d]
  <1>1. /\ state' = [state EXCEPT ![d] = s] /\ spent' = [spent EXCEPT ![d] = x]
        /\ s # None /\ s \in DbStates /\ s.last <= clock /\ x \in Nat
        /\ clock' = clock /\ wiped' = wiped /\ wiped' \in Nat
    BY DEF DbInv, DbType
  <1>2. BucketTrue(x, s, cl, count', wiped')
    BY <1>1
  <1> HIDE DEF s, x
  <1> QED BY <1>1, <1>2, DbMove

\* A token taken from the bucket is a request admitted.
LEMMA TokenSpent ==
  ASSUME NEW x \in Nat, NEW s \in DbStates, NEW c, NEW rs \in Nat, NEW k \in 0 .. Limit,
         Accounted(x, s, c, rs, k), s.tokens >= Window
  PROVE  /\ [s EXCEPT !.tokens = @ - Window] \in DbStates
         /\ Accounted(x + 1, [s EXCEPT !.tokens = @ - Window], c, rs, k)
  <1> DEFINE n == [s EXCEPT !.tokens = @ - Window]
  <1>1. n \in DbStates /\ n.tokens = s.tokens - Window /\ n.last = s.last /\ n.window = s.window
    BY FullType DEF DbStates
  <1>2. (x + 1) * Window + (s.tokens - Window) = x * Window + s.tokens
    BY FullType DEF DbStates
  <1> HIDE DEF n
  <1>3. Accounted(x + 1, n, c, rs, k)
    BY <1>1, <1>2 DEF Accounted
  <1> QED BY <1>1, <1>3 DEF n

\* A value of the counter gives a request and tokens back.
LEMMA CountGives ==
  ASSUME NEW x \in Nat, NEW s \in DbStates, NEW c, NEW e, NEW rs \in Nat, NEW k \in 0 .. Limit - 1,
         Accounted(x, s, c, rs, k), k <= c[s.window] => k + 1 <= e[s.window]
  PROVE  LET n == [s EXCEPT !.tokens = Window * Db!Greater(0, Burst - (k + 1))]
         IN  n \in DbStates /\ Accounted(x + 1, n, e, rs, k + 1)
  <1> DEFINE g == Db!Greater(0, Burst - (k + 1))
             n == [s EXCEPT !.tokens = Window * g]
  <1>1. g \in 0 .. Burst
    BY FullType DEF Db!Greater
  <1> HIDE DEF g
  <1>2. Window * g \in Nat /\ Window * g <= Window * Burst /\ Window * Burst = Burst * Window
    BY <1>1, FullType, TimesMonotone
  <1>3. n \in DbStates /\ n.tokens = Window * g /\ n.last = s.last /\ n.window = s.window
    BY <1>1, <1>2, FullType DEF DbStates
  <1>4. PICK r \in 0 .. rs : /\ r < rs \/ k <= c[s.window]
          /\ x * Window + s.tokens
               <= Burst * Window + Limit * (s.last - s.window * Window) + Allowance(r, k)
    BY DEF Accounted
  <1>5. Allowance(r, k + 1) = Allowance(r, k) + Window * (1 + g)
    BY <1>4, AllowanceNext DEF Regrant, g
  <1>6. Window * (1 + g) = Window + Window * g /\ (x + 1) * Window = x * Window + Window
    BY <1>1, FullType
  <1>7. Allowance(r, k) \in Nat /\ x * Window \in Nat /\ s.tokens \in Nat /\ Window \in Nat
        /\ Limit * (s.last - s.window * Window) \in Int /\ Burst * Window \in Nat
    <2>1. r \in Nat /\ k \in 0 .. Limit
      BY <1>4, FullType
    <2>2. s.last \in Nat /\ s.window \in Nat /\ s.tokens \in Nat
      BY FullType DEF DbStates
    <2>3. s.window * Window \in Nat
      BY <2>2, FullType
    <2>4. s.last - s.window * Window \in Int
      BY <2>2, <2>3
    <2> DEFINE z == s.last - s.window * Window
    <2> HIDE DEF z
    <2>5. Limit * z \in Int
      BY <2>4, FullType DEF z
    <2> QED BY <2>1, <2>2, <2>5, AllowanceType, FullType DEF z
  <1> HIDE DEF n
  <1>8. (x + 1) * Window + n.tokens
          <= Burst * Window + Limit * (n.last - n.window * Window) + Allowance(r, k + 1)
    BY <1>2, <1>3, <1>4, <1>5, <1>6, <1>7
  <1>9. Accounted(x + 1, n, e, rs, k + 1)
    BY <1>3, <1>4, <1>8 DEF Accounted
  <1> QED BY <1>3, <1>9 DEF n, g

\* Every step of the limiter that counts in the database keeps its accounts.
LEMMA DbStep == DbInv /\ [Db!Next]_Db!vars => DbInv'
  <1> SUFFICES ASSUME DbInv, [Db!Next]_Db!vars PROVE DbInv'
    OBVIOUS
  <1>0. clock \in Nat /\ wiped \in Nat /\ count \in [Db!Windows -> Nat] /\ Limit \in Nat /\ Tries \in Nat
    BY BoundsAssumption DEF DbInv, DbType, BoundsAssumption
  <1>1. CASE Db!Tick
    <2>1. clock' \in 0 .. MaxTicks /\ clock' = clock + 1
          /\ UNCHANGED <<count, state, call, spent, wiped>>
      BY <1>1, BoundsAssumption DEF Db!wipes, Db!Tick, DbInv, DbType, BoundsAssumption
    <2>2. \A d \in Requests : state'[d] # None => state'[d].last <= clock'
      <3>1. \A d \in Requests : state[d] # None => state[d].last \in Nat /\ state[d].last <= clock
        BY DEF DbInv, DbType, DbStates
      <3> QED BY <1>0, <2>1, <3>1
    <2>3. DbType'
      BY <2>1, <2>2 DEF DbInv, DbType
    <2>4. AllTrue(spent', state', call', count', wiped') /\ NodesBound(spent', wiped')
      BY <2>1 DEF DbInv
    <2> QED BY <2>3, <2>4 DEF DbInv
  <1>2. ASSUME NEW d \in Requests, Db!AllowWithBurst(d) PROVE DbInv'
    <2> DEFINE s == Db!Refreshed(d, clock)
               x == Db!SpentAt(d, clock)
               n == [s EXCEPT !.tokens = @ - Window]
    <2>1. /\ call[d] = None /\ UNCHANGED <<clock, count, wiped>>
          /\ \/ /\ s.tokens >= Window
                /\ state' = [state EXCEPT ![d] = n] /\ spent' = [spent EXCEPT ![d] = x + 1]
                /\ UNCHANGED call
             \/ /\ state' = [state EXCEPT ![d] = s] /\ spent' = [spent EXCEPT ![d] = x]
                /\ call' = [call EXCEPT ![d] = [at |-> clock, step |-> "read", seen |-> 0]]
      BY <1>2 DEF Db!wipes, Db!AllowWithBurst
    <2>2. /\ s \in DbStates /\ x \in Nat /\ s.last = clock /\ s.window = clock \div Window
          /\ \E k \in 0 .. Limit : Accounted(x, s, count, wiped, k)
      BY <2>1, RefreshedTrue
    <2>3. PICK k \in 0 .. Limit : Accounted(x, s, count, wiped, k)
      BY <2>2
    <2> HIDE DEF s, x
    <2>4. CASE /\ s.tokens >= Window
               /\ state' = [state EXCEPT ![d] = n] /\ spent' = [spent EXCEPT ![d] = x + 1]
               /\ UNCHANGED call
      <3>1. n \in DbStates /\ Accounted(x + 1, n, count, wiped, k)
        BY <1>0, <2>2, <2>3, <2>4, TokenSpent
      <3>2. n.last = clock /\ n.window = clock \div Window
        BY <2>2 DEF DbStates
      <3>3. n # None
        BY <3>1, DbAbsent
      <3> HIDE DEF n
      <3>4. BucketTrue(x + 1, n, None, count', wiped')
        BY <2>1, <3>1, <3>2 DEF BucketTrue
      <3>5. call' = [call EXCEPT ![d] = None]
        BY <2>1, <2>4 DEF DbInv, DbType
      <3>6. n.last <= clock /\ x + 1 \in Nat
        BY <1>0, <2>2, <3>2
      <3>7. /\ wiped = wiped' /\ \A w \in Db!Windows : count[w] <= count'[w]
            /\ count' \in [Db!Windows -> Nat] /\ wiped' \in Nat /\ clock' = clock
        BY <1>0, <2>1
      <3> QED BY <2>4, <3>1, <3>3, <3>4, <3>5, <3>6, <3>7, DbMove
    <2>5. CASE /\ state' = [state EXCEPT ![d] = s] /\ spent' = [spent EXCEPT ![d] = x]
               /\ call' = [call EXCEPT ![d] = [at |-> clock, step |-> "read", seen |-> 0]]
      <3> DEFINE cl == [at |-> clock, step |-> "read", seen |-> 0]
      <3>1. cl \in DbCalls /\ cl.at = clock /\ cl.step # "increment"
        BY <1>0 DEF DbCalls
      <3>2. s # None
        BY <2>2, DbAbsent
      <3> HIDE DEF cl, n
      <3>3. BucketTrue(x, s, cl, count', wiped')
        BY <2>1, <2>2, <2>3, <3>1 DEF BucketTrue
      <3>4. call' = [call EXCEPT ![d] = cl]
        BY <2>5 DEF cl
      <3>5. s.last <= clock
        BY <1>0, <2>2
      <3>6. /\ wiped = wiped' /\ \A w \in Db!Windows : count[w] <= count'[w]
            /\ count' \in [Db!Windows -> Nat] /\ wiped' \in Nat /\ clock' = clock
        BY <1>0, <2>1
      <3> QED BY <2>2, <2>5, <3>1, <3>2, <3>3, <3>4, <3>5, <3>6, DbMove
    <2> QED BY <2>1, <2>4, <2>5
  <1>3. ASSUME NEW d \in Requests, call[d] # None
        PROVE  /\ state[d] # None /\ state[d] \in DbStates /\ spent[d] \in Nat /\ call[d] \in DbCalls
               /\ state[d].last = call[d].at /\ state[d].last <= clock
               /\ state[d].window = call[d].at \div Window /\ state[d].window \in Db!Windows
               /\ call[d].seen \in 0 .. Limit
               /\ BucketTrue(spent[d], state[d], call[d], count, wiped)
               /\ state' = state => state' = [state EXCEPT ![d] = state[d]]
               /\ spent' = spent => spent' = [spent EXCEPT ![d] = spent[d]]
    <2>1. state[d] # None /\ state[d] \in DbStates /\ spent[d] \in Nat /\ call[d] \in DbCalls
          /\ BucketTrue(spent[d], state[d], call[d], count, wiped) /\ state[d].last <= clock
          /\ clock \in 0 .. MaxTicks /\ MaxTicks \in Nat
      BY <1>3, BoundsAssumption DEF DbInv, DbType, AllTrue, BoundsAssumption
    <2>2. state[d].last = call[d].at /\ state[d].window = state[d].last \div Window
      BY <1>3, <2>1 DEF BucketTrue
    <2>3. state[d].last \in Nat /\ state[d].last <= MaxTicks
      BY <2>1 DEF DbStates
    <2>4. state[d].window \in Db!Windows
      BY <2>1, <2>2, <2>3, DivMonotone, FullType DEF Db!Windows
    <2>5. call[d].seen \in 0 .. Limit
      BY <2>1 DEF DbCalls
    <2>6. state = [state EXCEPT ![d] = state[d]] /\ spent = [spent EXCEPT ![d] = spent[d]]
      BY DEF DbInv, DbType
    <2> QED BY <2>1, <2>2, <2>4, <2>5, <2>6
  <1>4. ASSUME NEW d \in Requests, call[d] # None, call' = [call EXCEPT ![d] = None],
               \E k \in 0 .. Limit : Accounted(spent[d], state[d], count, wiped, k),
               UNCHANGED <<clock, count, state, spent, wiped>>
        PROVE  DbInv'
    <2>1. BucketTrue(spent[d], state[d], None, count', wiped)
      BY <1>3, <1>4 DEF BucketTrue
    <2>2. (\A w \in Db!Windows : count[w] <= count'[w]) /\ count' \in [Db!Windows -> Nat]
      BY <1>0, <1>4
    <2> QED BY <1>4, <2>1, <2>2, DbMoveCall
  <1>5. ASSUME NEW d \in Requests, Db!ReadFails(d) PROVE DbInv'
    <2>1. /\ call[d] # None /\ call[d].step = "read" /\ call' = [call EXCEPT ![d] = None]
          /\ UNCHANGED <<clock, count, state, spent, wiped>>
      BY <1>5 DEF Db!wipes, Db!ReadFails
    <2>2. \E k \in 0 .. Limit : Accounted(spent[d], state[d], count, wiped, k)
      BY <1>3, <2>1 DEF BucketTrue
    <2> QED BY <1>4, <2>1, <2>2
  <1>6. ASSUME NEW d \in Requests, Db!ReadCounter(d) PROVE DbInv'
    <2> DEFINE q == count[call[d].at \div Window]
    <2>1. /\ call[d] # None /\ call[d].step = "read"
          /\ call' = [call EXCEPT ![d] = IF q < Limit THEN [@ EXCEPT !.step = "increment", !.seen = q] ELSE None]
          /\ UNCHANGED <<clock, count, state, spent, wiped>>
      BY <1>6 DEF Db!wipes, Db!ReadCounter, Db!WindowOf
    <2>2. PICK k \in 0 .. Limit : Accounted(spent[d], state[d], count, wiped, k)
      BY <1>3, <2>1 DEF BucketTrue
    <2>3. CASE ~(q < Limit)
      <3>1. call' = [call EXCEPT ![d] = None]
        BY <2>1, <2>3
      <3> QED BY <1>4, <2>1, <2>2, <3>1
    <2>4. CASE q < Limit
      <3> DEFINE cl == [call[d] EXCEPT !.step = "increment", !.seen = q]
      <3>1. q \in 0 .. Limit /\ q = count[state[d].window]
        BY <1>0, <1>3, <2>1, <2>4
      <3>2. Accounted(spent[d], state[d], count, wiped, q)
        <4> HIDE DEF q
        <4>1. PICK r \in 0 .. wiped : /\ r < wiped \/ k <= count[state[d].window]
                /\ spent[d] * Window + state[d].tokens
                     <= Burst * Window + Limit * (state[d].last - state[d].window * Window) + Allowance(r, k)
          BY <2>2 DEF Accounted
        <4>2. Allowance(r, k) <= Allowance(wiped, q)
              /\ Allowance(r, k) \in Nat /\ Allowance(wiped, q) \in Nat
          <5>1. r \in Nat /\ (r < wiped \/ (r = wiped /\ k <= q))
            BY <1>0, <3>1, <4>1
          <5> QED BY <1>0, <3>1, <5>1, AllowanceGrows, AllowanceType
        <4>3. spent[d] * Window + state[d].tokens \in Int
              /\ Burst * Window + Limit * (state[d].last - state[d].window * Window) \in Int
          <5>1. /\ state[d].last \in Nat /\ state[d].window \in Nat /\ state[d].tokens \in Nat
                /\ spent[d] \in Nat
            BY <1>3, <2>1, FullType DEF DbStates
          <5> DEFINE z == state[d].last - state[d].window * Window
          <5>2. state[d].window * Window \in Nat
            BY <5>1, FullType
          <5>3. z \in Int
            BY <5>1, <5>2
          <5> HIDE DEF z
          <5>4. Limit * z \in Int /\ Burst * Window \in Nat /\ spent[d] * Window \in Nat
            BY <5>1, <5>3, FullType
          <5> QED BY <5>1, <5>4 DEF z
        <4>4. spent[d] * Window + state[d].tokens
                <= Burst * Window + Limit * (state[d].last - state[d].window * Window) + Allowance(wiped, q)
          BY <4>1, <4>2, <4>3
        <4>5. wiped \in 0 .. wiped /\ q <= count[state[d].window]
          BY <1>0, <3>1
        <4> QED BY <4>4, <4>5 DEF Accounted
      <3>3. cl \in DbCalls /\ cl.at = call[d].at /\ cl.step = "increment" /\ cl.seen = q /\ cl # None
        <4>1. call[d] \in DbCalls /\ q \in 0 .. Limit
          BY <1>3, <2>1, <3>1
        <4> HIDE DEF q
        <4>2. cl \in DbCalls /\ cl.at = call[d].at /\ cl.step = "increment" /\ cl.seen = q
          BY <4>1 DEF DbCalls
        <4> HIDE DEF cl
        <4> QED BY <4>2, DbAbsent
      <3>4. call' = [call EXCEPT ![d] = cl]
        BY <2>1, <2>4
      <3> HIDE DEF q, cl
      <3>5. BucketTrue(spent[d], state[d], cl, count', wiped)
        BY <1>3, <2>1, <2>4, <3>2, <3>3 DEF BucketTrue
      <3>6. (\A w \in Db!Windows : count[w] <= count'[w]) /\ count' \in [Db!Windows -> Nat]
        BY <1>0, <2>1
      <3> QED BY <2>1, <3>3, <3>4, <3>5, <3>6, DbMoveCall
    <2> QED BY <2>3, <2>4
  <1>7. ASSUME NEW d \in Requests, Db!IncrementCounter(d) PROVE DbInv'
    <2> DEFINE w == call[d].at \div Window
               sn == call[d].seen
               n == [state[d] EXCEPT !.tokens = Window * Db!Greater(0, Burst - (sn + 1))]
    <2>1. PICK times \in 0 .. Tries, ok \in BOOLEAN :
            /\ ok => times > 0
            /\ count' = [count EXCEPT ![w] = @ + times]
            /\ IF ok
                 THEN /\ state' = [state EXCEPT ![d].tokens = Window * Db!Greater(0, Burst - (sn + 1)),
                                                ![d].last = call[d].at]
                      /\ spent' = [spent EXCEPT ![d] = @ + 1]
                 ELSE UNCHANGED <<state, spent>>
      BY <1>7 DEF Db!IncrementCounter, Db!WindowOf
    <2>2. /\ call[d] # None /\ call[d].step = "increment" /\ call' = [call EXCEPT ![d] = None]
          /\ UNCHANGED <<clock, wiped>>
      BY <1>7 DEF Db!wipes, Db!IncrementCounter
    <2>3. w \in Db!Windows /\ w = state[d].window
      BY <1>3, <2>2
    <2>4. sn \in 0 .. Limit - 1 /\ Accounted(spent[d], state[d], count, wiped, sn)
      <3>1. sn < Limit /\ Accounted(spent[d], state[d], count, wiped, sn)
        BY <1>3, <2>2 DEF BucketTrue
      <3>2. sn \in 0 .. Limit
        BY <1>3, <2>2
      <3> QED BY <1>0, <3>1, <3>2
    <2> HIDE DEF w
    <2>5. /\ count' \in [Db!Windows -> Nat] /\ wiped' \in Nat /\ clock' = clock /\ wiped' = wiped
          /\ \A v \in Db!Windows : count[v] <= count'[v]
          /\ count'[w] = count[w] + times
      BY <1>0, <2>1, <2>2, <2>3
    <2>6. CASE ok
      <3> HIDE DEF sn
      <3>1. times \in Nat /\ times >= 1
        BY <1>0, <2>1, <2>6
      <3>2. sn <= count[state[d].window] => sn + 1 <= count'[state[d].window]
        <4>1. count[w] \in Nat
          BY <1>0, <2>3
        <4> QED BY <1>0, <2>3, <2>4, <2>5, <3>1, <4>1
      <3>3. n \in DbStates /\ Accounted(spent[d] + 1, n, count', wiped, sn + 1)
        <4>1. state[d] \in DbStates /\ spent[d] \in Nat
          BY <1>3, <2>2
        <4> QED BY <1>0, <2>4, <3>2, <4>1, CountGives
      <3>4. state[d] \in DbStates /\ state[d].last = call[d].at
        BY <1>3, <2>2
      <3>5. state' = [state EXCEPT ![d] = n] /\ n.last = state[d].last /\ n.window = state[d].window
        <4>1. state' = [state EXCEPT ![d].tokens = Window * Db!Greater(0, Burst - (sn + 1)),
                                     ![d].last = call[d].at]
          BY <2>1, <2>6
        <4>2. [state[d] EXCEPT !.tokens = Window * Db!Greater(0, Burst - (sn + 1)), !.last = call[d].at] = n
          BY <3>4 DEF DbStates
        <4>3. state' = [state EXCEPT ![d] = [state[d] EXCEPT !.tokens = Window * Db!Greater(0, Burst - (sn + 1)),
                                                             !.last = call[d].at]]
          BY <4>1
        <4> QED BY <3>4, <4>2, <4>3 DEF DbStates
      <3>6. n # None /\ n.last <= clock /\ spent' = [spent EXCEPT ![d] = spent[d] + 1]
            /\ spent[d] + 1 \in Nat
        <4>1. spent' = [spent EXCEPT ![d] = spent[d] + 1]
          BY <2>1, <2>6
        <4>2. spent[d] \in Nat /\ state[d].last <= clock
          BY <1>3, <2>2
        <4>3. n # None
          BY <3>3, DbAbsent
        <4> QED BY <3>5, <4>1, <4>2, <4>3
      <3> HIDE DEF n
      <3>7. BucketTrue(spent[d] + 1, n, None, count', wiped')
        <4>1. sn + 1 \in 0 .. Limit
          BY <1>0, <2>4
        <4>2. n.window = n.last \div Window
          BY <1>3, <2>2, <3>5
        <4> QED BY <2>5, <3>3, <4>1, <4>2 DEF BucketTrue
      <3> QED BY <2>2, <2>5, <3>3, <3>5, <3>6, <3>7, DbMove
    <2>7. CASE ~ok
      <3>1. UNCHANGED <<state, spent>>
        BY <2>1, <2>7
      <3>2. sn <= count[state[d].window] => sn <= count'[state[d].window]
        <4>1. count[w] \in Nat
          BY <1>0, <2>3
        <4> QED BY <1>0, <2>3, <2>4, <2>5, <4>1
      <3>3. sn \in 0 .. Limit /\ state[d] \in DbStates /\ spent[d] \in Nat
        BY <1>3, <2>2
      <3> HIDE DEF sn
      <3>4. Accounted(spent[d], state[d], count', wiped, sn)
        BY <1>0, <2>4, <3>2, <3>3, AccountedLater
      <3>5. BucketTrue(spent[d], state[d], None, count', wiped)
        BY <1>3, <2>2, <3>3, <3>4 DEF BucketTrue
      <3> HIDE DEF n
      <3> QED BY <2>2, <2>5, <3>1, <3>5, DbMoveCall
    <2> QED BY <2>6, <2>7
  <1>10. ASSUME NEW d \in Requests, Db!ResetThrottleCounter(d) PROVE DbInv'
    <2>1. /\ UNCHANGED <<clock, state, call, spent>>
          /\ count' \in [Db!Windows -> Nat] /\ wiped' \in Nat /\ wiped < wiped'
      BY <1>0, <1>10 DEF Db!ResetThrottleCounter
    <2>2. PICK s, x, cl : s = state[d] /\ x = spent[d] /\ cl = call[d]
      OBVIOUS
    <2>3. /\ state' = [state EXCEPT ![d] = s] /\ spent' = [spent EXCEPT ![d] = x]
          /\ call' = [call EXCEPT ![d] = cl]
          /\ x \in Nat /\ cl \in DbCalls \cup {None}
          /\ s = None => cl = None
          /\ s # None => s \in DbStates /\ s.last <= clock
      BY <2>1, <2>2 DEF DbInv, DbType
    <2>4. ASSUME s # None PROVE BucketTrue(x, s, cl, count', wiped')
      <3>1. BucketTrue(x, s, cl, count, wiped) /\ s \in DbStates
        BY <2>2, <2>3, <2>4 DEF DbInv, AllTrue
      <3> QED BY <1>0, <2>1, <2>3, <3>1, BucketTrueLater
    <2>5. /\ s = None => x = spent[d] /\ cl = None
          /\ s # None => s \in DbStates /\ s.last <= clock /\ BucketTrue(x, s, cl, count', wiped')
          /\ wiped < wiped' \/ (wiped = wiped' /\ \A v \in Db!Windows : count[v] <= count'[v])
      BY <2>1, <2>2, <2>3, <2>4
    <2>6. clock' = clock
      BY <2>1
    <2> QED BY <2>1, <2>3, <2>5, <2>6, DbMove
  <1>8. ASSUME NEW d \in Requests, Db!ResetDb(d) \/ Db!CleanupDb(d) PROVE DbInv'
    <2>1. /\ call[d] = None /\ state' = [state EXCEPT ![d] = None]
          /\ UNCHANGED <<clock, call, spent>>
      BY <1>8 DEF Db!ResetDb, Db!CleanupDb
    <2>2. /\ count' \in [Db!Windows -> Nat] /\ wiped' \in Nat
          /\ wiped < wiped' \/ (wiped = wiped' /\ \A v \in Db!Windows : count[v] <= count'[v])
      <3>1. CASE Db!ResetDb(d)
        BY <1>0, <3>1 DEF Db!ResetDb, Db!wipes
      <3>2. CASE Db!CleanupDb(d)
        BY <1>0, <3>2 DEF Db!CleanupDb, Db!wipes
      <3> QED BY <1>8, <3>1, <3>2
    <2>3. spent' = [spent EXCEPT ![d] = spent[d]] /\ call' = [call EXCEPT ![d] = None] /\ spent[d] \in Nat
      BY <2>1 DEF DbInv, DbType
    <2> QED BY <2>1, <2>2, <2>3, DbMove
  <1>9. CASE UNCHANGED Db!vars
    <2>1. UNCHANGED <<clock, count, state, call, spent, wiped>>
      BY <1>9 DEF Db!vars
    <2>2. DbType'
      BY <2>1 DEF DbInv, DbType
    <2> QED BY <2>1, <2>2 DEF DbInv
  <1> QED BY <1>1, <1>2, <1>5, <1>6, <1>7, <1>8, <1>9, <1>10 DEF Db!Next

\* At the start nothing was spent.
LEMMA DbStart == Db!Init => DbInv
  <1> SUFFICES ASSUME Db!Init PROVE DbInv
    OBVIOUS
  <1>1. /\ clock = 0 /\ wiped = 0 /\ count = [w \in Db!Windows |-> 0]
        /\ state = [d \in Requests |-> None] /\ call = [d \in Requests |-> None]
        /\ spent = [d \in Requests |-> 0]
    BY DEF Db!Init
  <1>2. DbType
    BY <1>1, BoundsAssumption DEF DbType, BoundsAssumption
  <1>3. AllTrue(spent, state, call, count, wiped)
    BY <1>1 DEF AllTrue
  <1>4. NodesBound(spent, wiped)
    <2> SUFFICES ASSUME NEW d \in Requests
                 PROVE  spent[d] <= Limit + Burst + (1 + wiped) * Db!Regrants(Limit)
      BY DEF NodesBound
    <2>1. Limit \in 0 .. Limit
      BY FullType
    <2> DEFINE G == Db!Regrants(Limit)
    <2>2. G \in Nat
      BY <2>1, RegrantsGrow
    <2> HIDE DEF G
    <2>3. 0 <= Limit + Burst + (1 + 0) * G
      BY <2>2, FullType
    <2> QED BY <1>1, <2>3 DEF G
  <1> QED BY <1>2, <1>3, <1>4 DEF DbInv

\* What a node admits in a window by the counter of the database is bounded by the
\* limit, a burst, and what the values of the counter can give back to its bucket,
\* once for the window and once more for every executed deletion of the counters.
THEOREM NodesBounded == LimitersSpec => []NodeBound
  <1>1. DbInv => NodeBound
    BY DEF DbInv, NodesBound, NodeBound, Db!NodeBound
  <1> QED BY Parts, DbStart, DbStep, <1>1, PTL DEF Db!Spec

-------------------------------------------------------------------------------
(* The cluster-wide limiter *)

USE RequestsAssumption DEF RequestsAssumption

\* What the nodes hold of the events of admitted requests.
Held(q, b) == SumFunctionOnSet([n \in Requests |-> q[n] + b[n]], Requests)

\* The fold is the same in the instance.
LEMMA ClusterSum ==
  ASSUME NEW f, NEW S PROVE Cluster!SumFunctionOnSet(f, S) = SumFunctionOnSet(f, S)
  BY DEF Cluster!SumFunctionOnSet, Cluster!FoldFunctionOnSet, Cluster!MapThenFoldSet,
         SumFunctionOnSet, FoldFunctionOnSet, MapThenFoldSet

\* The property in the words of these lemmas, ...
LEMMA Conserved ==
  Cluster!EventsConserved
    <=> admitted = Held(queue, batch) + published + dropped + failed
  BY ClusterSum DEF Cluster!EventsConserved, Held

\* ... and in the next state.
LEMMA ConservedPrimed ==
  Cluster!EventsConserved'
    <=> admitted' = Held(queue', batch') + published' + dropped' + failed'
  BY ClusterSum DEF Cluster!EventsConserved, Held

\* The variables that events are counted in are natural numbers.
EventsType ==
  /\ queue \in [Requests -> Nat] /\ batch \in [Requests -> Nat]
  /\ admitted \in Nat /\ published \in Nat /\ dropped \in Nat /\ failed \in Nat

ConservedInv == EventsType /\ Cluster!EventsConserved

\* A step at one node changes that node's term of the sum.
LEMMA HeldStep ==
  ASSUME EventsType, NEW n \in Requests,
         queue' \in [Requests -> Nat], batch' \in [Requests -> Nat],
         \A m \in Requests \ {n} : queue'[m] = queue[m] /\ batch'[m] = batch[m]
  PROVE  /\ Held(queue', batch') - (queue'[n] + batch'[n]) = Held(queue, batch) - (queue[n] + batch[n])
         /\ Held(queue, batch) \in Nat /\ Held(queue', batch') \in Nat
  <1> DEFINE f == [m \in Requests |-> queue[m] + batch[m]]
             g == [m \in Requests |-> queue'[m] + batch'[m]]
  <1>1. \A m \in Requests : f[m] \in Nat /\ g[m] \in Nat
    BY DEF EventsType
  <1>2. \A m \in Requests \ {n} : g[m] = f[m]
    OBVIOUS
  <1>3. f[n] = queue[n] + batch[n] /\ g[n] = queue'[n] + batch'[n]
    OBVIOUS
  <1>4. Held(queue, batch) = SumFunctionOnSet(f, Requests) /\ Held(queue', batch') = SumFunctionOnSet(g, Requests)
    BY DEF Held
  <1> HIDE DEF f, g
  <1>5. SumFunctionOnSet(g, Requests) - g[n] = SumFunctionOnSet(f, Requests) - f[n]
    BY <1>1, <1>2, SumUpdate
  <1>6. SumFunctionOnSet(g, Requests) \in Nat /\ SumFunctionOnSet(f, Requests) \in Nat
    BY <1>1, SumType
  <1> QED BY <1>3, <1>4, <1>5, <1>6

\* A request that is admitted leaves an event in the queue, or among those dropped.
LEMMA AdmitStep ==
  ASSUME ConservedInv, NEW n \in Requests, NEW before, Cluster!Admit(n, before)
  PROVE  ConservedInv'
  <1>1. \/ queue' = [queue EXCEPT ![n] = @ + 1] /\ UNCHANGED dropped
        \/ dropped' = dropped + 1 /\ UNCHANGED queue
    BY DEF Cluster!Admit, Cluster!publishEvent
  <1>2. EventsType'
    BY <1>1 DEF ConservedInv, EventsType, Cluster!Admit
  <1>3. /\ Held(queue', batch') - (queue'[n] + batch'[n]) = Held(queue, batch) - (queue[n] + batch[n])
        /\ Held(queue, batch) \in Nat /\ Held(queue', batch') \in Nat
    BY <1>1, <1>2, HeldStep DEF ConservedInv, EventsType, Cluster!Admit
  <1>4. admitted = Held(queue, batch) + published + dropped + failed
    BY Conserved DEF ConservedInv
  <1>5. admitted' = admitted + 1 /\ UNCHANGED <<batch, published, failed>>
    BY DEF Cluster!Admit
  <1>6. queue'[n] + batch'[n] + dropped' = queue[n] + batch[n] + dropped + 1
    BY <1>1, <1>5 DEF ConservedInv, EventsType
  <1>7. admitted' = Held(queue', batch') + published' + dropped' + failed'
    BY <1>2, <1>3, <1>4, <1>5, <1>6 DEF ConservedInv, EventsType
  <1> QED BY <1>2, <1>7, ConservedPrimed DEF ConservedInv

\* Every step of the cluster limiter conserves the events.
LEMMA ConservedStep == ConservedInv /\ [Cluster!Next]_Cluster!vars => ConservedInv'
  <1> SUFFICES ASSUME ConservedInv, [Cluster!Next]_Cluster!vars PROVE ConservedInv'
    OBVIOUS
  <1>1. ASSUME UNCHANGED <<queue, batch, admitted, published, dropped, failed>>
        PROVE  ConservedInv'
    BY <1>1 DEF ConservedInv, EventsType, Cluster!EventsConserved
  <1>2. ASSUME NEW n \in Requests, Cluster!Allow(n) PROVE ConservedInv'
    BY <1>1, <1>2, AdmitStep DEF Cluster!Allow, Cluster!events, Cluster!tallies
  <1>3. ASSUME NEW n \in Requests, Cluster!Decide(n) PROVE ConservedInv'
    BY <1>1, <1>3, AdmitStep DEF Cluster!Decide, Cluster!events, Cluster!tallies
  <1>4. ASSUME NEW n \in Requests, Cluster!Collect(n) PROVE ConservedInv'
    <2>1. /\ queue' = [queue EXCEPT ![n] = @ - 1] /\ queue[n] > 0
          /\ batch' = [batch EXCEPT ![n] = @ + 1]
          /\ UNCHANGED <<admitted, published, dropped, failed>>
      BY <1>4 DEF Cluster!Collect, Cluster!tallies
    <2>2. EventsType'
      BY <2>1 DEF ConservedInv, EventsType
    <2>3. /\ Held(queue', batch') - (queue'[n] + batch'[n]) = Held(queue, batch) - (queue[n] + batch[n])
          /\ Held(queue, batch) \in Nat /\ Held(queue', batch') \in Nat
      BY <2>1, <2>2, HeldStep DEF ConservedInv, EventsType
    <2>4. Held(queue', batch') = Held(queue, batch)
      BY <2>1, <2>2, <2>3 DEF ConservedInv, EventsType
    <2> QED BY <2>1, <2>2, <2>4, Conserved, ConservedPrimed DEF ConservedInv
  <1>5. ASSUME NEW n \in Requests, Cluster!flushBatch(n) PROVE ConservedInv'
    <2>1. /\ batch' = [batch EXCEPT ![n] = 0]
          /\ UNCHANGED <<queue, admitted, dropped>>
          /\ \/ published' = published + batch[n] /\ UNCHANGED failed
             \/ failed' = failed + batch[n] /\ UNCHANGED published
      BY <1>5 DEF Cluster!flushBatch
    <2>2. EventsType'
      BY <2>1 DEF ConservedInv, EventsType
    <2>3. /\ Held(queue', batch') - (queue'[n] + batch'[n]) = Held(queue, batch) - (queue[n] + batch[n])
          /\ Held(queue, batch) \in Nat /\ Held(queue', batch') \in Nat
      BY <2>1, <2>2, HeldStep DEF ConservedInv, EventsType
    <2>4. Held(queue', batch') + batch[n] = Held(queue, batch)
      BY <2>1, <2>2, <2>3 DEF ConservedInv, EventsType
    <2>5. admitted = Held(queue, batch) + published + dropped + failed
      BY Conserved DEF ConservedInv
    <2>6. admitted' = Held(queue', batch') + published' + dropped' + failed'
      BY <2>1, <2>2, <2>3, <2>4, <2>5 DEF ConservedInv, EventsType
    <2> QED BY <2>2, <2>6, ConservedPrimed DEF ConservedInv
  <1>6. ASSUME NEW n \in Requests,
               \/ Cluster!GetCounter(n) \/ Cluster!GetCounterFails(n)
               \/ Cluster!SyncIncrement(n) \/ Cluster!SyncOverwrite(n)
               \/ Cluster!ClusterSync(n) \/ Cluster!ClusterTake(n)
               \/ Cluster!ResetLocal(n) \/ Cluster!ResetShared(n)
               \/ Cluster!GetClusterUsage(n) \/ Cluster!WindowEnds(n) \/ Cluster!FlushTick(n)
        PROVE  ConservedInv'
    BY <1>1, <1>6 DEF Cluster!GetCounter, Cluster!GetCounterFails, Cluster!SyncIncrement,
       Cluster!SyncOverwrite, Cluster!ClusterSync, Cluster!ClusterTake, Cluster!ResetLocal,
       Cluster!ResetShared, Cluster!GetClusterUsage, Cluster!WindowEnds, Cluster!FlushTick,
       Cluster!events, Cluster!tallies
  <1>7. CASE UNCHANGED Cluster!vars
    BY <1>1, <1>7 DEF Cluster!vars, Cluster!events, Cluster!tallies
  <1> QED BY <1>2, <1>3, <1>4, <1>5, <1>6, <1>7 DEF Cluster!Next

\* No event is there at the start.
LEMMA ConservedInit == Cluster!Init => ConservedInv
  <1> SUFFICES ASSUME Cluster!Init PROVE ConservedInv
    OBVIOUS
  <1>1. EventsType
    BY DEF Cluster!Init, EventsType
  <1>2. Held(queue, batch) = 0
    <2> DEFINE f == [m \in Requests |-> queue[m] + batch[m]]
    <2>1. \A m \in Requests : f[m] = 0
      <3>1. \A m \in Requests : queue[m] = 0 /\ batch[m] = 0
        BY DEF Cluster!Init
      <3> QED BY <3>1
    <2>2. Held(queue, batch) = SumFunctionOnSet(f, Requests)
      BY DEF Held
    <2> HIDE DEF f
    <2> QED BY <2>1, <2>2, SumZero
  <1>3. admitted = 0 /\ published = 0 /\ dropped = 0 /\ failed = 0
    BY DEF Cluster!Init
  <1>4. admitted = Held(queue, batch) + published + dropped + failed
    BY <1>2, <1>3
  <1> QED BY <1>1, <1>4, Conserved DEF ConservedInv

\* Every event of an admitted request is in one place: in the queue of a node, in
\* its batch, published, dropped at a full queue or lost with a failed flush.
THEOREM EventsAreConserved == LimitersSpec => []EventsConserved
  <1>1. ConservedInv => EventsConserved
    BY DEF ConservedInv, EventsConserved
  <1> QED BY Parts, ConservedInit, ConservedStep, <1>1, PTL DEF Cluster!Spec

\* What is in the shared counter, and what calls have read of it.
SeenInv ==
  /\ store \in Nat /\ published \in Nat /\ syncs \in Nat /\ batch \in [Requests -> Nat]
  /\ store <= published + syncs
  /\ seen \in [Requests -> Nat \cup {None}]
  /\ \A n \in Requests : seen[n] # None => seen[n] <= published + syncs

\* Every step keeps what the nodes have read within what was published and synchronised.
LEMMA SeenStep == ConservedInv /\ SeenInv /\ [Cluster!Next]_Cluster!vars => SeenInv'
  <1> SUFFICES ASSUME ConservedInv, SeenInv, [Cluster!Next]_Cluster!vars PROVE SeenInv'
    OBVIOUS
  <1>0. batch' \in [Requests -> Nat] /\ published' \in Nat
    BY ConservedStep DEF ConservedInv, EventsType
  <1>1. ASSUME NEW n \in Requests,
               \/ Cluster!Allow(n) \/ Cluster!GetCounter(n) \/ Cluster!GetCounterFails(n)
               \/ Cluster!Decide(n) \/ Cluster!SyncOverwrite(n)
               \/ Cluster!ClusterSync(n) \/ Cluster!ClusterTake(n)
               \/ Cluster!ResetLocal(n) \/ Cluster!ResetShared(n)
               \/ Cluster!GetClusterUsage(n) \/ Cluster!WindowEnds(n)
               \/ Cluster!Collect(n) \/ Cluster!FlushTick(n)
        PROVE  /\ UNCHANGED <<published, syncs>>
               /\ store' = store \/ store' = 0
               /\ \/ UNCHANGED seen
                  \/ seen' = [seen EXCEPT ![n] = store]
                  \/ seen' = [seen EXCEPT ![n] = None]
    BY <1>1 DEF Cluster!Allow, Cluster!Admit, Cluster!GetCounter, Cluster!GetCounterFails,
       Cluster!Decide, Cluster!SyncOverwrite, Cluster!ClusterSync, Cluster!ClusterTake,
       Cluster!ResetLocal, Cluster!ResetShared, Cluster!GetClusterUsage, Cluster!WindowEnds,
       Cluster!Collect, Cluster!FlushTick, Cluster!counters, Cluster!callers, Cluster!bounds,
       Cluster!tallies
  <1>2. ASSUME NEW n \in Requests, Cluster!SyncIncrement(n)
        PROVE  /\ UNCHANGED <<published, seen>> /\ store' = store + 1 /\ syncs' = syncs + 1
    BY <1>2 DEF Cluster!SyncIncrement, Cluster!tallies
  <1>3. ASSUME NEW n \in Requests, Cluster!flushBatch(n)
        PROVE  /\ UNCHANGED <<syncs, seen>>
               /\ \/ store' = store + batch[n] /\ published' = published + batch[n]
                  \/ UNCHANGED <<store, published>>
    BY <1>3 DEF Cluster!flushBatch, Cluster!callers, Cluster!bounds
  <1>4. CASE UNCHANGED Cluster!vars
    BY <1>4 DEF SeenInv, Cluster!vars, Cluster!counters, Cluster!callers, Cluster!events,
       Cluster!bounds, Cluster!tallies
  <1>5. ASSUME NEW n \in Requests, UNCHANGED <<published, syncs>>,
               store' = store \/ store' = 0,
               \/ UNCHANGED seen
               \/ seen' = [seen EXCEPT ![n] = store]
               \/ seen' = [seen EXCEPT ![n] = None]
        PROVE  SeenInv'
    <2>1. seen' \in [Requests -> Nat \cup {None}]
      BY <1>5 DEF SeenInv
    <2>2. \A m \in Requests : seen'[m] = seen[m] \/ seen'[m] = store \/ seen'[m] = None
      BY <1>5 DEF SeenInv
    <2> QED BY <1>0, <1>5, <2>1, <2>2 DEF SeenInv
  <1>6. ASSUME NEW n \in Requests, Cluster!SyncIncrement(n) PROVE SeenInv'
    BY <1>0, <1>2, <1>6 DEF SeenInv
  <1>7. ASSUME NEW n \in Requests, Cluster!flushBatch(n) PROVE SeenInv'
    <2>1. batch[n] \in Nat
      BY DEF SeenInv
    <2> QED BY <1>0, <1>3, <1>7, <2>1 DEF SeenInv
  <1> QED BY <1>1, <1>4, <1>5, <1>6, <1>7 DEF Cluster!Next

\* The initial state.
LEMMA SeenInit == Cluster!Init => SeenInv
  BY DEF Cluster!Init, SeenInv

\* A request is refused only when published admissions and rounds of the sync loop
\* have brought the counter to the limit: a stale count never refuses on its own.
THEOREM RefusalsExplained == LimitersSpec => RefusedExplained
  <1>1. ConservedInv /\ SeenInv /\ [Cluster!Next]_Cluster!vars
          => [\A n \in Requests : Cluster!Refuses(n) /\ holder'[n] = "none"
                => published + syncs >= Limit]_Cluster!vars
    BY BoundsAssumption DEF BoundsAssumption, SeenInv, Cluster!Refuses
  <1> QED BY Parts, ConservedInit, ConservedStep, SeenInit, SeenStep, <1>1, PTL
          DEF Cluster!Spec, RefusedExplained, Cluster!RefusedExplained

-------------------------------------------------------------------------------
(* The throttling engine: types and the sliding window *)

USE LimitsAssumption, IdleAssumption, RequestsAssumption, NoneAssumption
    DEF LimitsAssumption, IdleAssumption, RequestsAssumption, NoneAssumption

\* The sum of the limit and of everything that can overshoot it.
Slack == HourLimit + Cardinality(Requests) - 1 + failures

\* The requests that may yet increment the counter of window w.
Coming(w) ==
  {r \in Requests : /\ req[r].window = w
                    /\ \/ At(r, "count")
                       \/ At(r, "previous") /\ req[r].current < HourLimit}

\* What is let through and what may be, together.
ComingBounded == \A w \in Windows : hits[w] + Cardinality(Coming(w)) <= Slack

\* No bucket was refilled in the future.
PastRefills == \A b \in Buckets : bucket[b].last <= now

\* A request that holds a bucket object knows which, and its node.
Holding ==
  \A r \in Requests :
    /\ ~At(r, "idle") => req[r].node \in Nodes
    /\ At(r, "take") => req[r].bucket \in Buckets

\* The inductive invariant.
IInv == TypeOK /\ PastRefills /\ Holding

-------------------------------------------------------------------------------
(* Arithmetic *)

\* A full bucket holds at least one token for each tick of the window.
LEMMA CapacityType == Capacity \in Nat /\ Capacity >= Window
  <1>1. \A a, b \in Nat \ {0} : a * b \in Nat /\ a * b >= b
    OBVIOUS
  <1> QED BY <1>1 DEF Capacity

\* Products of naturals, which the provers do not find by themselves.
LEMMA ProductType == ASSUME NEW a \in Nat, NEW b \in Nat PROVE a * b \in Nat
  OBVIOUS

\* A time lies in a window, at an age within it.
LEMMA WindowType ==
  ASSUME NEW t \in Times
  PROVE  /\ WindowOf(t) \in Windows
         /\ t % Window \in Ages
  <1>1. t \div Window \in Nat /\ t \div Window <= MaxTime \div Window
    BY DEF Times
  <1>2. t % Window \in 0 .. Window - 1
    BY DEF Times
  <1> QED BY <1>1, <1>2 DEF WindowOf, Windows, Ages

\* Refilling ends between empty and full.
LEMMA RefillType ==
  ASSUME TypeOK, PastRefills, NEW b \in Buckets
  PROVE  Refilled(b) \in 0 .. Capacity
  <1>1. /\ now - bucket[b].last \in Nat
        /\ bucket[b].tokens \in Nat
    BY CapacityType DEF TypeOK, PastRefills, Times
  <1>2. (now - bucket[b].last) * BucketLimit \in Nat
    BY <1>1, ProductType
  <1> QED BY <1>1, <1>2, CapacityType DEF Refilled

-------------------------------------------------------------------------------
(* Type correctness *)

\* A step that gives request r a new row of the right type keeps all rows so.
LEMMA RowStep ==
  ASSUME TypeOK, Holding, NEW r \in Requests, NEW row \in Evaluations,
         req' = [req EXCEPT ![r] = row],
         row.at # "idle" => row.node \in Nodes,
         row.at = "take" => row.bucket \in Buckets
  PROVE  req' \in [Requests -> Evaluations] /\ Holding'
  <1>1. req' \in [Requests -> Evaluations]
    BY DEF TypeOK
  <1>2. \A s \in Requests : req'[s] = IF s = r THEN row ELSE req[s]
    BY DEF TypeOK
  <1> QED BY <1>1, <1>2 DEF Holding, At

\* The row of a request.
LEMMA RowOf == ASSUME TypeOK, NEW r \in Requests PROVE req[r] \in Evaluations
  BY DEF TypeOK

\* The row of a request that is not being evaluated.
LEMMA IdleRow == Idle \in Evaluations /\ Idle.at = "idle"
  <1>1. 0 \in Ages /\ 0 \in Windows
    BY WindowType, 0 \div Window = 0 DEF Ages, Times, WindowOf
  <1> QED BY <1>1 DEF Idle, Evaluations, Places

\* A request that is answered.
LEMMA LeaveStep ==
  ASSUME TypeOK, Holding, NEW r \in Requests, Leave(r)
  PROVE  req' \in [Requests -> Evaluations] /\ Holding'
  BY RowStep, IdleRow DEF Leave

\* A request that goes on keeps the rest of its row.
LEMMA GoStep ==
  ASSUME TypeOK, Holding, NEW r \in Requests, NEW where \in Places \ {"idle", "take"},
         Go(r, where), ~At(r, "idle")
  PROVE  req' \in [Requests -> Evaluations] /\ Holding'
  <1> DEFINE row == [req[r] EXCEPT !.at = where]
  <1>1. req[r] \in Evaluations
    BY RowOf
  <1>2. row \in Evaluations /\ row.at = where /\ row.node = req[r].node
    BY <1>1 DEF Evaluations
  <1>3. req' = [req EXCEPT ![r] = row]
    BY DEF Go, TypeOK
  <1>4. row.node \in Nodes
    BY <1>2 DEF Holding
  <1> HIDE DEF row
  <1> QED BY <1>2, <1>3, <1>4, RowStep

\* The initial state.
LEMMA InitInv == Init => IInv
  <1> SUFFICES ASSUME Init PROVE IInv
    OBVIOUS
  <1>1. 0 \in Times /\ 0 \in Ages /\ 0 \in Windows
    BY WindowType, 0 \div Window = 0 DEF Times, Ages, Windows, WindowOf
  <1>2. TypeOK
    BY <1>1, CapacityType, IdleRow DEF Init, TypeOK
  <1>3. PastRefills /\ Holding
    BY DEF Init, PastRefills, Holding, Idle, At
  <1> QED BY <1>2, <1>3 DEF IInv

\* Every step.
LEMMA StepInv == IInv /\ [Next]_vars => IInv'
  <1> SUFFICES ASSUME IInv, [Next]_vars PROVE IInv'
    OBVIOUS
  <1> USE DEF IInv
  <1>0. 0 \in Ages /\ 0 \in Windows /\ now \in Times
    BY WindowType, 0 \div Window = 0 DEF TypeOK, Ages, Times, WindowOf
  <1>1. ASSUME NEW r \in Requests, NEW n \in Nodes, Start(r, n) PROVE IInv'
    <2> DEFINE row == [req[r] EXCEPT !.at = "global", !.node = n]
    <2>1. row \in Evaluations /\ row.at = "global" /\ row.node = n
      BY RowOf DEF Evaluations, Places
    <2>2. req' = [req EXCEPT ![r] = row]
      BY <1>1 DEF Start, TypeOK
    <2> HIDE DEF row
    <2>3. req' \in [Requests -> Evaluations] /\ Holding'
      BY <2>1, <2>2, RowStep
    <2> QED BY <1>1, <2>3 DEF Start, TypeOK, PastRefills
  <1>2. ASSUME NEW r \in Requests, CheckFixedWindow(r) PROVE IInv'
    <2>1. req' \in [Requests -> Evaluations] /\ Holding'
      BY <1>2, LeaveStep, GoStep DEF CheckFixedWindow, At, Places
    <2>2. global' \in 0 .. GlobalLimit + 1
      BY <1>2 DEF CheckFixedWindow, TypeOK
    <2> QED BY <1>2, <2>1, <2>2 DEF CheckFixedWindow, TypeOK, PastRefills
  <1>3. ASSUME NEW r \in Requests, FixedWindowFails(r) PROVE IInv'
    <2>1. req' \in [Requests -> Evaluations] /\ Holding'
      BY <1>3, GoStep DEF FixedWindowFails, At, Places
    <2> QED BY <1>3, <2>1 DEF FixedWindowFails, StoreFails, TypeOK, PastRefills
  <1>4. ASSUME NEW r \in Requests, GetBucket(r) PROVE IInv'
    <2>1. PICK b \in Buckets :
            /\ req' = [req EXCEPT ![r].at = "take", ![r].bucket = b]
            /\ \/ UNCHANGED <<cache, bucket>>
               \/ /\ cache' = [cache EXCEPT ![req[r].node] = b]
                  /\ bucket' = [bucket EXCEPT ![b] = [tokens |-> Capacity, last |-> now]]
      <3>1. req[r].node \in Nodes
        BY <1>4 DEF GetBucket, Holding, At
      <3>2. cache[req[r].node] # "none" => cache[req[r].node] \in Buckets
        BY <3>1 DEF TypeOK
      <3> QED BY <1>4, <3>2 DEF GetBucket
    <2> DEFINE row == [req[r] EXCEPT !.at = "take", !.bucket = b]
    <2>2. row \in Evaluations /\ row.node = req[r].node /\ row.bucket = b
      BY RowOf DEF Evaluations, Places
    <2>3. req' = [req EXCEPT ![r] = row]
      BY <2>1 DEF TypeOK
    <2>4. row.node \in Nodes
      BY <1>4, <2>2 DEF GetBucket, Holding, At
    <2> HIDE DEF row
    <2>5. req' \in [Requests -> Evaluations] /\ Holding'
      BY <2>2, <2>3, <2>4, RowStep
    <2>6. cache' \in [Nodes -> Buckets \cup {"none"}]
      BY <2>1 DEF TypeOK
    <2>7. bucket' \in [Buckets -> [tokens: 0 .. Capacity, last: Times]]
      BY <2>1, <1>0, CapacityType DEF TypeOK
    <2>8. \A c \in Buckets : bucket'[c].last = bucket[c].last \/ bucket'[c].last = now
      BY <2>1 DEF TypeOK
    <2> QED BY <1>4, <2>5, <2>6, <2>7, <2>8, <1>0 DEF GetBucket, TypeOK, PastRefills, Times
  <1>5. ASSUME NEW r \in Requests, TakeToken(r) PROVE IInv'
    <2> DEFINE b == req[r].bucket
               enough == Refilled(b) >= Window
    <2>1. b \in Buckets /\ At(r, "take")
      BY <1>5 DEF TakeToken, Holding
    <2>2. Refilled(b) \in 0 .. Capacity
      BY <2>1, RefillType
    <2>3. enough => Refilled(b) - Window \in 0 .. Capacity
      BY <2>2, CapacityType
    <2>4. PICK tokens \in 0 .. Capacity :
            bucket' = [bucket EXCEPT ![b] = [tokens |-> tokens, last |-> now]]
      BY <1>5, <2>2, <2>3 DEF TakeToken
    <2>5. bucket' \in [Buckets -> [tokens: 0 .. Capacity, last: Times]]
      BY <2>1, <2>4, <1>0 DEF TypeOK
    <2>6. \A c \in Buckets : bucket'[c].last = bucket[c].last \/ bucket'[c].last = now
      BY <2>4 DEF TypeOK
    <2>7. granted' \in [Nodes -> [Ages -> Nat]]
      <3>1. \/ granted' = granted
            \/ granted' = [granted EXCEPT ![req[r].node] = OneMore(@)]
        BY <1>5 DEF TakeToken
      <3>2. req[r].node \in Nodes
        BY <2>1 DEF Holding, At
      <3>3. OneMore(granted[req[r].node]) \in [Ages -> Nat]
        BY <3>2 DEF TypeOK, OneMore
      <3> QED BY <3>1, <3>2, <3>3 DEF TypeOK
    <2>8. req' \in [Requests -> Evaluations] /\ Holding'
      <3>1. CASE Leave(r)
        BY <3>1, LeaveStep
      <3>2. CASE req' = [req EXCEPT ![r].at = "hour", ![r].bucket = "none"]
        <4> DEFINE row == [req[r] EXCEPT !.at = "hour", !.bucket = "none"]
        <4>1. row \in Evaluations /\ row.at = "hour" /\ row.node = req[r].node
          BY RowOf DEF Evaluations, Places
        <4>2. req' = [req EXCEPT ![r] = row]
          BY <3>2 DEF TypeOK
        <4>3. row.node \in Nodes
          BY <2>1, <4>1 DEF Holding, At
        <4> HIDE DEF row
        <4> QED BY <4>1, <4>2, <4>3, RowStep
      <3> QED BY <1>5, <3>1, <3>2 DEF TakeToken
    <2> QED BY <1>5, <2>5, <2>6, <2>7, <2>8, <1>0 DEF TakeToken, TypeOK, PastRefills, Times
  <1>6. ASSUME NEW r \in Requests, ReadCurrentWindow(r) PROVE IInv'
    <2>1. PICK number \in Nat : Measured(r, number)
      BY <1>6, <1>0, WindowType DEF ReadCurrentWindow, TypeOK
    <2>2. failures' \in 0 .. MaxFailures
      BY <1>6 DEF ReadCurrentWindow, StoreFails, TypeOK
    <2> DEFINE row == [req[r] EXCEPT !.at = "previous", !.window = WindowOf(now),
                                     !.elapsed = now % Window, !.current = number]
    <2>3. WindowOf(now) \in Windows /\ now % Window \in Ages
      BY <1>0, WindowType
    <2>4. row \in Evaluations /\ row.at = "previous" /\ row.node = req[r].node
      BY <2>3, RowOf DEF Evaluations, Places
    <2>5. req' = [req EXCEPT ![r] = row]
      BY <2>1 DEF Measured, TypeOK
    <2>6. row.node \in Nodes
      BY <1>6, <2>4 DEF ReadCurrentWindow, Holding, At
    <2> HIDE DEF row
    <2>7. req' \in [Requests -> Evaluations] /\ Holding'
      BY <2>4, <2>5, <2>6, RowStep
    <2> QED BY <1>6, <2>2, <2>7 DEF ReadCurrentWindow, TypeOK, PastRefills
  <1>7. ASSUME NEW r \in Requests, ReadPreviousWindow(r) PROVE IInv'
    <2>1. Leave(r) \/ Go(r, "count")
      BY <1>7 DEF ReadPreviousWindow, Decide
    <2>2. failures' \in 0 .. MaxFailures
      BY <1>7 DEF ReadPreviousWindow, StoreFails, TypeOK
    <2>3. req' \in [Requests -> Evaluations] /\ Holding'
      BY <1>7, <2>1, LeaveStep, GoStep DEF ReadPreviousWindow, At, Places
    <2> QED BY <1>7, <2>2, <2>3 DEF ReadPreviousWindow, TypeOK, PastRefills
  <1>8. ASSUME NEW r \in Requests, CountSlidingWindow(r) PROVE IInv'
    <2>1. hits' \in [Windows -> Nat] /\ failures' \in 0 .. MaxFailures
      BY <1>8 DEF CountSlidingWindow, StoreFails, TypeOK
    <2>2. req' \in [Requests -> Evaluations] /\ Holding'
      BY <1>8, LeaveStep DEF CountSlidingWindow
    <2> QED BY <1>8, <2>1, <2>2 DEF CountSlidingWindow, TypeOK, PastRefills
  <1>9. ASSUME NEW n \in Nodes, CleanupBucket(n) PROVE IInv'
    BY <1>9 DEF CleanupBucket, TypeOK, PastRefills, Holding, At
  <1>10. CASE Tick
    <2>1. now' \in Times /\ now <= now'
      BY <1>10, <1>0 DEF Tick, Times
    <2>2. granted' \in [Nodes -> [Ages -> Nat]]
      <3>1. \A n \in Nodes, i \in Ages : i # 0 => i - 1 \in Ages
        BY DEF Ages
      <3> QED BY <1>10, <3>1 DEF Tick, TypeOK
    <2>3. PastRefills'
      BY <1>10, <2>1, <1>0 DEF Tick, PastRefills, TypeOK, Times
    <2> QED BY <1>10, <2>1, <2>2, <2>3 DEF Tick, TypeOK, Holding, At
  <1>11. CASE UNCHANGED vars
    BY <1>11 DEF vars, TypeOK, PastRefills, Holding, At
  <1> QED BY <1>1, <1>2, <1>3, <1>4, <1>5, <1>6, <1>7, <1>8, <1>9, <1>10, <1>11
          DEF Next, Evaluate

\* The state keeps its types; in particular a bucket never holds more than its
\* capacity, nor a negative number of tokens, whatever the time between refills.
THEOREM TypeCorrect == Spec => []TypeOK
  <1>1. IInv => TypeOK
    BY DEF IInv
  <1> QED BY InitInv, StepInv, <1>1, PTL DEF Spec

-------------------------------------------------------------------------------
(* The sliding window *)

\* The requests on their way to count are finitely many.
LEMMA ComingFinite ==
  ASSUME NEW w
  PROVE  /\ IsFiniteSet(Coming(w))
         /\ Cardinality(Coming(w)) \in Nat
         /\ Cardinality(Coming(w)) <= Cardinality(Requests)
         /\ Cardinality(Requests) \in Nat
  <1>1. Coming(w) \subseteq Requests
    BY DEF Coming
  <1> QED BY <1>1, FS_Subset, FS_CardinalityType

\* And in the next state.
LEMMA ComingPrimed ==
  ASSUME NEW w
  PROVE  /\ IsFiniteSet(Coming(w)')
         /\ Cardinality(Coming(w)') \in Nat
         /\ Cardinality(Coming(w)') <= Cardinality(Requests)
  <1>1. Coming(w)' \subseteq Requests
    BY DEF Coming
  <1> QED BY <1>1, FS_Subset, FS_CardinalityType

\* A step that adds no request to those coming, nor anything to the counters.
LEMMA QuietStep ==
  ASSUME TypeOK, ComingBounded, UNCHANGED hits,
         failures' \in Nat, failures' >= failures,
         \A w \in Windows : Coming(w)' \subseteq Coming(w)
  PROVE  ComingBounded'
  <1> SUFFICES ASSUME NEW w \in Windows
               PROVE  hits[w] + Cardinality(Coming(w)') <= Slack'
    BY DEF ComingBounded
  <1>1. Cardinality(Coming(w)') <= Cardinality(Coming(w))
    BY ComingFinite, FS_Subset
  <1> QED BY <1>1, ComingFinite, ComingPrimed DEF ComingBounded, Slack, TypeOK

\* Every step keeps the bound of every window.
LEMMA BoundStep == TypeOK /\ ComingBounded /\ [Next]_vars => ComingBounded'
  <1> SUFFICES ASSUME TypeOK, ComingBounded, [Next]_vars PROVE ComingBounded'
    OBVIOUS
  <1>0. failures \in Nat /\ \A w \in Windows : hits[w] \in Nat
    BY DEF TypeOK
  <1>1. ASSUME NEW r \in Requests, Evaluate(r), ~At(r, "hour"), ~At(r, "count"),
               ~At(r, "previous")
        PROVE  ComingBounded'
    <2>1. /\ UNCHANGED hits
          /\ failures' \in Nat /\ failures' >= failures
      BY <1>0, <1>1 DEF Evaluate, Start, CheckFixedWindow, FixedWindowFails, StoreFails,
         GetBucket, TakeToken, ReadCurrentWindow, ReadPreviousWindow, CountSlidingWindow
    <2>2. /\ \A s \in Requests \ {r} : req'[s] = req[s]
          /\ req'[r].at \notin {"count", "previous"}
      BY <1>1 DEF Evaluate, Start, CheckFixedWindow, FixedWindowFails, Go, Leave, Idle, At,
         GetBucket, TakeToken, ReadCurrentWindow, ReadPreviousWindow, CountSlidingWindow,
         TypeOK, Evaluations
    <2> QED BY <2>1, <2>2, QuietStep DEF Coming, At
  <1>2. ASSUME NEW r \in Requests, ReadCurrentWindow(r) PROVE ComingBounded'
    <2> DEFINE v == WindowOf(now)
    <2>1. PICK number \in Nat :
            /\ Measured(r, number)
            /\ \/ number = hits[v] /\ failures' = failures
               \/ failures' = failures + 1
      BY <1>0, <1>2, WindowType DEF ReadCurrentWindow, StoreFails, TypeOK
    <2>2. /\ \A s \in Requests \ {r} : req'[s] = req[s]
          /\ req'[r].at = "previous" /\ req'[r].window = v /\ req'[r].current = number
      BY <2>1 DEF Measured, TypeOK, Evaluations
    <2>3. /\ v \in Windows /\ UNCHANGED hits
          /\ \A w \in Windows : r \notin Coming(w)
      BY <1>2, WindowType DEF ReadCurrentWindow, TypeOK, Coming, At
    <2> HIDE DEF v
    <2> SUFFICES ASSUME NEW w \in Windows
                 PROVE  hits[w] + Cardinality(Coming(w)') <= Slack'
      BY <2>3 DEF ComingBounded
    <2>4. CASE r \notin Coming(w)'
      <3>1. Coming(w)' \subseteq Coming(w)
        BY <2>2, <2>4 DEF Coming, At
      <3>2. Cardinality(Coming(w)') <= Cardinality(Coming(w))
        BY <3>1, ComingFinite, FS_Subset
      <3> QED BY <1>0, <2>1, <3>2, ComingFinite, ComingPrimed DEF ComingBounded, Slack
    <2>5. CASE r \in Coming(w)'
      <3>1. w = v /\ number < HourLimit
        BY <2>2, <2>5 DEF Coming, At
      <3>2. Coming(w)' = Coming(w) \cup {r}
        BY <2>2, <2>3, <2>5 DEF Coming, At
      <3>3. Cardinality(Coming(w)') = Cardinality(Coming(w)) + 1
        BY <2>3, <3>2, ComingFinite, FS_AddElement
      <3>4. CASE failures' = failures + 1
        BY <1>0, <3>3, <3>4, ComingFinite DEF ComingBounded, Slack
      <3>5. CASE number = hits[v] /\ failures' = failures
        <4>1. hits[w] <= HourLimit - 1 /\ hits[w] \in Nat
          BY <1>0, <3>1, <3>5
        <4>2. Cardinality(Coming(w)') <= Cardinality(Requests)
              /\ Cardinality(Coming(w)') \in Nat
          BY ComingPrimed
        <4>3. Slack' = HourLimit + Cardinality(Requests) - 1 + failures
          BY <3>5 DEF Slack
        <4>4. Cardinality(Requests) \in Nat
          BY FS_CardinalityType
        <4> QED BY <1>0, <4>1, <4>2, <4>3, <4>4
      <3> QED BY <2>1, <3>4, <3>5
    <2> QED BY <2>4, <2>5
  <1>3. ASSUME NEW r \in Requests, ReadPreviousWindow(r) PROVE ComingBounded'
    <2>1. /\ UNCHANGED hits
          /\ failures' \in Nat /\ failures' >= failures
      BY <1>0, <1>3 DEF ReadPreviousWindow, StoreFails
    <2>2. PICK previous \in Nat : Decide(r, previous)
      <3>1. req[r].window \in Windows
        BY DEF TypeOK, Evaluations
      <3>2. Previous(req[r].window) \in Nat
        <4>1. req[r].window # 0 => req[r].window - 1 \in Windows
          <5>1. WindowOf(MaxTime) \in Int
            BY DEF WindowOf
          <5> QED BY <3>1, <5>1 DEF Windows
        <4> QED BY <1>0, <3>1, <4>1 DEF Previous
      <3> QED BY <1>3, <3>2 DEF ReadPreviousWindow
    <2>3. Estimated(r, previous) >= req[r].current
      <3>1. Window - req[r].elapsed \in Nat /\ req[r].current \in Nat
        BY DEF TypeOK, Evaluations, Ages
      <3>2. previous * (Window - req[r].elapsed) \in Nat
        BY <3>1, ProductType
      <3>3. (previous * (Window - req[r].elapsed)) \div Window \in Nat
        BY <3>2
      <3> QED BY <3>1, <3>3 DEF Estimated
    <2>4. Estimated(r, previous) \in Int
      <3>1. Window - req[r].elapsed \in Nat /\ req[r].current \in Nat
        BY DEF TypeOK, Evaluations, Ages
      <3>2. previous * (Window - req[r].elapsed) \in Nat
        BY <3>1, ProductType
      <3> QED BY <3>1, <3>2 DEF Estimated
    <2>5. \/ Leave(r)
          \/ Go(r, "count") /\ req[r].current < HourLimit
      <3>1. req[r].current \in Nat
        BY DEF TypeOK, Evaluations
      <3> QED BY <2>2, <2>3, <2>4, <3>1 DEF Decide
    <2>6. \A w \in Windows : Coming(w)' \subseteq Coming(w)
      BY <1>3, <2>5 DEF ReadPreviousWindow, Leave, Go, Idle, Coming, At, TypeOK, Evaluations
    <2> QED BY <2>1, <2>6, QuietStep
  <1>4. ASSUME NEW r \in Requests, CountSlidingWindow(r) PROVE ComingBounded'
    <2> DEFINE v == req[r].window
    <2>1. /\ \A s \in Requests \ {r} : req'[s] = req[s]
          /\ req'[r].at = "idle"
      BY <1>4 DEF CountSlidingWindow, Leave, Idle, TypeOK
    <2>2. \A w \in Windows : Coming(w)' = Coming(w) \ {r}
      BY <2>1 DEF Coming, At
    <2>3. v \in Windows /\ r \in Coming(v)
      BY <1>4 DEF CountSlidingWindow, TypeOK, Evaluations, Coming
    <2>4. CASE UNCHANGED hits /\ StoreFails
      <3>1. failures' \in Nat /\ failures' >= failures
        BY <1>0, <2>4 DEF StoreFails
      <3> QED BY <2>2, <2>4, <3>1, QuietStep
    <2>5. CASE hits' = [hits EXCEPT ![v] = @ + 1] /\ UNCHANGED failures
      <3> SUFFICES ASSUME NEW w \in Windows
                   PROVE  hits'[w] + Cardinality(Coming(w)') <= Slack'
        BY DEF ComingBounded
      <3>1. CASE w = v
        <4>1. Cardinality(Coming(w)') = Cardinality(Coming(w)) - 1
          BY <2>2, <2>3, <3>1, ComingFinite, FS_RemoveElement
        <4>2. hits'[w] = hits[w] + 1
          BY <2>3, <2>5, <3>1 DEF TypeOK
        <4> QED BY <1>0, <2>5, <4>1, <4>2, ComingFinite DEF ComingBounded, Slack
      <3>2. CASE w # v
        <4>1. Cardinality(Coming(w)') <= Cardinality(Coming(w))
          BY <2>2, ComingFinite, FS_Subset
        <4>2. hits'[w] = hits[w]
          BY <2>3, <2>5, <3>2 DEF TypeOK
        <4> QED BY <1>0, <2>5, <4>1, <4>2, ComingFinite, ComingPrimed
                DEF ComingBounded, Slack
      <3> QED BY <3>1, <3>2
    <2> QED BY <1>4, <2>4, <2>5 DEF CountSlidingWindow
  <1>5. ASSUME UNCHANGED <<hits, failures, req>> PROVE ComingBounded'
    BY <1>0, <1>5, QuietStep DEF Coming, At
  <1>6. ASSUME NEW r \in Requests, Evaluate(r) PROVE ComingBounded'
    <2>1. CASE At(r, "hour")
      BY <1>2, <1>6, <2>1 DEF Evaluate, Start, CheckFixedWindow, FixedWindowFails, At,
         GetBucket, TakeToken, ReadPreviousWindow, CountSlidingWindow
    <2>2. CASE At(r, "previous")
      BY <1>3, <1>6, <2>2 DEF Evaluate, Start, CheckFixedWindow, FixedWindowFails, At,
         GetBucket, TakeToken, ReadCurrentWindow, CountSlidingWindow
    <2>3. CASE At(r, "count")
      BY <1>4, <1>6, <2>3 DEF Evaluate, Start, CheckFixedWindow, FixedWindowFails, At,
         GetBucket, TakeToken, ReadCurrentWindow, ReadPreviousWindow
    <2> QED BY <1>1, <1>6, <2>1, <2>2, <2>3
  <1> QED BY <1>5, <1>6 DEF Next, CleanupBucket, Tick, vars

\* The counter of a sliding window passes its limit by at most one less than the
\* number of requests evaluated at the same time, and one for every failure of
\* the store: what reading before incrementing costs, and no more.
THEOREM SlidingBounded == Spec => []SlidingBound
  <1>1. Init => ComingBounded
    <2> SUFFICES ASSUME Init, NEW w \in Windows
                 PROVE  hits[w] + Cardinality(Coming(w)) <= Slack
      BY DEF ComingBounded
    <2>1. hits[w] = 0 /\ failures = 0
      BY DEF Init
    <2> QED BY <2>1, ComingFinite DEF Slack
  <1>2. TypeOK /\ ComingBounded => SlidingBound
    BY ComingFinite DEF ComingBounded, SlidingBound, Slack, TypeOK
  <1> QED BY TypeCorrect, BoundStep, <1>1, <1>2, PTL DEF Spec

-------------------------------------------------------------------------------
(* The token bucket *)

\* The requests evaluated at the same time.
Crowd == Cardinality(Requests)

\* The tokens of a bucket once refilled at time t.
Fill(bk, t) ==
  LET full == bk.tokens + (t - bk.last) * BucketLimit
  IN  IF full > Capacity THEN Capacity ELSE full

\* The requests that hold a bucket of node n that is no longer c, the cached one.
Orphans(q, c, n) == {r \in Requests : q[r].at = "take" /\ q[r].node = n /\ q[r].bucket # c}

\* What a node granted by age, its cached bucket and o requests that hold another.
Fits(c, g, bk, t, o) ==
  \A j \in Ages :
    IF c = "none" THEN g[j] + o <= 2 * Crowd - 1
    ELSE /\ o <= Crowd - 1
         /\ g[j] * Window + Fill(bk, t) + Window * o <= Capacity + j * BucketLimit + Window * (2 * Crowd - 1)
         /\ bk.last < t - j => g[j] + o <= Crowd - 1

\* The cached bucket of a node is no other node's, nor held by its requests.
Owned ==
  \A n \in Nodes : cache[n] # "none" =>
    /\ \A m \in Nodes \ {n} : cache[m] # cache[n]
    /\ \A r \in Requests : At(r, "take") /\ req[r].node # n => req[r].bucket # cache[n]

NodesFit ==
  \A n \in Nodes : Fits(cache[n], granted[n], bucket[cache[n]], now,
                        Cardinality(Orphans(req, cache[n], n)))

BucketInv ==
  /\ IInv
  /\ Owned
  /\ Requests # {} => NodesFit
  /\ Requests = {} => \A n \in Nodes, j \in Ages : granted[n][j] = 0

BucketRecord == [tokens: 0 .. Capacity, last: Times]

\* A refilled bucket holds no more than its capacity.
LEMMA FillType ==
  ASSUME NEW bk \in BucketRecord, NEW t \in Nat, bk.last <= t
  PROVE  Fill(bk, t) \in 0 .. Capacity
  <1>1. t - bk.last \in Nat /\ bk.tokens \in Nat
    BY CapacityType DEF BucketRecord, Times
  <1>2. (t - bk.last) * BucketLimit \in Nat
    BY <1>1, ProductType
  <1> QED BY <1>1, <1>2, CapacityType DEF Fill

\* A bucket that was refilled just now is not refilled any further.
LEMMA FillNow ==
  ASSUME NEW x \in 0 .. Capacity, NEW t \in Nat
  PROVE  Fill([tokens |-> x, last |-> t], t) = x
  <1>1. (t - t) * BucketLimit = 0
    OBVIOUS
  <1> QED BY <1>1, CapacityType DEF Fill

\* A tick refills at most the rate of the bucket.
LEMMA FillTick ==
  ASSUME NEW bk \in BucketRecord, NEW t \in Nat, bk.last <= t
  PROVE  Fill(bk, t + 1) <= Fill(bk, t) + BucketLimit
  <1> DEFINE e == t - bk.last
             p == e * BucketLimit
             q == (e + 1) * BucketLimit
  <1>1. e \in Nat /\ bk.tokens \in Nat /\ (t + 1) - bk.last = e + 1
    BY CapacityType DEF BucketRecord, Times
  <1>2. p \in Nat /\ q = p + BucketLimit
    <2> HIDE DEF e
    <2> QED BY <1>1
  <1>3. Fill(bk, t) = (IF bk.tokens + p > Capacity THEN Capacity ELSE bk.tokens + p)
    BY DEF Fill
  <1>4. Fill(bk, t + 1) = (IF bk.tokens + q > Capacity THEN Capacity ELSE bk.tokens + q)
    BY <1>1 DEF Fill
  <1> HIDE DEF e, p, q
  <1> QED BY <1>1, <1>2, <1>3, <1>4, CapacityType

\* At least one request is evaluated, if there is any at all.
LEMMA SomeRequests == Requests # {} => Crowd \in Nat /\ Crowd >= 1
  <1>1. Crowd \in Nat
    BY FS_CardinalityType DEF Crowd
  <1>2. Crowd = 0 => Requests = {}
    BY FS_EmptySet DEF Crowd
  <1> QED BY <1>1, <1>2

\* The requests that hold a dropped bucket are finitely many, and fewer than all
\* if one request is not among them.
LEMMA OrphansCount ==
  ASSUME NEW q, NEW c, NEW n
  PROVE  /\ IsFiniteSet(Orphans(q, c, n)) /\ Cardinality(Orphans(q, c, n)) \in Nat
         /\ Cardinality(Orphans(q, c, n)) <= Crowd
         /\ \A r \in Requests : r \notin Orphans(q, c, n) => Cardinality(Orphans(q, c, n)) <= Crowd - 1
  <1> DEFINE O == Orphans(q, c, n)
  <1>1. O \in SUBSET Requests
    BY DEF Orphans
  <1> HIDE DEF O
  <1>2. IsFiniteSet(O) /\ Cardinality(O) \in Nat /\ Cardinality(O) <= Crowd /\ Crowd \in Nat
    BY <1>1, FS_Subset, FS_CardinalityType DEF Crowd
  <1>3. ASSUME NEW r \in Requests, r \notin O PROVE Cardinality(O) <= Crowd - 1
    <2>1. O \in SUBSET (Requests \ {r})
      BY <1>1, <1>3
    <2>2. IsFiniteSet(Requests \ {r}) /\ Cardinality(Requests \ {r}) = Crowd - 1
      BY FS_RemoveElement DEF Crowd
    <2> QED BY <2>1, <2>2, FS_Subset
  <1> QED BY <1>2, <1>3 DEF O

-------------------------------------------------------------------------------
\* The cached bucket gives a token.
LEMMA FitsGrant ==
  ASSUME Crowd \in Nat, Crowd >= 1, NEW c, c # "none", NEW g \in [Ages -> Nat], NEW bk \in BucketRecord,
         NEW t \in Times, bk.last <= t, NEW o \in Nat, Fits(c, g, bk, t, o), Fill(bk, t) >= Window
  PROVE  Fits(c, OneMore(g), [tokens |-> Fill(bk, t) - Window, last |-> t], t, o)
  <1> DEFINE f == Fill(bk, t)
             b2 == [tokens |-> f - Window, last |-> t]
  <1>0. t \in Nat
    BY DEF Times
  <1>1. f \in 0 .. Capacity /\ f - Window \in 0 .. Capacity
    BY <1>0, FillType, CapacityType
  <1>2. Fill(b2, t) = f - Window
    <2> HIDE DEF f
    <2> QED BY <1>0, <1>1, FillNow
  <1>3. b2.last = t
    OBVIOUS
  <1> HIDE DEF b2
  <1> SUFFICES ASSUME NEW j \in Ages
      PROVE  /\ o <= Crowd - 1
             /\ OneMore(g)[j] * Window + Fill(b2, t) + Window * o
                  <= Capacity + j * BucketLimit + Window * (2 * Crowd - 1)
             /\ ~(b2.last < t - j)
    BY DEF Fits, b2
  <1>4. /\ o <= Crowd - 1
        /\ g[j] * Window + f + Window * o <= Capacity + j * BucketLimit + Window * (2 * Crowd - 1)
    BY DEF Fits
  <1>5. j \in Nat /\ ~(b2.last < t - j)
    BY <1>0, <1>3 DEF Ages
  <1>6. OneMore(g)[j] = g[j] + 1 /\ g[j] \in Nat
    BY DEF OneMore
  <1>7. (g[j] + 1) * Window = g[j] * Window + Window /\ g[j] * Window \in Nat /\ Window * o \in Nat
    BY <1>6, ProductType
  <1>8. Capacity + j * BucketLimit + Window * (2 * Crowd - 1) \in Int
    <2>1. j * BucketLimit \in Nat /\ 2 * Crowd - 1 \in Nat
      BY <1>5, ProductType
    <2>2. Window * (2 * Crowd - 1) \in Nat
      BY <2>1, ProductType
    <2> QED BY <2>1, <2>2, CapacityType
  <1> DEFINE z == Capacity + j * BucketLimit + Window * (2 * Crowd - 1)
             a == g[j] * Window
             w == Window * o
  <1> HIDE DEF f, z, a, w
  <1>9. (a + Window) + (f - Window) + w <= z
    <2>1. a + f + w <= z
      BY <1>4 DEF z, a, w, f
    <2>2. a \in Nat /\ w \in Nat /\ z \in Int /\ f \in Nat
      BY <1>1, <1>7, <1>8, CapacityType DEF z, a, w
    <2> QED BY <2>1, <2>2
  <1> QED BY <1>2, <1>4, <1>5, <1>6, <1>7, <1>9 DEF z, a, w

\* The cached bucket has no token.
LEMMA FitsRefuse ==
  ASSUME Crowd \in Nat, Crowd >= 1, NEW c, c # "none", NEW g \in [Ages -> Nat], NEW bk \in BucketRecord,
         NEW t \in Times, bk.last <= t, NEW o \in Nat, Fits(c, g, bk, t, o)
  PROVE  Fits(c, g, [tokens |-> Fill(bk, t), last |-> t], t, o)
  <1> DEFINE f == Fill(bk, t)
             b2 == [tokens |-> f, last |-> t]
  <1>0. t \in Nat
    BY DEF Times
  <1>1. f \in 0 .. Capacity
    BY <1>0, FillType
  <1>2. Fill(b2, t) = f /\ b2.last = t
    <2> HIDE DEF f
    <2> QED BY <1>0, <1>1, FillNow
  <1> HIDE DEF b2
  <1> SUFFICES ASSUME NEW j \in Ages
      PROVE  /\ o <= Crowd - 1
             /\ g[j] * Window + Fill(b2, t) + Window * o <= Capacity + j * BucketLimit + Window * (2 * Crowd - 1)
             /\ ~(b2.last < t - j)
    BY DEF Fits, b2
  <1>4. /\ o <= Crowd - 1
        /\ g[j] * Window + f + Window * o <= Capacity + j * BucketLimit + Window * (2 * Crowd - 1)
    BY DEF Fits
  <1>5. j \in Nat /\ ~(b2.last < t - j)
    BY <1>0, <1>2 DEF Ages
  <1> QED BY <1>2, <1>4, <1>5

\* A request takes from a bucket that is not cached, and is an orphan no longer.
LEMMA FitsOrphan ==
  ASSUME Crowd \in Nat, Crowd >= 1, NEW c, NEW g \in [Ages -> Nat], NEW bk, c # "none" => bk \in BucketRecord,
         NEW t \in Times, c # "none" => bk.last <= t, NEW o \in Nat, NEW o2 \in Nat, o = o2 + 1,
         Fits(c, g, bk, t, o), NEW h, h = g \/ h = OneMore(g)
  PROVE  Fits(c, h, bk, t, o2)
  <1> SUFFICES ASSUME NEW j \in Ages
      PROVE  IF c = "none" THEN h[j] + o2 <= 2 * Crowd - 1
             ELSE /\ o2 <= Crowd - 1
                  /\ h[j] * Window + Fill(bk, t) + Window * o2
                       <= Capacity + j * BucketLimit + Window * (2 * Crowd - 1)
                  /\ bk.last < t - j => h[j] + o2 <= Crowd - 1
    BY DEF Fits
  <1>1. g[j] \in Nat /\ (h[j] = g[j] \/ h[j] = g[j] + 1)
    BY DEF OneMore
  <1>2. h[j] \in Nat /\ h[j] + o2 <= g[j] + o
    BY <1>1
  <1>3. CASE c = "none"
    BY <1>1, <1>2, <1>3 DEF Fits
  <1>4. CASE c # "none"
    <2>1. /\ o <= Crowd - 1
          /\ g[j] * Window + Fill(bk, t) + Window * o <= Capacity + j * BucketLimit + Window * (2 * Crowd - 1)
          /\ bk.last < t - j => g[j] + o <= Crowd - 1
      BY <1>4 DEF Fits
    <2>2. Fill(bk, t) \in Nat
      BY <1>4, FillType, CapacityType DEF Times
    <2>3. j \in Nat
      BY DEF Ages
    <2>4. Capacity + j * BucketLimit + Window * (2 * Crowd - 1) \in Int
      <3>1. j * BucketLimit \in Nat /\ 2 * Crowd - 1 \in Nat
        BY <2>3, ProductType
      <3>2. Window * (2 * Crowd - 1) \in Nat
        BY <3>1, ProductType
      <3> QED BY <3>1, <3>2, CapacityType
    <2> DEFINE z == Capacity + j * BucketLimit + Window * (2 * Crowd - 1)
               f == Fill(bk, t)
               x == g[j]
               y == h[j]
    <2>5. x * Window + f + Window * o <= z /\ z \in Int /\ f \in Nat /\ x \in Nat
      BY <1>1, <2>1, <2>2, <2>4
    <2>6. y = x \/ y = x + 1
      BY <1>1
    <2> HIDE DEF z, f, x, y
    <2>7. Window * (o2 + 1) = Window * o2 + Window /\ Window * o2 \in Nat /\ x * Window \in Nat
          /\ (x + 1) * Window = x * Window + Window
      BY <2>5, ProductType
    <2>8. y * Window + f + Window * o2 <= z
      BY <2>5, <2>6, <2>7
    <2>9. bk.last < t - j => h[j] + o2 <= Crowd - 1
      BY <1>1, <1>2, <2>1
    <2> QED BY <1>4, <2>1, <2>8, <2>9 DEF z, f, y
  <1> QED BY <1>3, <1>4

\* A new bucket is cached.
LEMMA FitsNew ==
  ASSUME Crowd \in Nat, Crowd >= 1, NEW g \in [Ages -> Nat], NEW bk, NEW b, b # "none",
         NEW t \in Times, NEW o \in Nat, o <= Crowd - 1, Fits("none", g, bk, t, o)
  PROVE  Fits(b, g, [tokens |-> Capacity, last |-> t], t, o)
  <1> DEFINE b2 == [tokens |-> Capacity, last |-> t]
  <1>0. t \in Nat
    BY DEF Times
  <1>2. Fill(b2, t) = Capacity /\ b2.last = t
    BY <1>0, FillNow, CapacityType
  <1> HIDE DEF b2
  <1> SUFFICES ASSUME NEW j \in Ages
      PROVE  /\ g[j] * Window + Fill(b2, t) + Window * o <= Capacity + j * BucketLimit + Window * (2 * Crowd - 1)
             /\ ~(b2.last < t - j)
    BY DEF Fits, b2
  <1>4. g[j] + o <= 2 * Crowd - 1 /\ g[j] \in Nat
    BY DEF Fits
  <1>5. j \in Nat /\ ~(b2.last < t - j)
    BY <1>0, <1>2 DEF Ages
  <1>6. j * BucketLimit \in Nat
    BY <1>5, ProductType
  <1>7. g[j] * Window + Window * o <= Window * (2 * Crowd - 1)
    <2> DEFINE s == 2 * Crowd - 1
               x == g[j]
    <2>1. s \in Nat /\ x \in Nat /\ x + o <= s
      BY <1>4
    <2> HIDE DEF s, x
    <2>2. PICK e \in Nat : s = x + o + e
      <3>1. s - (x + o) \in Nat /\ s = x + o + (s - (x + o))
        BY <2>1
      <3> QED BY <3>1
    <2>3. Window * s = x * Window + Window * o + Window * e
      BY <2>1, <2>2
    <2>4. x * Window \in Nat /\ Window * o \in Nat /\ Window * e \in Nat
      BY <2>1, <2>2, ProductType
    <2>5. x * Window + Window * o <= Window * s
      BY <2>3, <2>4
    <2> QED BY <2>5 DEF s, x
  <1>8. g[j] * Window \in Nat /\ Window * o \in Nat /\ Window * (2 * Crowd - 1) \in Nat
    <2>1. 2 * Crowd - 1 \in Nat
      OBVIOUS
    <2> QED BY <1>4, <2>1, ProductType
  <1> DEFINE z == Window * (2 * Crowd - 1)
             a == g[j] * Window
             w == Window * o
             p == j * BucketLimit
  <1>9. a + w <= z /\ a \in Nat /\ w \in Nat /\ z \in Nat /\ p \in Nat
    BY <1>6, <1>7, <1>8
  <1> HIDE DEF z, a, w, p
  <1>10. a + Capacity + w <= Capacity + p + z
    BY <1>9, CapacityType
  <1> QED BY <1>2, <1>5, <1>10 DEF z, a, w, p

\* An idle bucket is dropped.
LEMMA FitsDrop ==
  ASSUME Crowd \in Nat, Crowd >= 1, NEW c, c # "none", NEW g \in [Ages -> Nat], NEW bk \in BucketRecord, NEW bk2,
         NEW t \in Times, bk.last <= t, NEW o \in Nat, Fits(c, g, bk, t, o),
         t - bk.last > IdleLimit, NEW o2 \in Nat, o2 <= Crowd
  PROVE  Fits("none", g, bk2, t, o2)
  <1> SUFFICES ASSUME NEW j \in Ages
      PROVE  g[j] + o2 <= 2 * Crowd - 1
    BY DEF Fits
  <1>1. bk.last < t - j
    <2>1. bk.last \in Nat /\ t \in Nat /\ j \in Nat /\ j < Window
      BY DEF BucketRecord, Times, Ages
    <2> QED BY <2>1
  <1>2. g[j] + o <= Crowd - 1 /\ g[j] \in Nat
    BY <1>1 DEF Fits
  <1> QED BY <1>2

\* A tick passes.
LEMMA FitsTick ==
  ASSUME Crowd \in Nat, Crowd >= 1, NEW c, NEW g \in [Ages -> Nat], NEW bk, c # "none" => bk \in BucketRecord,
         NEW t \in Times, c # "none" => bk.last <= t, NEW o \in Nat, o <= Crowd, Fits(c, g, bk, t, o),
         NEW h, h = [i \in Ages |-> IF i = 0 THEN 0 ELSE g[i - 1]]
  PROVE  Fits(c, h, bk, t + 1, o)
  <1> SUFFICES ASSUME NEW j \in Ages
      PROVE  IF c = "none" THEN h[j] + o <= 2 * Crowd - 1
             ELSE /\ o <= Crowd - 1
                  /\ h[j] * Window + Fill(bk, t + 1) + Window * o
                       <= Capacity + j * BucketLimit + Window * (2 * Crowd - 1)
                  /\ bk.last < (t + 1) - j => h[j] + o <= Crowd - 1
    BY DEF Fits
  <1>0. t \in Nat /\ j \in Nat /\ 0 \in Ages
    BY DEF Times, Ages
  <1>1. CASE j = 0
    <2>1. h[j] = 0
      BY <1>1
    <2>2. CASE c = "none"
      BY <2>1, <2>2
    <2>3. CASE c # "none"
      <3>1. o <= Crowd - 1
        BY <1>0, <2>3 DEF Fits
      <3>2. Fill(bk, t + 1) \in 0 .. Capacity
        <4>1. t + 1 \in Nat /\ bk.last <= t + 1
          <5>1. bk.last \in Nat /\ bk.last <= t
            BY <2>3 DEF BucketRecord, Times
          <5> QED BY <1>0, <5>1
        <4> QED BY <2>3, <4>1, FillType
      <3>3. Window * o <= Window * (2 * Crowd - 1) /\ Window * o \in Nat /\ Window * (2 * Crowd - 1) \in Nat
        <4> DEFINE s == 2 * Crowd - 1
        <4>1. s \in Nat /\ o <= s
          OBVIOUS
        <4> HIDE DEF s
        <4>2. PICK e \in Nat : s = o + e
          <5>1. s - o \in Nat /\ s = o + (s - o)
            BY <4>1
          <5> QED BY <5>1
        <4>3. Window * s = Window * o + Window * e /\ Window * o \in Nat /\ Window * e \in Nat /\ Window * s \in Nat
          BY <4>1, <4>2, ProductType
        <4>4. Window * o <= Window * s
          BY <4>3
        <4> QED BY <4>3, <4>4 DEF s
      <3>4. h[j] * Window = 0 /\ j * BucketLimit = 0
        BY <1>1, <2>1
      <3> DEFINE z == Window * (2 * Crowd - 1)
                 w == Window * o
                 f == Fill(bk, t + 1)
      <3>5. w <= z /\ w \in Nat /\ z \in Nat /\ f \in Nat /\ f <= Capacity
        BY <3>2, <3>3, CapacityType
      <3> HIDE DEF z, w, f
      <3>6. 0 + f + w <= Capacity + 0 + z
        BY <3>5, CapacityType
      <3>7. h[j] * Window + Fill(bk, t + 1) + Window * o
              <= Capacity + j * BucketLimit + Window * (2 * Crowd - 1)
        BY <3>4, <3>6 DEF z, w, f
      <3> QED BY <2>1, <2>3, <3>1, <3>7
    <2> QED BY <2>2, <2>3
  <1>2. CASE j # 0
    <2> DEFINE i == j - 1
    <2>1. i \in Ages /\ i \in Nat /\ j = i + 1 /\ h[j] = g[i] /\ g[i] \in Nat
      BY <1>2 DEF Ages
    <2> HIDE DEF i
    <2>2. CASE c = "none"
      BY <2>1, <2>2 DEF Fits
    <2>3. CASE c # "none"
      <3>1. /\ o <= Crowd - 1
            /\ g[i] * Window + Fill(bk, t) + Window * o <= Capacity + i * BucketLimit + Window * (2 * Crowd - 1)
            /\ bk.last < t - i => g[i] + o <= Crowd - 1
        BY <2>1, <2>3 DEF Fits
      <3>2. Fill(bk, t + 1) <= Fill(bk, t) + BucketLimit /\ Fill(bk, t) \in Nat
        BY <1>0, <2>3, FillTick, FillType, CapacityType
      <3>3. Fill(bk, t + 1) \in Nat
        <4>1. t + 1 \in Nat /\ bk.last <= t + 1
          <5>1. bk.last \in Nat /\ bk.last <= t
            BY <2>3 DEF BucketRecord, Times
          <5> QED BY <1>0, <5>1
        <4> QED BY <2>3, <4>1, FillType, CapacityType
      <3>4. bk.last < (t + 1) - j => h[j] + o <= Crowd - 1
        <4>1. (t + 1) - j = t - i
          BY <1>0, <2>1
        <4> QED BY <2>1, <3>1, <4>1
      <3> DEFINE z == Window * (2 * Crowd - 1)
                 w == Window * o
                 f == Fill(bk, t)
                 f2 == Fill(bk, t + 1)
                 a == g[i] * Window
                 p == i * BucketLimit
      <3>5. z \in Nat /\ w \in Nat /\ a \in Nat /\ p \in Nat /\ j * BucketLimit = p + BucketLimit
        <4>1. 2 * Crowd - 1 \in Nat
          OBVIOUS
        <4> QED BY <2>1, <4>1, ProductType
      <3>6. a + f + w <= Capacity + p + z /\ f2 <= f + BucketLimit /\ f \in Nat /\ f2 \in Nat
        BY <3>1, <3>2, <3>3
      <3> HIDE DEF z, w, f, f2, a, p
      <3>7. a + f2 + w <= Capacity + (p + BucketLimit) + z
        BY <3>5, <3>6, CapacityType
      <3>8. h[j] * Window + Fill(bk, t + 1) + Window * o
              <= Capacity + j * BucketLimit + Window * (2 * Crowd - 1)
        BY <2>1, <3>5, <3>7 DEF z, w, f2, a
      <3> QED BY <2>3, <3>1, <3>4, <3>8
    <2> QED BY <2>2, <2>3
  <1> QED BY <1>1, <1>2

\* What the state of node n is, for the provers.
LEMMA NodeState ==
  ASSUME BucketInv, NEW n \in Nodes
  PROVE  /\ granted[n] \in [Ages -> Nat] /\ now \in Times
         /\ cache[n] # "none" => /\ cache[n] \in Buckets /\ bucket[cache[n]] \in BucketRecord
                                 /\ bucket[cache[n]].last <= now
  BY DEF BucketInv, IInv, TypeOK, PastRefills, BucketRecord

\* A node whose cached bucket, grants and orphans stay keeps its bound.
LEMMA NodeStays ==
  ASSUME NEW n \in Nodes, now' = now, cache'[n] = cache[n], granted'[n] = granted[n],
         cache[n] # "none" => bucket'[cache[n]] = bucket[cache[n]],
         Orphans(req', cache[n], n) = Orphans(req, cache[n], n),
         Fits(cache[n], granted[n], bucket[cache[n]], now, Cardinality(Orphans(req, cache[n], n)))
  PROVE  Fits(cache'[n], granted'[n], bucket'[cache'[n]], now', Cardinality(Orphans(req', cache'[n], n)))
  BY DEF Fits

\* A request that holds no bucket before a step nor after it changes nobody's orphans.
LEMMA NoOrphan ==
  ASSUME TypeOK, NEW r \in Requests, ~At(r, "take"), req'[r].at # "take",
         \A s \in Requests \ {r} : req'[s] = req[s]
  PROVE  \A n \in Nodes : \A c : Orphans(req', c, n) = Orphans(req, c, n)
  BY DEF Orphans, At

\* A step of a request that touches no bucket.
LEMMA Untouched ==
  ASSUME BucketInv, NEW r \in Requests, ~At(r, "take"), req'[r].at # "take",
         \A s \in Requests \ {r} : req'[s] = req[s], UNCHANGED <<now, cache, bucket, granted>>
  PROVE  /\ Owned'
         /\ Requests # {} => NodesFit'
  <1>1. Owned'
    BY DEF BucketInv, Owned, At
  <1>2. ASSUME Requests # {}, NEW n \in Nodes
        PROVE  Fits(cache'[n], granted'[n], bucket'[cache'[n]], now', Cardinality(Orphans(req', cache'[n], n)))
    BY <1>2, NoOrphan, NodeStays DEF BucketInv, IInv, NodesFit
  <1> QED BY <1>1, <1>2 DEF NodesFit

\* A request takes a bucket of the cache, or a new one that it caches.
LEMMA BucketGot ==
  ASSUME BucketInv, NEW r \in Requests, GetBucket(r)
  PROVE  Owned' /\ NodesFit'
  <1> DEFINE n == req[r].node
  <1>0. TypeOK /\ Holding /\ Owned /\ NodesFit /\ Crowd \in Nat /\ Crowd >= 1
    BY SomeRequests DEF BucketInv, IInv
  <1>1. At(r, "bucket") /\ n \in Nodes /\ now' = now /\ granted' = granted
    BY <1>0 DEF GetBucket, Holding, At
  <1>2. CASE /\ cache[n] # "none"
             /\ req' = [req EXCEPT ![r].at = "take", ![r].bucket = cache[n]]
             /\ UNCHANGED <<cache, bucket>>
    <2>1. req'[r].at = "take" /\ req'[r].node = n /\ req'[r].bucket = cache[n]
          /\ \A s \in Requests \ {r} : req'[s] = req[s]
      BY <1>0, <1>2 DEF TypeOK, Evaluations
    <2>2. Owned'
      <3> SUFFICES ASSUME NEW m \in Nodes, cache[m] # "none"
          PROVE  /\ \A k \in Nodes \ {m} : cache[k] # cache[m]
                 /\ \A s \in Requests : req'[s].at = "take" /\ req'[s].node # m => req'[s].bucket # cache[m]
        BY <1>2 DEF Owned, At
      <3>1. \A k \in Nodes \ {m} : cache[k] # cache[m]
        BY <1>0 DEF Owned
      <3>2. ASSUME NEW s \in Requests, req'[s].at = "take", req'[s].node # m
            PROVE  req'[s].bucket # cache[m]
        <4>1. CASE s = r
          BY <1>1, <2>1, <3>1, <3>2, <4>1
        <4>2. CASE s # r
          BY <1>0, <2>1, <3>2, <4>2 DEF Owned, At
        <4> QED BY <4>1, <4>2
      <3> QED BY <3>1, <3>2
    <2>3. ASSUME NEW m \in Nodes PROVE Orphans(req', cache[m], m) = Orphans(req, cache[m], m)
      BY <1>1, <2>1 DEF Orphans, At
    <2>4. ASSUME NEW m \in Nodes
          PROVE Fits(cache'[m], granted'[m], bucket'[cache'[m]], now', Cardinality(Orphans(req', cache'[m], m)))
      BY <1>0, <1>1, <1>2, <2>3, NodeStays DEF NodesFit
    <2> QED BY <2>2, <2>4 DEF NodesFit
  <1>3. CASE /\ cache[n] = "none"
             /\ \E b \in Buckets :
                  /\ ~InUse(b)
                  /\ cache' = [cache EXCEPT ![n] = b]
                  /\ bucket' = [bucket EXCEPT ![b] = [tokens |-> Capacity, last |-> now]]
                  /\ req' = [req EXCEPT ![r].at = "take", ![r].bucket = b]
    <2>1. PICK b \in Buckets :
            /\ ~InUse(b)
            /\ cache' = [cache EXCEPT ![n] = b]
            /\ bucket' = [bucket EXCEPT ![b] = [tokens |-> Capacity, last |-> now]]
            /\ req' = [req EXCEPT ![r].at = "take", ![r].bucket = b]
      BY <1>3
    <2>2. req'[r].at = "take" /\ req'[r].node = n /\ req'[r].bucket = b
          /\ \A s \in Requests \ {r} : req'[s] = req[s]
      BY <1>0, <2>1 DEF TypeOK, Evaluations
    <2>3. /\ b # "none" /\ cache'[n] = b /\ bucket'[b] = [tokens |-> Capacity, last |-> now]
          /\ \A m \in Nodes \ {n} : cache'[m] = cache[m]
          /\ \A d \in Buckets \ {b} : bucket'[d] = bucket[d]
      BY <1>0, <1>1, <2>1 DEF TypeOK
    <2>4. (\A m \in Nodes : cache[m] # b) /\ \A s \in Requests : req[s].bucket # b
      BY <2>1 DEF InUse
    <2>5. Owned'
      <3> SUFFICES ASSUME NEW m \in Nodes, cache'[m] # "none"
          PROVE  /\ \A k \in Nodes \ {m} : cache'[k] # cache'[m]
                 /\ \A s \in Requests : req'[s].at = "take" /\ req'[s].node # m => req'[s].bucket # cache'[m]
        BY DEF Owned, At
      <3>1. CASE m = n
        BY <2>2, <2>3, <2>4, <3>1
      <3>2. CASE m # n
        <4>1. cache'[m] = cache[m] /\ cache[m] # b
          BY <2>3, <2>4, <3>2
        <4> QED BY <1>0, <2>2, <2>3, <4>1 DEF Owned, At
      <3> QED BY <3>1, <3>2
    <2>6. ASSUME NEW m \in Nodes, m # n
          PROVE Fits(cache'[m], granted'[m], bucket'[cache'[m]], now', Cardinality(Orphans(req', cache'[m], m)))
      <3>1. cache'[m] = cache[m]
        BY <2>3, <2>6
      <3>2. cache[m] # "none" => bucket'[cache[m]] = bucket[cache[m]]
        BY <1>0, <2>3, <2>4 DEF TypeOK
      <3>3. Orphans(req', cache[m], m) = Orphans(req, cache[m], m)
        BY <1>1, <2>2, <2>6 DEF Orphans, At
      <3>4. granted'[m] = granted[m]
        BY <1>1
      <3>5. Fits(cache[m], granted[m], bucket[cache[m]], now, Cardinality(Orphans(req, cache[m], m)))
        BY <1>0 DEF NodesFit
      <3> QED BY <1>1, <3>1, <3>2, <3>3, <3>4, <3>5, NodeStays
    <2>7. Fits(b, granted[n], bucket'[b], now, Cardinality(Orphans(req', b, n)))
      <3> DEFINE o == Cardinality(Orphans(req, "none", n))
                 g == granted[n]
                 bk == bucket["none"]
      <3>1. Orphans(req', b, n) = Orphans(req, "none", n)
        <4>1. \A s \in Requests : req[s].at = "take" => req[s].bucket # "none" /\ req[s].bucket # b
          BY <1>0, <2>4 DEF Holding, At
        <4>2. r \notin Orphans(req', b, n) /\ r \notin Orphans(req, "none", n)
          BY <1>1, <2>2 DEF Orphans, At
        <4> QED BY <2>2, <4>1, <4>2 DEF Orphans
      <3>2. r \notin Orphans(req, "none", n)
        BY <1>1 DEF Orphans, At
      <3>3. o \in Nat /\ o <= Crowd - 1
        BY <3>2, OrphansCount
      <3>4. Fits("none", g, bk, now, o)
        BY <1>0, <1>1, <1>3 DEF NodesFit
      <3>5. g \in [Ages -> Nat] /\ now \in Times
        BY <1>1, NodeState
      <3> HIDE DEF o, g, bk
      <3>6. Fits(b, g, [tokens |-> Capacity, last |-> now], now, o)
        BY <1>0, <2>3, <3>3, <3>4, <3>5, FitsNew
      <3> QED BY <2>3, <3>1, <3>6 DEF o, g
    <2>8. ASSUME NEW m \in Nodes
          PROVE Fits(cache'[m], granted'[m], bucket'[cache'[m]], now', Cardinality(Orphans(req', cache'[m], m)))
      <3>1. CASE m = n
        BY <1>1, <2>3, <2>7, <3>1
      <3>2. CASE m # n
        BY <2>6, <3>2
      <3> QED BY <3>1, <3>2
    <2> QED BY <2>5, <2>8 DEF NodesFit
  <1> QED BY <1>2, <1>3 DEF GetBucket

\* A request takes from its bucket, if there is a token.
LEMMA TokenTaken ==
  ASSUME BucketInv, NEW r \in Requests, TakeToken(r)
  PROVE  Owned' /\ NodesFit'
  <1> DEFINE n == req[r].node
             b == req[r].bucket
             x == IF Refilled(b) >= Window THEN Refilled(b) - Window ELSE Refilled(b)
  <1>0. TypeOK /\ Holding /\ Owned /\ NodesFit /\ Crowd \in Nat /\ Crowd >= 1
    BY SomeRequests DEF BucketInv, IInv
  <1>1. /\ At(r, "take") /\ n \in Nodes /\ b \in Buckets /\ b # "none" /\ now' = now /\ cache' = cache
        /\ bucket' = [bucket EXCEPT ![b] = [tokens |-> x, last |-> now]]
        /\ granted' = IF Refilled(b) >= Window THEN [granted EXCEPT ![n] = OneMore(@)] ELSE granted
    BY <1>0 DEF TakeToken, Holding, At
  <1>2. req'[r].at # "take" /\ \A s \in Requests \ {r} : req'[s] = req[s]
    BY <1>0 DEF TakeToken, TypeOK, Leave, Idle, Evaluations
  <1>3. /\ bucket'[b] = [tokens |-> x, last |-> now] /\ \A d \in Buckets \ {b} : bucket'[d] = bucket[d]
        /\ \A m \in Nodes \ {n} : granted'[m] = granted[m]
        /\ granted'[n] = IF Refilled(b) >= Window THEN OneMore(granted[n]) ELSE granted[n]
    BY <1>0, <1>1 DEF TypeOK
  <1> HIDE DEF x
  <1>4. Owned'
    BY <1>0, <1>1, <1>2 DEF Owned, At
  <1>5. ASSUME NEW m \in Nodes, m # n
        PROVE Fits(cache'[m], granted'[m], bucket'[cache'[m]], now', Cardinality(Orphans(req', cache'[m], m)))
    <2>1. cache[m] # "none" => cache[m] # b
      BY <1>0, <1>1, <1>5 DEF Owned
    <2>2. cache[m] # "none" => bucket'[cache[m]] = bucket[cache[m]]
      BY <1>0, <1>3, <2>1 DEF TypeOK
    <2>3. Orphans(req', cache[m], m) = Orphans(req, cache[m], m)
      BY <1>2, <1>5 DEF Orphans
    <2>4. granted'[m] = granted[m] /\ cache'[m] = cache[m]
      BY <1>1, <1>3, <1>5
    <2>5. Fits(cache[m], granted[m], bucket[cache[m]], now, Cardinality(Orphans(req, cache[m], m)))
      BY <1>0 DEF NodesFit
    <2> QED BY <1>1, <2>2, <2>3, <2>4, <2>5, NodeStays
  <1>6. Fits(cache[n], granted'[n], bucket'[cache[n]], now, Cardinality(Orphans(req', cache[n], n)))
    <2> DEFINE c == cache[n]
               g == granted[n]
               h == granted'[n]
               bk == bucket[c]
               o == Cardinality(Orphans(req, c, n))
               o2 == Cardinality(Orphans(req', c, n))
    <2>1. Fits(c, g, bk, now, o) /\ o \in Nat /\ o2 \in Nat /\ h \in {g, OneMore(g)}
      BY <1>0, <1>1, <1>3, OrphansCount DEF NodesFit
    <2>2. g \in [Ages -> Nat] /\ now \in Times /\ (c # "none" => bk \in BucketRecord /\ bk.last <= now)
      BY <1>1, NodeState
    <2>3. CASE c = b
      <3>1. Orphans(req', c, n) = Orphans(req, c, n)
        BY <1>2, <2>3 DEF Orphans
      <3>2. Refilled(b) = Fill(bk, now)
        BY <2>3 DEF Refilled, Fill
      <3>3. CASE Refilled(b) >= Window
        <4>1. bucket'[c] = [tokens |-> Fill(bk, now) - Window, last |-> now] /\ h = OneMore(g)
          BY <1>3, <2>3, <3>2, <3>3 DEF x
        <4>2. Fill(bk, now) >= Window /\ c # "none"
          BY <1>1, <2>3, <3>2, <3>3
        <4> HIDE DEF c, g, h, bk, o, b
        <4>3. Fits(c, OneMore(g), [tokens |-> Fill(bk, now) - Window, last |-> now], now, o)
          BY <1>0, <2>1, <2>2, <4>2, FitsGrant
        <4> QED BY <3>1, <4>1, <4>3 DEF c, h, o
      <3>4. CASE ~(Refilled(b) >= Window)
        <4>1. bucket'[c] = [tokens |-> Fill(bk, now), last |-> now] /\ h = g
          BY <1>3, <2>3, <3>2, <3>4 DEF x
        <4>2. c # "none"
          BY <1>1, <2>3
        <4> HIDE DEF c, g, h, bk, o, b
        <4>3. Fits(c, g, [tokens |-> Fill(bk, now), last |-> now], now, o)
          BY <1>0, <2>1, <2>2, <4>2, FitsRefuse
        <4> QED BY <3>1, <4>1, <4>3 DEF c, h, o
      <3> QED BY <3>3, <3>4
    <2>4. CASE c # b
      <3>1. r \in Orphans(req, c, n) /\ Orphans(req', c, n) = Orphans(req, c, n) \ {r}
        BY <1>1, <1>2, <2>4 DEF Orphans, At
      <3>2. o = o2 + 1
        <4>1. IsFiniteSet(Orphans(req, c, n))
          BY OrphansCount
        <4> DEFINE O == Orphans(req, c, n)
        <4>2. r \in O /\ IsFiniteSet(O)
          BY <3>1, <4>1
        <4> HIDE DEF O
        <4>3. Cardinality(O \ {r}) = Cardinality(O) - 1
          BY <4>2, FS_RemoveElement
        <4>4. o2 = o - 1
          BY <3>1, <4>3 DEF O
        <4> HIDE DEF o, o2
        <4> QED BY <2>1, <4>4
      <3>3. c # "none" => bucket'[c] = bk
        BY <1>0, <1>1, <1>3, <2>4 DEF TypeOK
      <3>4. h = g \/ h = OneMore(g)
        BY <2>1
      <3> DEFINE bk2 == bucket'[c]
      <3>5. Fits(c, g, bk2, now, o)
        BY <2>1, <3>3 DEF Fits
      <3>6. c # "none" => bk2 \in BucketRecord /\ bk2.last <= now
        BY <2>2, <3>3
      <3> HIDE DEF c, g, h, bk, bk2, o, o2
      <3>7. Fits(c, h, bk2, now, o2)
        BY <1>0, <2>1, <2>2, <3>2, <3>4, <3>5, <3>6, FitsOrphan
      <3> QED BY <3>7 DEF c, h, bk2, o2
    <2> QED BY <2>3, <2>4
  <1>7. ASSUME NEW m \in Nodes
        PROVE Fits(cache'[m], granted'[m], bucket'[cache'[m]], now', Cardinality(Orphans(req', cache'[m], m)))
    <2>1. CASE m = n
      BY <1>1, <1>6, <2>1
    <2>2. CASE m # n
      BY <1>5, <2>2
    <2> QED BY <2>1, <2>2
  <1> QED BY <1>4, <1>7 DEF NodesFit

\* An idle bucket is dropped from the cache of a node.
LEMMA BucketDropped ==
  ASSUME BucketInv, NEW n \in Nodes, CleanupBucket(n)
  PROVE  Owned' /\ (Requests # {} => NodesFit')
  <1>0. TypeOK /\ Owned /\ Holding
    BY DEF BucketInv, IInv
  <1>1. /\ cache[n] # "none" /\ now - bucket[cache[n]].last > IdleLimit
        /\ cache' = [cache EXCEPT ![n] = "none"]
        /\ now' = now /\ bucket' = bucket /\ req' = req /\ granted' = granted
    BY DEF CleanupBucket, Stale
  <1>2. cache'[n] = "none" /\ \A m \in Nodes \ {n} : cache'[m] = cache[m]
    BY <1>0, <1>1 DEF TypeOK
  <1>3. Owned'
    <2> SUFFICES ASSUME NEW m \in Nodes, cache'[m] # "none"
        PROVE  /\ \A k \in Nodes \ {m} : cache'[k] # cache'[m]
               /\ \A s \in Requests : req[s].at = "take" /\ req[s].node # m => req[s].bucket # cache'[m]
      BY <1>1 DEF Owned, At
    <2>1. m # n /\ cache'[m] = cache[m]
      BY <1>2
    <2> QED BY <1>0, <1>2, <2>1 DEF Owned, At
  <1>4. ASSUME Requests # {}, NEW m \in Nodes
        PROVE Fits(cache'[m], granted'[m], bucket'[cache'[m]], now', Cardinality(Orphans(req', cache'[m], m)))
    <2>0. NodesFit /\ Crowd \in Nat /\ Crowd >= 1
      BY <1>4, SomeRequests DEF BucketInv
    <2>1. CASE m # n
      BY <1>1, <1>2, <2>0, <2>1, NodeStays DEF NodesFit
    <2>2. CASE m = n
      <3> DEFINE c == cache[n]
                 g == granted[n]
                 bk == bucket[c]
                 bk2 == bucket["none"]
                 o == Cardinality(Orphans(req, c, n))
                 o2 == Cardinality(Orphans(req, "none", n))
      <3>1. Fits(c, g, bk, now, o) /\ o \in Nat /\ o2 \in Nat /\ o2 <= Crowd
        BY <2>0, OrphansCount DEF NodesFit
      <3>2. g \in [Ages -> Nat] /\ now \in Times /\ c # "none" /\ bk \in BucketRecord /\ bk.last <= now
        BY <1>1, NodeState
      <3>3. now - bk.last > IdleLimit
        BY <1>1
      <3> HIDE DEF c, g, bk, o, o2, bk2
      <3>4. Fits("none", g, bk2, now, o2)
        BY <2>0, <3>1, <3>2, <3>3, FitsDrop
      <3> QED BY <1>1, <1>2, <2>2, <3>4 DEF g, bk2, o2
    <2> QED BY <2>1, <2>2
  <1> QED BY <1>3, <1>4 DEF NodesFit

\* Time passes.
LEMMA TickFits ==
  ASSUME BucketInv, Tick
  PROVE  Owned' /\ (Requests # {} => NodesFit')
  <1>1. /\ now' = now + 1 /\ cache' = cache /\ bucket' = bucket /\ req' = req
        /\ \A n \in Nodes : granted'[n] = [i \in Ages |-> IF i = 0 THEN 0 ELSE granted[n][i - 1]]
    BY DEF Tick
  <1>2. Owned'
    BY <1>1 DEF BucketInv, Owned, At
  <1>3. ASSUME Requests # {}, NEW n \in Nodes
        PROVE Fits(cache'[n], granted'[n], bucket'[cache'[n]], now', Cardinality(Orphans(req', cache'[n], n)))
    <2>0. NodesFit /\ Crowd \in Nat /\ Crowd >= 1
      BY <1>3, SomeRequests DEF BucketInv
    <2> DEFINE c == cache[n]
               g == granted[n]
               h == granted'[n]
               bk == bucket[c]
               o == Cardinality(Orphans(req, c, n))
    <2>1. Fits(c, g, bk, now, o) /\ o \in Nat /\ o <= Crowd
      BY <2>0, OrphansCount DEF NodesFit
    <2>2. g \in [Ages -> Nat] /\ now \in Times /\ (c # "none" => bk \in BucketRecord /\ bk.last <= now)
      BY NodeState
    <2>3. h = [i \in Ages |-> IF i = 0 THEN 0 ELSE g[i - 1]]
      BY <1>1
    <2> HIDE DEF c, g, h, bk, o
    <2>4. Fits(c, h, bk, now + 1, o)
      BY <2>0, <2>1, <2>2, <2>3, FitsTick
    <2> QED BY <1>1, <2>4 DEF c, h, bk, o
  <1> QED BY <1>2, <1>3 DEF NodesFit

\* Every step of the engine keeps the bound of every node.
LEMMA BucketStep == BucketInv /\ [Next]_vars => BucketInv'
  <1> SUFFICES ASSUME BucketInv, [Next]_vars PROVE BucketInv'
    OBVIOUS
  <1>0. IInv /\ TypeOK /\ Holding /\ IInv'
    BY StepInv DEF BucketInv, IInv
  <1>1. Owned' /\ (Requests # {} => NodesFit')
    <2>1. ASSUME NEW r \in Requests, Evaluate(r), ~GetBucket(r), ~TakeToken(r)
          PROVE  Owned' /\ (Requests # {} => NodesFit')
      <3>1. ~At(r, "take") /\ UNCHANGED <<now, cache, bucket, granted>>
        BY <2>1 DEF Evaluate, Start, CheckFixedWindow, FixedWindowFails, ReadCurrentWindow,
                    ReadPreviousWindow, CountSlidingWindow, At
      <3>2. req'[r].at # "take" /\ \A s \in Requests \ {r} : req'[s] = req[s]
        BY <1>0, <2>1 DEF Evaluate, Start, CheckFixedWindow, FixedWindowFails, ReadCurrentWindow, Measured,
                    ReadPreviousWindow, Decide, CountSlidingWindow, Go, Leave, Idle, TypeOK, Evaluations
      <3> QED BY <3>1, <3>2, Untouched
    <2>2. ASSUME NEW r \in Requests, Evaluate(r) PROVE Owned' /\ (Requests # {} => NodesFit')
      BY <2>1, <2>2, BucketGot, TokenTaken
    <2>3. ASSUME NEW n \in Nodes, CleanupBucket(n) PROVE Owned' /\ (Requests # {} => NodesFit')
      BY <2>3, BucketDropped
    <2>4. CASE Tick
      BY <2>4, TickFits
    <2>5. CASE UNCHANGED vars
      <3>1. Owned'
        BY <2>5 DEF vars, BucketInv, Owned, At
      <3>2. ASSUME Requests # {}, NEW n \in Nodes
            PROVE Fits(cache'[n], granted'[n], bucket'[cache'[n]], now', Cardinality(Orphans(req', cache'[n], n)))
        BY <2>5, <3>2 DEF vars, BucketInv, NodesFit
      <3> QED BY <3>1, <3>2 DEF NodesFit
    <2> QED BY <2>2, <2>3, <2>4, <2>5 DEF Next
  <1>2. ASSUME Requests = {} PROVE \A n \in Nodes, j \in Ages : granted'[n][j] = 0
    <2>1. \A n \in Nodes, j \in Ages : granted[n][j] = 0
      BY <1>2 DEF BucketInv
    <2>2. granted' = granted \/ Tick
      BY <1>2 DEF Next, CleanupBucket, vars
    <2>3. ASSUME Tick, NEW n \in Nodes, NEW j \in Ages PROVE granted'[n][j] = 0
      <3>1. j # 0 => j - 1 \in Ages
        BY DEF Ages
      <3>2. granted'[n] = [i \in Ages |-> IF i = 0 THEN 0 ELSE granted[n][i - 1]]
        BY <2>3 DEF Tick
      <3> QED BY <2>1, <3>1, <3>2
    <2> QED BY <2>1, <2>2, <2>3
  <1> QED BY <1>0, <1>1, <1>2 DEF BucketInv

\* It holds at the start, where no bucket is cached and nothing was granted.
LEMMA BucketStart == Init => BucketInv
  <1> SUFFICES ASSUME Init PROVE BucketInv
    OBVIOUS
  <1>1. IInv
    BY InitInv
  <1>2. /\ \A n \in Nodes : cache[n] = "none" /\ \A j \in Ages : granted[n][j] = 0
        /\ \A r \in Requests : req[r].at = "idle"
    BY DEF Init, Idle
  <1>3. Owned
    BY <1>2 DEF Owned
  <1>4. ASSUME Requests # {}, NEW n \in Nodes
        PROVE Fits(cache[n], granted[n], bucket[cache[n]], now, Cardinality(Orphans(req, cache[n], n)))
    <2>1. Orphans(req, cache[n], n) = {}
      BY <1>2 DEF Orphans
    <2>2. Cardinality(Orphans(req, cache[n], n)) = 0
      BY <2>1, FS_EmptySet
    <2>3. Crowd \in Nat /\ Crowd >= 1
      BY <1>4, SomeRequests
    <2> QED BY <1>2, <2>2, <2>3 DEF Fits
  <1> QED BY <1>1, <1>2, <1>3, <1>4 DEF BucketInv, NodesFit

\* And it implies the bound on what a node grants in one window.
LEMMA BucketKept == BucketInv => BucketBound
  <1> SUFFICES ASSUME BucketInv, NEW n \in Nodes
      PROVE  granted[n][Window - 1] * Window <= Capacity + (Window - 1) * BucketLimit + Window * (2 * Crowd - 1)
    BY DEF BucketBound, Crowd
  <1> DEFINE j == Window - 1
             g == granted[n]
             c == cache[n]
             bk == bucket[c]
             o == Cardinality(Orphans(req, c, n))
  <1>1. j \in Ages /\ j \in Nat
    BY DEF Ages
  <1>2. g \in [Ages -> Nat] /\ now \in Times /\ (c # "none" => bk \in BucketRecord /\ bk.last <= now)
    BY NodeState
  <1>3. g[j] \in Nat /\ j * BucketLimit \in Nat /\ g[j] * Window \in Nat
    <2>1. g[j] \in Nat
      BY <1>1, <1>2
    <2> HIDE DEF g, j
    <2> QED BY <1>1, <2>1, ProductType
  <1>4. CASE Requests = {}
    <2>1. g[j] = 0
      BY <1>1, <1>4 DEF BucketInv
    <2>2. Crowd = 0
      BY <1>4, FS_EmptySet DEF Crowd
    <2>3. Window * (2 * Crowd - 1) = 0 - Window
      BY <2>2
    <2>4. g[j] * Window = 0
      BY <2>1
    <2> DEFINE p == j * BucketLimit
    <2>5. p \in Nat
      BY <1>3
    <2> HIDE DEF p
    <2>6. 0 <= Capacity + p + (0 - Window)
      BY <2>5, CapacityType
    <2> QED BY <2>3, <2>4, <2>6 DEF p
  <1>5. CASE Requests # {}
    <2>0. Crowd \in Nat /\ Crowd >= 1 /\ 2 * Crowd - 1 \in Nat /\ Window * (2 * Crowd - 1) \in Nat
      <3>1. Crowd \in Nat /\ Crowd >= 1
        BY <1>5, SomeRequests
      <3>2. 2 * Crowd - 1 \in Nat
        BY <3>1
      <3> QED BY <3>1, <3>2, ProductType
    <2>1. Fits(c, g, bk, now, o) /\ o \in Nat
      BY <1>5, OrphansCount DEF BucketInv, NodesFit
    <2> DEFINE z == Window * (2 * Crowd - 1)
               p == j * BucketLimit
               a == g[j] * Window
    <2>2. CASE c = "none"
      <3>1. g[j] + o <= 2 * Crowd - 1
        BY <1>1, <2>1, <2>2 DEF Fits
      <3>2. g[j] <= 2 * Crowd - 1
        BY <1>3, <2>0, <2>1, <3>1
      <3>3. a <= z
        <4> DEFINE s == 2 * Crowd - 1
                   x == g[j]
        <4>1. s \in Nat /\ x \in Nat /\ x <= s
          BY <1>3, <2>0, <3>2
        <4> HIDE DEF s, x
        <4>2. PICK e \in Nat : s = x + e
          <5>1. s - x \in Nat /\ s = x + (s - x)
            BY <4>1
          <5> QED BY <5>1
        <4>3. Window * s = x * Window + Window * e /\ x * Window \in Nat /\ Window * e \in Nat
          BY <4>1, <4>2, ProductType
        <4>4. x * Window <= Window * s
          BY <4>3
        <4> QED BY <4>4 DEF s, x
      <3>4. a \in Nat /\ p \in Nat /\ z \in Nat
        BY <1>3, <2>0
      <3> HIDE DEF a, z, p
      <3>5. a <= Capacity + p + z
        BY <3>3, <3>4, CapacityType
      <3> QED BY <3>5 DEF a, z, p
    <2>3. CASE c # "none"
      <3>1. a + Fill(bk, now) + Window * o <= Capacity + p + z
        BY <1>1, <2>1, <2>3 DEF Fits
      <3>2. Fill(bk, now) \in Nat
        BY <1>2, <2>3, FillType, CapacityType DEF Times
      <3>3. Window * o \in Nat
        BY <2>1, ProductType
      <3>4. a \in Nat /\ p \in Nat /\ z \in Nat
        BY <1>3, <2>0
      <3> DEFINE f == Fill(bk, now)
                 w == Window * o
      <3>5. a + f + w <= Capacity + p + z /\ f \in Nat /\ w \in Nat
        BY <3>1, <3>2, <3>3
      <3> HIDE DEF a, z, p, f, w
      <3>6. a <= Capacity + p + z
        BY <3>4, <3>5, CapacityType
      <3> QED BY <3>6 DEF a, z, p
    <2> QED BY <2>2, <2>3
  <1> QED BY <1>4, <1>5

\* A node grants in one window no more than a full bucket, what is refilled in the
\* meantime and two tokens for every concurrent request but one, although the
\* cleanup drops buckets that requests still hold and full ones replace them.
THEOREM BucketBounded == Spec => []BucketBound
  BY BucketStart, BucketStep, BucketKept, PTL DEF Spec

-------------------------------------------------------------------------------
(* The quotas of an application *)

\* A finite set of numbers has a largest one.
LEMMA LargestExists ==
  ASSUME NEW S, IsFiniteSet(S), S # {}, S \subseteq Nat
  PROVE  \E m \in S : \A x \in S : x <= m
  <1> DEFINE T == {s \in SUBSET S : \E m \in S : s = {x \in S : x > m}}
  <1>1. T \subseteq SUBSET S /\ T # {}
    <2>1. PICK m \in S : TRUE
      OBVIOUS
    <2>2. {x \in S : x > m} \in T
      OBVIOUS
    <2> QED BY <2>2
  <1> HIDE DEF T
  <1>2. PICK s \in T : \A t \in T : ~(t \subseteq s /\ t # s)
    <2>1. T \subseteq SUBSET S
      BY <1>1
    <2>2. T # {}
      BY <1>1
    <2>3. IsFiniteSet(S)
      OBVIOUS
    <2> QED BY ONLY <2>1, <2>2, <2>3, LeastSubset
  <1>3. PICK m \in S : s = {x \in S : x > m}
    BY DEF T
  <1>4. \A x \in S : x <= m
    <2> SUFFICES ASSUME NEW x \in S, ~(x <= m) PROVE FALSE
      OBVIOUS
    <2>1. {y \in S : y > x} \in T
      BY DEF T
    <2>2. x \in Nat /\ m \in Nat /\ x > m
      OBVIOUS
    <2>3. {y \in S : y > x} \subseteq s
      <3>1. ASSUME NEW y \in S, y > x PROVE y > m
        <4>1. y \in Nat
          OBVIOUS
        <4> QED BY <2>2, <3>1, <4>1
      <3> QED BY <1>3, <3>1
    <2>4. x \in s /\ x \notin {y \in S : y > x}
      BY <1>3, <2>2
    <2> QED BY <1>2, <2>1, <2>3, <2>4
  <1> QED BY <1>4

-------------------------------------------------------------------------------
Limited == \A d \in Definition, p \in Quota!Period : d[p] # Unlimited

CM == Quota!Ceiling("min")
CH == Quota!Ceiling("hour")

\* A definition has a limit for each period, and every limit is in one.
LEMMA DefinitionFields ==
  /\ \A d \in Definition : d["min"] \in MinuteQuotas /\ d["hour"] \in HourQuotas /\ d["day"] \in DayQuotas
  /\ \A l \in MinuteQuotas : \E d \in Definition : d["min"] = l
  /\ \A l \in HourQuotas : \E d \in Definition : d["hour"] = l
  <1>1. PICK m \in MinuteQuotas, h \in HourQuotas, y \in DayQuotas : TRUE
    BY BoundsAssumption DEF BoundsAssumption
  <1>2. \A l \in MinuteQuotas : [min |-> l, hour |-> h, day |-> y] \in Definition
    BY DEF Definition
  <1>3. \A l \in HourQuotas : [min |-> m, hour |-> l, day |-> y] \in Definition
    BY DEF Definition
  <1> QED BY <1>2, <1>3 DEF Definition

\* The ceilings of the minute and of the hour are numbers that no limit exceeds.
LEMMA Ceilings ==
  /\ CM \in Nat /\ \A l \in MinuteQuotas : l <= CM
  /\ CH \in Nat /\ \A l \in HourQuotas : l <= CH
  <1>1. {d["min"] : d \in Definition} = MinuteQuotas /\ {d["hour"] : d \in Definition} = HourQuotas
    BY DefinitionFields
  <1>2. PICK m \in MinuteQuotas : \A x \in MinuteQuotas : x <= m
    BY BoundsAssumption, LargestExists DEF BoundsAssumption
  <1>3. PICK h \in HourQuotas : \A x \in HourQuotas : x <= h
    BY BoundsAssumption, LargestExists DEF BoundsAssumption
  <1>4. CM \in MinuteQuotas /\ \A d \in Definition : d["min"] <= CM
    BY <1>1, <1>2, DefinitionFields DEF CM, Quota!Ceiling
  <1>5. CH \in HourQuotas /\ \A d \in Definition : d["hour"] <= CH
    BY <1>1, <1>3, DefinitionFields DEF CH, Quota!Ceiling
  <1> QED BY <1>4, <1>5, DefinitionFields, BoundsAssumption DEF BoundsAssumption

\* There are as many definitions as limits of the minute.
LEMMA FewerLimits ==
  /\ IsFiniteSet(MinuteQuotas)
  /\ Cardinality(MinuteQuotas) \in Nat /\ Cardinality(Definition) \in Nat
  /\ Cardinality(MinuteQuotas) <= Cardinality(Definition)
  <1> DEFINE P == HourQuotas \X DayQuotas
             Q == MinuteQuotas \X P
             f == [q \in Q |-> [min |-> q[1], hour |-> q[2][1], day |-> q[2][2]]]
             g == [d \in Definition |-> d["min"]]
  <1>1. IsFiniteSet(MinuteQuotas) /\ IsFiniteSet(HourQuotas) /\ IsFiniteSet(DayQuotas)
    BY BoundsAssumption DEF BoundsAssumption
  <1>2. IsFiniteSet(P)
    BY <1>1, FS_Product
  <1>3. IsFiniteSet(Q)
    <2> HIDE DEF P
    <2> QED BY <1>1, <1>2, FS_Product
  <1>4. f \in Surjection(Q, Definition)
    <2>1. f \in [Q -> Definition]
      BY DEF Definition
    <2>2. \A d \in Definition : \E q \in Q : f[q] = d
      <3> SUFFICES ASSUME NEW d \in Definition PROVE \E q \in Q : f[q] = d
        OBVIOUS
      <3> DEFINE q == <<d.min, <<d.hour, d.day>>>>
      <3>1. q \in Q
        BY DEF Definition
      <3>2. f[q] = d
        BY <3>1 DEF Definition
      <3> QED BY <3>1, <3>2
    <2> HIDE DEF f, Q
    <2> QED BY <2>1, <2>2 DEF Surjection
  <1>5. IsFiniteSet(Definition)
    <2> HIDE DEF f, Q
    <2> QED BY <1>3, <1>4, FS_Surjection
  <1>6. g \in Surjection(Definition, MinuteQuotas)
    <2>1. g \in [Definition -> MinuteQuotas] /\ \A l \in MinuteQuotas : \E d \in Definition : g[d] = l
      BY DefinitionFields
    <2> HIDE DEF g
    <2> QED BY <2>1 DEF Surjection
  <1>7. Cardinality(MinuteQuotas) <= Cardinality(Definition)
    <2> HIDE DEF g
    <2> QED BY <1>5, <1>6, FS_Surjection
  <1> QED BY <1>1, <1>5, <1>7, FS_CardinalityType

-------------------------------------------------------------------------------
\* A status is exceeded when its use is larger than its limit.
Statuses == {s \in [used: Nat, limit: Nat, exceeded: BOOLEAN] : s.exceeded <=> s.used > s.limit}

\* The first of three statuses, or a fuller one.
LEMMA MostOfThree ==
  ASSUME NEW st, Len(st) = 3
  PROVE  Quota!MostRestrictive(st) =
           LET first == IF Quota!Fuller(st[2], st[1]) THEN st[2] ELSE st[1]
           IN  IF Quota!Fuller(st[3], first) THEN st[3] ELSE first
  <1> DEFINE first == IF Quota!Fuller(st[2], st[1]) THEN st[2] ELSE st[1]
             last == IF Quota!Fuller(st[3], first) THEN st[3] ELSE first
             step(h) == [i \in 1 .. Len(st) |->
                           IF i > 1 /\ ~Quota!Fuller(st[i], h[i - 1]) THEN h[i - 1] ELSE st[i]]
             best == CHOOSE h : h = step(h)
             g == [i \in 1 .. 3 |-> IF i = 1 THEN st[1] ELSE IF i = 2 THEN first ELSE last]
  <1>1. Quota!MostRestrictive(st) = best[Len(st)]
    BY DEF Quota!MostRestrictive
  <1>2. 1 .. Len(st) = {1, 2, 3} /\ 1 .. 3 = {1, 2, 3}
    OBVIOUS
  <1>3. g = step(g)
    <2>1. g[1] = st[1] /\ g[2] = first /\ g[3] = last
      OBVIOUS
    <2> DEFINE h == step(g)
    <2>2. h[1] = st[1]
      BY <1>2
    <2>3. h[2] = first
      BY <1>2, <2>1
    <2>4. h[3] = last
      BY <1>2, <2>1
    <2>5. h = [i \in {1, 2, 3} |-> h[i]] /\ g = [i \in {1, 2, 3} |-> g[i]]
      BY <1>2
    <2> HIDE DEF h, g, first, last
    <2>6. \A i \in {1, 2, 3} : h[i] = g[i]
      BY <2>1, <2>2, <2>3, <2>4
    <2>7. h = g
      BY <2>5, <2>6
    <2> QED BY <2>7 DEF h
  <1>4. best = step(best)
    BY <1>3
  <1>5. best[1] = st[1] /\ best[2] = first /\ best[3] = last
    <2> HIDE DEF best
    <2>1. best[1] = st[1]
      BY <1>2, <1>4
    <2>2. best[2] = first
      BY <1>2, <1>4, <2>1
    <2>3. best[3] = last
      <3> HIDE DEF first
      <3> QED BY <1>2, <1>4, <2>2
    <2> QED BY <2>1, <2>2, <2>3
  <1> HIDE DEF best, first
  <1> QED BY <1>1, <1>5 DEF first

\* If the most restrictive status is not exceeded, neither is the first one, and the
\* second is not unless the first is at its limit and hides it.
LEMMA ThreeVerdict ==
  ASSUME NEW st, Len(st) = 3, st[1] \in Statuses, st[2] \in Statuses, st[3] \in Statuses,
         ~Quota!MostRestrictive(st).exceeded
  PROVE  ~st[1].exceeded /\ (Quota!Full(st[1]) \/ ~st[2].exceeded)
  BY MostOfThree DEF Statuses, Quota!Fuller, Quota!Full

-------------------------------------------------------------------------------
\* A call that may yet be told that nothing was exceeded: its minute is not, ...
Open(ss) == Len(ss) > 0 /\ ~ss[1].exceeded

\* ... and either the minute is at its limit or the hour is not exceeded.
OpenLate(ss) ==
  /\ Open(ss)
  /\ Quota!Full(ss[1]) \/ (Len(ss) > 1 /\ ~ss[2].exceeded)

Least(a, b) == IF a <= b THEN a ELSE b

OpenCalls(tr) == {c \in Requests : Open(tr[c])}
LateCalls(tr) == {c \in Requests : OpenLate(tr[c])}

\* Limits of the minute that u uses have reached.
Reached(u) == {l \in MinuteQuotas : l <= u}

QuotaType ==
  /\ tier \in Definition
  /\ usage \in [Quota!Period -> Nat]
  /\ track \in [Requests -> Seq(Statuses)] /\ \A c \in Requests : Len(track[c]) < 3
  /\ within \in Nat /\ uncounted \in Nat
  /\ restarts \in [Quota!Period -> Nat]

MinuteHolds(w, tr, us, rs, un) ==
  w + Cardinality(OpenCalls(tr)) <= CM * rs["min"] + Least(us["min"], CM) + un

HourHolds(w, tr, us, rs, un) ==
  w + Cardinality(LateCalls(tr))
    <= CH * rs["hour"] + Least(us["hour"], CH) + un
         + Cardinality(MinuteQuotas) * rs["min"] + Cardinality(Reached(us["min"]))

QuotaInv ==
  /\ QuotaType
  /\ Limited => /\ MinuteHolds(within, track, usage, restarts, uncounted)
                /\ HourHolds(within, track, usage, restarts, uncounted)

\* Open calls are finitely many.
LEMMA OpenCounts ==
  ASSUME QuotaType
  PROVE  /\ IsFiniteSet(OpenCalls(track)) /\ IsFiniteSet(LateCalls(track))
         /\ Cardinality(OpenCalls(track)) \in Nat /\ Cardinality(LateCalls(track)) \in Nat
  <1>1. OpenCalls(track) \in SUBSET Requests /\ LateCalls(track) \in SUBSET Requests
    BY DEF OpenCalls, LateCalls
  <1>2. IsFiniteSet(OpenCalls(track)) /\ IsFiniteSet(LateCalls(track))
    BY <1>1, FS_Subset
  <1> QED BY <1>2, FS_CardinalityType

\* A use more reaches no fewer limits, and one more if it is a limit itself.
LEMMA ReachedCount ==
  ASSUME NEW u \in Nat
  PROVE  /\ IsFiniteSet(Reached(u)) /\ Cardinality(Reached(u)) \in Nat
         /\ Cardinality(Reached(u)) <= Cardinality(MinuteQuotas)
         /\ Cardinality(Reached(u)) <= Cardinality(Reached(u + 1))
         /\ u + 1 \in MinuteQuotas => Cardinality(Reached(u)) + 1 <= Cardinality(Reached(u + 1))
  <1>1. \A l \in MinuteQuotas : l \in Nat
    BY BoundsAssumption DEF BoundsAssumption
  <1>2. Reached(u) \in SUBSET MinuteQuotas /\ Reached(u + 1) \in SUBSET MinuteQuotas
    BY DEF Reached
  <1>3. Reached(u) \in SUBSET Reached(u + 1)
    BY <1>1 DEF Reached
  <1>4. IsFiniteSet(Reached(u + 1)) /\ IsFiniteSet(Reached(u))
    BY <1>2, FewerLimits, FS_Subset
  <1>5. Cardinality(Reached(u)) <= Cardinality(MinuteQuotas) /\ Cardinality(Reached(u)) <= Cardinality(Reached(u + 1))
    BY <1>2, <1>3, <1>4, FewerLimits, FS_Subset
  <1>6. Cardinality(Reached(u)) \in Nat /\ Cardinality(Reached(u + 1)) \in Nat
    BY <1>4, FS_CardinalityType
  <1>7. ASSUME u + 1 \in MinuteQuotas PROVE Cardinality(Reached(u)) + 1 <= Cardinality(Reached(u + 1))
    <2>1. Reached(u + 1) = Reached(u) \cup {u + 1} /\ u + 1 \notin Reached(u)
      BY <1>1, <1>7 DEF Reached
    <2>2. Cardinality(Reached(u) \cup {u + 1}) = Cardinality(Reached(u)) + 1
      <3> DEFINE R == Reached(u)
                 v == u + 1
      <3>1. IsFiniteSet(R) /\ v \notin R
        BY <1>4, <2>1
      <3> HIDE DEF R, v
      <3>2. Cardinality(R \cup {v}) = Cardinality(R) + 1
        BY <3>1, FS_AddElement
      <3> QED BY <3>2 DEF R, v
    <2> QED BY <1>6, <2>1, <2>2
  <1> QED BY <1>4, <1>5, <1>6, <1>7

\* One call's track changes: it joins the calls counted by D, leaves them, or neither.
LEMMA OneCallMoves ==
  ASSUME NEW A \in SUBSET Requests, NEW B \in SUBSET Requests, NEW c \in Requests,
         \A d \in Requests \ {c} : d \in A <=> d \in B
  PROVE  /\ Cardinality(A) \in Nat /\ Cardinality(B) \in Nat
         /\ Cardinality(B) = Cardinality(A) + (IF c \in B THEN 1 ELSE 0) - (IF c \in A THEN 1 ELSE 0)
  <1>1. IsFiniteSet(A) /\ IsFiniteSet(B)
    BY FS_Subset
  <1>2. Cardinality(A) \in Nat /\ Cardinality(B) \in Nat
    BY <1>1, FS_CardinalityType
  <1>3. CASE c \in A /\ c \notin B
    <2>1. B = A \ {c}
      BY <1>3
    <2> QED BY <1>1, <1>2, <1>3, <2>1, FS_RemoveElement
  <1>4. CASE c \notin A /\ c \in B
    <2>1. B = A \cup {c}
      BY <1>4
    <2> QED BY <1>1, <1>2, <1>4, <2>1, FS_AddElement
  <1>5. CASE c \in A <=> c \in B
    <2>1. A = B
      BY <1>5
    <2> QED BY <1>2, <2>1
  <1> QED BY <1>2, <1>3, <1>4, <1>5

\* What a step of a tracked call does.
LEMMA TrackStep ==
  ASSUME QuotaType, NEW c \in Requests, Quota!TrackApplicationQuota(c)
  PROVE  \E s \in Statuses, p \in Quota!Period :
    LET st == Append(track[c], s) IN
    /\ p = <<"min", "hour", "day">>[Len(track[c]) + 1]
    /\ UNCHANGED <<tier, restarts>>
    /\ \/ s = Quota!Untracked /\ UNCHANGED <<usage, uncounted>> /\ tier[p] = Unlimited
       \/ /\ s = [used |-> usage[p] + 1, limit |-> tier[p], exceeded |-> usage[p] + 1 > tier[p]]
          /\ usage' = [usage EXCEPT ![p] = @ + 1] /\ UNCHANGED uncounted
       \/ s = Quota!Untracked /\ uncounted' = uncounted + 1 /\ UNCHANGED usage
    /\ \/ /\ Len(track[c]) < 2
          /\ track' = [track EXCEPT ![c] = st] /\ UNCHANGED within
       \/ /\ Len(track[c]) = 2
          /\ track' = [track EXCEPT ![c] = <<>>]
          /\ within' = IF Quota!MostRestrictive(st).exceeded THEN within ELSE within + 1
  <1> DEFINE i == Len(track[c]) + 1
             p == Quota!Periods[i]
  <1>1. track[c] \in Seq(Statuses) /\ Len(track[c]) \in {0, 1, 2} /\ i \in {1, 2, 3}
    <2>1. track[c] \in Seq(Statuses) /\ Len(track[c]) < 3
      BY DEF QuotaType
    <2>2. Len(track[c]) \in Nat
      BY <2>1
    <2>3. \A n \in Nat : n < 3 => n \in {0, 1, 2} /\ n + 1 \in {1, 2, 3}
      OBVIOUS
    <2> QED BY <2>1, <2>2, <2>3
  <1>2. p \in Quota!Period /\ p = <<"min", "hour", "day">>[Len(track[c]) + 1]
    BY <1>1 DEF Quota!Periods, Quota!Period
  <1>3. PICK s : /\ Quota!trackQuota(p, s)
                 /\ IF Len(Append(track[c], s)) < Len(Quota!Periods)
                      THEN track' = [track EXCEPT ![c] = Append(track[c], s)] /\ UNCHANGED within
                      ELSE /\ track' = [track EXCEPT ![c] = <<>>]
                           /\ within' = IF Quota!MostRestrictive(Append(track[c], s)).exceeded
                                          THEN within ELSE within + 1
    BY DEF Quota!TrackApplicationQuota, Quota!Count
  <1>4. UNCHANGED <<tier, restarts>>
    BY DEF Quota!TrackApplicationQuota
  <1> HIDE DEF p
  <1>5. \/ s = Quota!Untracked /\ UNCHANGED <<usage, uncounted>> /\ tier[p] = Unlimited
        \/ /\ s = [used |-> usage[p] + 1, limit |-> tier[p], exceeded |-> usage[p] + 1 > tier[p]]
           /\ usage' = [usage EXCEPT ![p] = @ + 1] /\ UNCHANGED uncounted
        \/ s = Quota!Untracked /\ uncounted' = uncounted + 1 /\ UNCHANGED usage
    BY <1>3 DEF Quota!trackQuota, Quota!getLimitForPeriod, Quota!Status
  <1>6. s \in Statuses
    <2>1. Quota!Untracked \in Statuses
      BY DEF Quota!Untracked, Statuses
    <2>2. usage[p] \in Nat /\ tier[p] \in Nat
      <3>1. tier["min"] \in Nat /\ tier["hour"] \in Nat /\ tier["day"] \in Nat
        BY DefinitionFields, BoundsAssumption DEF QuotaType, BoundsAssumption
      <3> QED BY <1>2, <3>1 DEF QuotaType, Quota!Period
    <2> DEFINE over == usage[p] + 1 > tier[p]
               t == [used |-> usage[p] + 1, limit |-> tier[p], exceeded |-> over]
    <2>3. t \in Statuses
      <3>1. over \in BOOLEAN /\ (over <=> usage[p] + 1 > tier[p]) /\ usage[p] + 1 \in Nat
        BY <2>2
      <3> HIDE DEF over
      <3> QED BY <2>2, <3>1 DEF Statuses
    <2> HIDE DEF t
    <2>4. s = Quota!Untracked \/ s = t
      BY <1>5 DEF t
    <2> QED BY <2>1, <2>3, <2>4
  <1>7. Len(Append(track[c], s)) = i /\ Len(Quota!Periods) = 3
    BY <1>1, <1>6 DEF Quota!Periods
  <1>8. \/ /\ Len(track[c]) < 2
           /\ track' = [track EXCEPT ![c] = Append(track[c], s)] /\ UNCHANGED within
        \/ /\ Len(track[c]) = 2
           /\ track' = [track EXCEPT ![c] = <<>>]
           /\ within' = IF Quota!MostRestrictive(Append(track[c], s)).exceeded THEN within ELSE within + 1
    <2>1. CASE i < 3
      BY <1>1, <1>3, <1>7, <2>1
    <2>2. CASE i = 3
      <3>1. Len(track[c]) = 2
        <4>1. \A n \in {0, 1, 2} : n + 1 = 3 => n = 2
          OBVIOUS
        <4> QED BY <1>1, <2>2, <4>1
      <3>2. ~(Len(Append(track[c], s)) < Len(Quota!Periods))
        BY <1>7, <2>2
      <3> QED BY <1>3, <3>1, <3>2
    <2>3. i < 3 \/ i = 3
      BY <1>1
    <2> QED BY <2>1, <2>2, <2>3
  <1> QED BY <1>2, <1>4, <1>5, <1>6, <1>8

\* A tracked call keeps the types.
LEMMA QuotaTypeStep ==
  ASSUME QuotaType, NEW c \in Requests, Quota!TrackApplicationQuota(c)
  PROVE  QuotaType'
  <1>1. PICK s \in Statuses, p \in Quota!Period :
    LET st == Append(track[c], s) IN
    /\ p = <<"min", "hour", "day">>[Len(track[c]) + 1]
    /\ UNCHANGED <<tier, restarts>>
    /\ \/ s = Quota!Untracked /\ UNCHANGED <<usage, uncounted>> /\ tier[p] = Unlimited
       \/ /\ s = [used |-> usage[p] + 1, limit |-> tier[p], exceeded |-> usage[p] + 1 > tier[p]]
          /\ usage' = [usage EXCEPT ![p] = @ + 1] /\ UNCHANGED uncounted
       \/ s = Quota!Untracked /\ uncounted' = uncounted + 1 /\ UNCHANGED usage
    /\ \/ /\ Len(track[c]) < 2
          /\ track' = [track EXCEPT ![c] = st] /\ UNCHANGED within
       \/ /\ Len(track[c]) = 2
          /\ track' = [track EXCEPT ![c] = <<>>]
          /\ within' = IF Quota!MostRestrictive(st).exceeded THEN within ELSE within + 1
    BY TrackStep
  <1>2. usage' \in [Quota!Period -> Nat] /\ uncounted' \in Nat /\ within' \in Nat
    <2>1. usage' \in [Quota!Period -> Nat]
      BY <1>1 DEF QuotaType
    <2>2. uncounted' \in Nat
      BY <1>1 DEF QuotaType
    <2>3. within' = within \/ within' = within + 1
      BY <1>1
    <2> QED BY <2>1, <2>2, <2>3 DEF QuotaType
  <1>3. track' \in [Requests -> Seq(Statuses)] /\ \A d \in Requests : Len(track'[d]) < 3
    <2>1. PICK n : n \in Seq(Statuses) /\ Len(n) < 3 /\ track' = [track EXCEPT ![c] = n]
      <3>1. track[c] \in Seq(Statuses)
        BY DEF QuotaType
      <3>2. Append(track[c], s) \in Seq(Statuses) /\ Len(Append(track[c], s)) = Len(track[c]) + 1
            /\ Len(track[c]) \in Nat
        BY <3>1
      <3>3. <<>> \in Seq(Statuses)
        OBVIOUS
      <3>4. Len(<<>>) < 3
        OBVIOUS
      <3>5. Len(track[c]) < 2 => Len(Append(track[c], s)) < 3
        BY <3>2
      <3> QED BY <1>1, <3>2, <3>3, <3>4, <3>5
    <2> QED BY <2>1 DEF QuotaType
  <1> QED BY <1>1, <1>2, <1>3 DEF QuotaType

\* A call that has tracked nothing is not open.
LEMMA NoneOpen == ~Open(<<>>) /\ ~OpenLate(<<>>)
  BY DEF Open, OpenLate

\* The first status opens a call, unless it is exceeded.
LEMMA FirstStatus ==
  ASSUME NEW t \in Seq(Statuses), NEW s \in Statuses, Len(t) = 0
  PROVE  /\ ~Open(t) /\ ~OpenLate(t)
         /\ Open(Append(t, s)) <=> ~s.exceeded
         /\ OpenLate(Append(t, s)) <=> ~s.exceeded /\ Quota!Full(s)
  <1>1. Len(Append(t, s)) = 1 /\ Append(t, s)[1] = s
    OBVIOUS
  <1> QED BY <1>1 DEF Open, OpenLate

\* What a sequence is that was appended to, by the length it had: ...
LEMMA AppendLast ==
  ASSUME NEW S, NEW t \in Seq(S), NEW s \in S
  PROVE  /\ Len(Append(t, s)) = Len(t) + 1 /\ Len(t) \in Nat
         /\ Append(t, s)[Len(t) + 1] = s
         /\ \A i \in 1 .. Len(t) : Append(t, s)[i] = t[i]
  OBVIOUS

\* ... if it is two, ...
LEMMA ThreeOf ==
  ASSUME NEW q, NEW t, NEW s, NEW n, n = 2,
         Len(q) = n + 1, q[n + 1] = s, \A i \in 1 .. n : q[i] = t[i]
  PROVE  Len(q) = 3 /\ q[3] = s /\ q[1] = t[1] /\ q[2] = t[2]
  <1>1. n + 1 = 3 /\ 1 \in 1 .. n /\ 2 \in 1 .. n
    OBVIOUS
  <1> QED BY <1>1, Zenon

\* ... if that is one, ...
LEMMA TwoOf ==
  ASSUME NEW q, NEW t, NEW s, NEW n, n = 1,
         Len(q) = n + 1, q[n + 1] = s, \A i \in 1 .. n : q[i] = t[i]
  PROVE  Len(q) = 2 /\ q[2] = s /\ q[1] = t[1]
  <1>1. n + 1 = 2 /\ 1 \in 1 .. n
    OBVIOUS
  <1> QED BY <1>1, Zenon

\* ... it becomes two, ...
LEMMA AppendSecond ==
  ASSUME NEW S, NEW t \in Seq(S), NEW s \in S
  PROVE  Len(t) = 1 => Len(Append(t, s)) = 2 /\ Append(t, s)[2] = s /\ Append(t, s)[1] = t[1]
  <1> DEFINE q == Append(t, s)
             n == Len(t)
  <1>1. Len(q) = n + 1 /\ q[n + 1] = s /\ \A i \in 1 .. n : q[i] = t[i]
    BY AppendLast
  <1> HIDE DEF q, n
  <1>2. n = 1 => Len(q) = 2 /\ q[2] = s /\ q[1] = t[1]
    BY <1>1, TwoOf
  <1> QED BY <1>2, Zenon DEF q, n

\* ... it becomes three.
LEMMA AppendThird ==
  ASSUME NEW S, NEW t \in Seq(S), NEW s \in S
  PROVE  Len(t) = 2 =>
           /\ Len(Append(t, s)) = 3 /\ Append(t, s)[3] = s
           /\ Append(t, s)[1] = t[1] /\ Append(t, s)[2] = t[2]
  <1> DEFINE q == Append(t, s)
             n == Len(t)
  <1>1. Len(q) = n + 1 /\ q[n + 1] = s /\ \A i \in 1 .. n : q[i] = t[i]
    BY AppendLast
  <1> HIDE DEF q, n
  <1>2. n = 2 => Len(q) = 3 /\ q[3] = s /\ q[1] = t[1] /\ q[2] = t[2]
    BY <1>1, ThreeOf
  <1> QED BY <1>2, Zenon DEF q, n

\* The second one leaves it open, and opens it late if it is not exceeded.
LEMMA SecondStatus ==
  ASSUME NEW t \in Seq(Statuses), NEW s \in Statuses, Len(t) = 1
  PROVE  /\ Open(Append(t, s)) <=> Open(t)
         /\ OpenLate(t) => Open(t) /\ OpenLate(Append(t, s))
         /\ OpenLate(Append(t, s)) => OpenLate(t) \/ ~s.exceeded
  <1>1. t \in Seq(Statuses) /\ s \in Statuses /\ Len(t) = 1
    OBVIOUS
  <1>2. Len(Append(t, s)) = 2 /\ Append(t, s)[1] = t[1] /\ Append(t, s)[2] = s
    BY ONLY <1>1, AppendSecond, Zenon
  <1> QED BY <1>2 DEF Open, OpenLate

\* A call that is answered that nothing was exceeded was open, and late as well.
LEMMA ThirdStatus ==
  ASSUME NEW t \in Seq(Statuses), NEW s \in Statuses, Len(t) = 2,
         ~Quota!MostRestrictive(Append(t, s)).exceeded
  PROVE  Open(t) /\ OpenLate(t)
  <1> DEFINE st == Append(t, s)
  <1>1. Len(st) = 3 /\ st[1] = t[1] /\ st[2] = t[2] /\ st[3] = s
    <2>1. t \in Seq(Statuses) /\ s \in Statuses /\ Len(t) = 2
      OBVIOUS
    <2>2. /\ Len(Append(t, s)) = 3 /\ Append(t, s)[3] = s
          /\ Append(t, s)[1] = t[1] /\ Append(t, s)[2] = t[2]
      BY ONLY <2>1, AppendThird, Zenon
    <2> QED BY ONLY <2>2, Zenon DEF st
  <1>2. t[1] \in Statuses /\ t[2] \in Statuses
    OBVIOUS
  <1> HIDE DEF st
  <1>3. ~st[1].exceeded /\ (Quota!Full(st[1]) \/ ~st[2].exceeded)
    BY <1>1, <1>2, ThreeVerdict DEF st
  <1> QED BY <1>1, <1>3 DEF Open, OpenLate

\* The lesser of a count and a limit grows by one below the limit.
LEMMA LeastFacts ==
  ASSUME NEW a \in Nat, NEW m \in Nat
  PROVE  /\ Least(a, m) \in Nat /\ Least(a, m) <= m /\ Least(a, m) <= Least(a + 1, m)
         /\ a + 1 <= m => Least(a + 1, m) = Least(a, m) + 1
         /\ Least(0, m) = 0
  BY DEF Least

\* A step of one tracked call, in numbers.
LEMMA CallsCounted ==
  ASSUME QuotaType, NEW c \in Requests, NEW n, track' = [track EXCEPT ![c] = n]
  PROVE  /\ Cardinality(OpenCalls(track')) =
              Cardinality(OpenCalls(track)) + (IF Open(n) THEN 1 ELSE 0) - (IF Open(track[c]) THEN 1 ELSE 0)
         /\ Cardinality(LateCalls(track')) =
              Cardinality(LateCalls(track)) + (IF OpenLate(n) THEN 1 ELSE 0) - (IF OpenLate(track[c]) THEN 1 ELSE 0)
         /\ Cardinality(OpenCalls(track)) \in Nat /\ Cardinality(OpenCalls(track')) \in Nat
         /\ Cardinality(LateCalls(track)) \in Nat /\ Cardinality(LateCalls(track')) \in Nat
  <1> DEFINE A == OpenCalls(track)
             A2 == OpenCalls(track')
             B == LateCalls(track)
             B2 == LateCalls(track')
  <1>1. track'[c] = n /\ \A d \in Requests \ {c} : track'[d] = track[d]
    BY DEF QuotaType
  <1>2. A \in SUBSET Requests /\ A2 \in SUBSET Requests /\ B \in SUBSET Requests /\ B2 \in SUBSET Requests
    BY DEF OpenCalls, LateCalls
  <1>3. \A d \in Requests \ {c} : (d \in A <=> d \in A2) /\ (d \in B <=> d \in B2)
    BY <1>1 DEF OpenCalls, LateCalls
  <1>4. (c \in A <=> Open(track[c])) /\ (c \in A2 <=> Open(n))
        /\ (c \in B <=> OpenLate(track[c])) /\ (c \in B2 <=> OpenLate(n))
    BY <1>1 DEF OpenCalls, LateCalls
  <1> HIDE DEF A, A2, B, B2
  <1>5. /\ Cardinality(A) \in Nat /\ Cardinality(A2) \in Nat
        /\ Cardinality(A2) = Cardinality(A) + (IF c \in A2 THEN 1 ELSE 0) - (IF c \in A THEN 1 ELSE 0)
    BY <1>2, <1>3, OneCallMoves
  <1>6. /\ Cardinality(B) \in Nat /\ Cardinality(B2) \in Nat
        /\ Cardinality(B2) = Cardinality(B) + (IF c \in B2 THEN 1 ELSE 0) - (IF c \in B THEN 1 ELSE 0)
    BY <1>2, <1>3, OneCallMoves
  <1> QED BY <1>4, <1>5, <1>6 DEF A, A2, B, B2

\* Inequalities that are carried on.
LEMMA Carry ==
  ASSUME NEW x \in Int, NEW y \in Int, NEW z \in Int, NEW u \in Nat, NEW v \in Nat,
         x <= y, y <= z + u, u <= v
  PROVE  x <= z + v
  OBVIOUS

\* The same with one term more.
LEMMA CarryBetween ==
  ASSUME NEW x \in Int, NEW y \in Int, NEW z \in Int, NEW u \in Nat, NEW v \in Nat, NEW r \in Nat,
         x <= y, y <= z + u + r, u <= v
  PROVE  x <= z + v + r
  OBVIOUS

\* A tracked call keeps both bounds: the call counts as open from its first status
\* until it is answered, and pays with the use it has counted.
LEMMA TrackHolds ==
  ASSUME QuotaInv, Limited, NEW c \in Requests, Quota!TrackApplicationQuota(c)
  PROVE  /\ MinuteHolds(within', track', usage', restarts', uncounted')
         /\ HourHolds(within', track', usage', restarts', uncounted')
  <1>1. PICK s \in Statuses, p \in Quota!Period :
    LET st == Append(track[c], s) IN
    /\ p = <<"min", "hour", "day">>[Len(track[c]) + 1]
    /\ UNCHANGED <<tier, restarts>>
    /\ \/ s = Quota!Untracked /\ UNCHANGED <<usage, uncounted>> /\ tier[p] = Unlimited
       \/ /\ s = [used |-> usage[p] + 1, limit |-> tier[p], exceeded |-> usage[p] + 1 > tier[p]]
          /\ usage' = [usage EXCEPT ![p] = @ + 1] /\ UNCHANGED uncounted
       \/ s = Quota!Untracked /\ uncounted' = uncounted + 1 /\ UNCHANGED usage
    /\ \/ /\ Len(track[c]) < 2
          /\ track' = [track EXCEPT ![c] = st] /\ UNCHANGED within
       \/ /\ Len(track[c]) = 2
          /\ track' = [track EXCEPT ![c] = <<>>]
          /\ within' = IF Quota!MostRestrictive(st).exceeded THEN within ELSE within + 1
    BY TrackStep DEF QuotaInv
  <1> DEFINE t == track[c]
             st == Append(t, s)
             A == Cardinality(OpenCalls(track))
             A2 == Cardinality(OpenCalls(track'))
             B == Cardinality(LateCalls(track))
             B2 == Cardinality(LateCalls(track'))
             u == usage["min"]
             h == usage["hour"]
             R == Cardinality(Reached(u))
             R2 == Cardinality(Reached(usage'["min"]))
             K == CM * restarts["min"]
             J == CH * restarts["hour"] + Cardinality(MinuteQuotas) * restarts["min"]
  <1>2. t \in Seq(Statuses) /\ Len(t) \in {0, 1, 2}
    <2>1. t \in Seq(Statuses) /\ Len(t) < 3
      BY DEF QuotaInv, QuotaType
    <2>2. Len(t) \in Nat
      BY <2>1
    <2>3. \A n \in Nat : n < 3 => n \in {0, 1, 2}
      OBVIOUS
    <2> HIDE DEF t
    <2> QED BY <2>1, <2>2, <2>3
  <1>3. u \in Nat /\ h \in Nat /\ within \in Nat /\ uncounted \in Nat /\ CM \in Nat /\ CH \in Nat
        /\ K \in Nat /\ J \in Nat
    <2>1. u \in Nat /\ h \in Nat /\ within \in Nat /\ uncounted \in Nat
          /\ restarts["min"] \in Nat /\ restarts["hour"] \in Nat
      BY DEF QuotaInv, QuotaType, Quota!Period
    <2>2. CM \in Nat /\ CH \in Nat /\ Cardinality(MinuteQuotas) \in Nat
      BY Ceilings, FewerLimits
    <2> QED BY <2>1, <2>2
  <1>4. /\ within + A <= K + Least(u, CM) + uncounted
        /\ within + B <= J + Least(h, CH) + uncounted + R
        /\ R \in Nat /\ Least(u, CM) \in Nat /\ Least(h, CH) \in Nat
    <2>1. /\ MinuteHolds(within, track, usage, restarts, uncounted)
          /\ HourHolds(within, track, usage, restarts, uncounted)
      BY DEF QuotaInv
    <2>2. R \in Nat
      BY <1>3, ReachedCount
    <2>3. Least(u, CM) \in Nat /\ Least(h, CH) \in Nat
      BY <1>3, LeastFacts
    <2>4. A \in Nat /\ B \in Nat
      BY OpenCounts DEF QuotaInv
    <2>5. CH * restarts["hour"] \in Nat /\ Cardinality(MinuteQuotas) * restarts["min"] \in Nat
      <3>1. restarts["min"] \in Nat /\ restarts["hour"] \in Nat
        BY DEF QuotaInv, QuotaType, Quota!Period
      <3> QED BY <3>1, Ceilings, FewerLimits
    <2> HIDE DEF A, B, u, h, R
    <2> QED BY <1>3, <2>1, <2>2, <2>3, <2>4, <2>5 DEF MinuteHolds, HourHolds, A, B, u, h, R
  <1>5. SUFFICES /\ within' + A2 <= K + Least(usage'["min"], CM) + uncounted'
                 /\ within' + B2 <= J + Least(usage'["hour"], CH) + uncounted' + R2
    <2>1. restarts' = restarts
      BY <1>1
    <2>2. CH * restarts["hour"] \in Nat /\ Cardinality(MinuteQuotas) * restarts["min"] \in Nat
      <3>1. restarts["min"] \in Nat /\ restarts["hour"] \in Nat
        BY DEF QuotaInv, QuotaType, Quota!Period
      <3> QED BY <3>1, Ceilings, FewerLimits
    <2>3. QuotaType'
      BY QuotaTypeStep DEF QuotaInv
    <2>4. usage'["min"] \in Nat /\ usage'["hour"] \in Nat /\ uncounted' \in Nat /\ within' \in Nat
      BY <2>3 DEF QuotaType, Quota!Period
    <2>5. R2 \in Nat /\ Least(usage'["hour"], CH) \in Nat
      BY <1>3, <2>4, ReachedCount, LeastFacts
    <2> QED BY <1>5, <2>1, <2>2, <2>4, <2>5 DEF MinuteHolds, HourHolds
  <1>6. Least(u, CM) <= Least(u + 1, CM) /\ Least(h, CH) <= Least(h + 1, CH)
        /\ R <= Cardinality(Reached(u + 1))
        /\ Least(u + 1, CM) \in Nat /\ Least(h + 1, CH) \in Nat /\ Cardinality(Reached(u + 1)) \in Nat
    <2>1. u + 1 \in Nat /\ h + 1 \in Nat
      BY <1>3
    <2> QED BY <1>3, <2>1, LeastFacts, ReachedCount
  <1>7. tier[p] # Unlimited /\ tier["min"] \in MinuteQuotas /\ tier["hour"] \in HourQuotas
        /\ tier["min"] <= CM /\ tier["hour"] <= CH /\ tier["min"] \in Nat /\ tier["hour"] \in Nat
    BY DefinitionFields, Ceilings, BoundsAssumption DEF QuotaInv, QuotaType, Limited, BoundsAssumption
  <1>8. CASE Len(t) = 0
    <2>1. p = "min" /\ track' = [track EXCEPT ![c] = st] /\ within' = within
      BY <1>1, <1>8
    <2>2. /\ A \in Nat /\ (A2 = A \/ (A2 = A + 1 /\ ~s.exceeded))
          /\ B \in Nat /\ (B2 = B \/ (B2 = B + 1 /\ ~s.exceeded /\ Quota!Full(s)))
      <3>1. QuotaType
        BY DEF QuotaInv
      <3> HIDE DEF st
      <3>2. /\ A2 = A + (IF Open(st) THEN 1 ELSE 0) - (IF Open(t) THEN 1 ELSE 0) /\ A \in Nat
            /\ B2 = B + (IF OpenLate(st) THEN 1 ELSE 0) - (IF OpenLate(t) THEN 1 ELSE 0) /\ B \in Nat
        BY <2>1, <3>1, CallsCounted
      <3>3. /\ ~Open(t) /\ ~OpenLate(t) /\ (Open(st) <=> ~s.exceeded)
            /\ (OpenLate(st) <=> ~s.exceeded /\ Quota!Full(s))
        BY <1>2, <1>8, FirstStatus DEF st
      <3> HIDE DEF A, A2, B, B2, t
      <3> QED BY <3>2, <3>3
    <2>3. CASE /\ s = [used |-> u + 1, limit |-> tier["min"], exceeded |-> u + 1 > tier["min"]]
               /\ usage' = [usage EXCEPT !["min"] = @ + 1] /\ UNCHANGED uncounted
      <3>1. (s.exceeded <=> u + 1 > tier["min"]) /\ (Quota!Full(s) <=> u + 1 >= tier["min"])
        BY <2>3 DEF Quota!Full
      <3>2. usage'["min"] = u + 1 /\ usage'["hour"] = h
        BY <2>3 DEF QuotaInv, QuotaType, Quota!Period
      <3>3. ~s.exceeded => Least(u + 1, CM) = Least(u, CM) + 1
        <4>1. ~s.exceeded => u + 1 <= CM
          BY <1>3, <1>7, <3>1
        <4>2. u + 1 <= CM => Least(u + 1, CM) = Least(u, CM) + 1
          BY <1>3, LeastFacts
        <4> QED BY <4>1, <4>2
      <3>4. ~s.exceeded /\ Quota!Full(s) => R + 1 <= Cardinality(Reached(u + 1))
        <4>1. ~s.exceeded /\ Quota!Full(s) => u + 1 = tier["min"]
          BY <1>3, <1>7, <3>1
        <4>2. u + 1 \in MinuteQuotas => R + 1 <= Cardinality(Reached(u + 1))
          BY <1>3, ReachedCount
        <4>3. tier["min"] \in MinuteQuotas
          BY <1>7
        <4> HIDE DEF u, R
        <4>4. ~s.exceeded /\ Quota!Full(s) => u + 1 \in MinuteQuotas
          BY <4>1, <4>3
        <4> QED BY <4>2, <4>4
      <3> DEFINE r == Cardinality(Reached(u + 1))
                 l == Least(u, CM)
                 m == Least(u + 1, CM)
                 g == Least(h, CH)
      <3>5. /\ Least(usage'["min"], CM) = m /\ Least(usage'["hour"], CH) = g /\ R2 = r
            /\ uncounted' = uncounted /\ within' = within
        BY <2>1, <2>3, <3>2
      <3>6. m = l + 1 \/ s.exceeded
        BY <3>3
      <3>7. R + 1 <= r \/ s.exceeded \/ ~Quota!Full(s)
        BY <3>4
      <3>8. /\ within + A <= K + l + uncounted /\ within + B <= J + g + uncounted + R
            /\ l <= m /\ R <= r /\ l \in Nat /\ m \in Nat /\ R \in Nat /\ r \in Nat /\ g \in Nat
        BY <1>4, <1>6
      <3> HIDE DEF A, A2, B, B2, u, h, R, R2, K, J, r, l, m, g
      <3>9. within + A2 <= K + m + uncounted
        BY <1>3, <2>2, <3>6, <3>8
      <3>10. within + B2 <= J + g + uncounted + r
        BY <1>3, <2>2, <3>7, <3>8
      <3> QED BY <3>5, <3>9, <3>10
    <2>4. CASE s = Quota!Untracked /\ uncounted' = uncounted + 1 /\ UNCHANGED usage
      <3>1. ~Quota!Full(s)
        BY <2>4 DEF Quota!Untracked, Quota!Full
      <3> DEFINE l == Least(u, CM)
                 g == Least(h, CH)
      <3>2. /\ Least(usage'["min"], CM) = l /\ Least(usage'["hour"], CH) = g /\ R2 = R
            /\ uncounted' = uncounted + 1 /\ within' = within
        BY <2>1, <2>4
      <3>3. B2 = B
        BY <2>2, <3>1
      <3>4. A2 <= A + 1
        <4> HIDE DEF A, A2, B, B2
        <4> QED BY <2>2
      <3>5. /\ within + A <= K + l + uncounted /\ within + B <= J + g + uncounted + R
            /\ l \in Nat /\ R \in Nat /\ g \in Nat /\ A \in Nat /\ B \in Nat
        BY <1>4, <2>2
      <3>6. A2 \in Nat
        <4> HIDE DEF A, A2, B, B2
        <4> QED BY <2>2
      <3> HIDE DEF A, A2, B, B2, u, h, R, R2, K, J, l, g
      <3>7. within + A2 <= K + l + (uncounted + 1) /\ within + B2 <= J + g + (uncounted + 1) + R
        BY <1>3, <3>3, <3>4, <3>5, <3>6
      <3> QED BY <3>2, <3>7
    <2> QED BY <1>1, <1>7, <2>1, <2>3, <2>4
  <1>9. CASE Len(t) = 1
    <2>1. p = "hour" /\ track' = [track EXCEPT ![c] = st] /\ within' = within
      BY <1>1, <1>9
    <2>2. A2 = A /\ A \in Nat /\ B \in Nat /\ (B2 = B \/ (B2 = B + 1 /\ ~s.exceeded))
      <3>1. QuotaType
        BY DEF QuotaInv
      <3> HIDE DEF st
      <3>2. /\ A2 = A + (IF Open(st) THEN 1 ELSE 0) - (IF Open(t) THEN 1 ELSE 0) /\ A \in Nat
            /\ B2 = B + (IF OpenLate(st) THEN 1 ELSE 0) - (IF OpenLate(t) THEN 1 ELSE 0) /\ B \in Nat
        BY <2>1, <3>1, CallsCounted
      <3>3. /\ Open(st) <=> Open(t)
            /\ OpenLate(t) => OpenLate(st)
            /\ OpenLate(st) => OpenLate(t) \/ ~s.exceeded
        BY <1>2, <1>9, SecondStatus DEF st
      <3> HIDE DEF A, A2, B, B2, t
      <3> QED BY <3>2, <3>3
    <2>3. CASE /\ s = [used |-> h + 1, limit |-> tier["hour"], exceeded |-> h + 1 > tier["hour"]]
               /\ usage' = [usage EXCEPT !["hour"] = @ + 1] /\ UNCHANGED uncounted
      <3>1. s.exceeded <=> h + 1 > tier["hour"]
        BY <2>3
      <3>2. usage'["min"] = u /\ usage'["hour"] = h + 1
        BY <2>3 DEF QuotaInv, QuotaType, Quota!Period
      <3>3. ~s.exceeded => Least(h + 1, CH) = Least(h, CH) + 1
        <4>1. ~s.exceeded => h + 1 <= CH
          BY <1>3, <1>7, <3>1
        <4>2. h + 1 <= CH => Least(h + 1, CH) = Least(h, CH) + 1
          BY <1>3, LeastFacts
        <4> QED BY <4>1, <4>2
      <3> DEFINE l == Least(u, CM)
                 g == Least(h, CH)
                 f == Least(h + 1, CH)
      <3>5. /\ Least(usage'["min"], CM) = l /\ Least(usage'["hour"], CH) = f /\ R2 = R
            /\ uncounted' = uncounted /\ within' = within
        BY <2>1, <2>3, <3>2
      <3>6. f = g + 1 \/ s.exceeded
        BY <3>3
      <3>8. /\ within + A <= K + l + uncounted /\ within + B <= J + g + uncounted + R
            /\ g <= f /\ l \in Nat /\ f \in Nat /\ R \in Nat /\ g \in Nat
        BY <1>4, <1>6
      <3> HIDE DEF A, A2, B, B2, u, h, R, R2, K, J, l, g, f
      <3>9. within + A2 <= K + l + uncounted
        BY <1>3, <2>2, <3>8
      <3>10. within + B2 <= J + f + uncounted + R
        BY <1>3, <2>2, <3>6, <3>8
      <3> QED BY <3>5, <3>9, <3>10
    <2>4. CASE s = Quota!Untracked /\ uncounted' = uncounted + 1 /\ UNCHANGED usage
      <3> DEFINE l == Least(u, CM)
                 g == Least(h, CH)
      <3>2. /\ Least(usage'["min"], CM) = l /\ Least(usage'["hour"], CH) = g /\ R2 = R
            /\ uncounted' = uncounted + 1 /\ within' = within
        BY <2>1, <2>4
      <3>5. /\ within + A <= K + l + uncounted /\ within + B <= J + g + uncounted + R
            /\ l \in Nat /\ R \in Nat /\ g \in Nat
        BY <1>4
      <3> HIDE DEF A, A2, B, B2, u, h, R, R2, K, J, l, g
      <3>7. within + A2 <= K + l + (uncounted + 1) /\ within + B2 <= J + g + (uncounted + 1) + R
        BY <1>3, <2>2, <3>5
      <3> QED BY <3>2, <3>7
    <2> QED BY <1>1, <1>7, <2>1, <2>3, <2>4
  <1>10. CASE Len(t) = 2
    <2>1. p = "day" /\ track' = [track EXCEPT ![c] = <<>>]
          /\ within' = IF Quota!MostRestrictive(st).exceeded THEN within ELSE within + 1
      BY <1>1, <1>10
    <2>2. /\ A2 = A - (IF Open(t) THEN 1 ELSE 0) /\ A \in Nat /\ A2 \in Nat
          /\ B2 = B - (IF OpenLate(t) THEN 1 ELSE 0) /\ B \in Nat /\ B2 \in Nat
      <3>1. QuotaType
        BY DEF QuotaInv
      <3> DEFINE n == <<>>
      <3>2. track' = [track EXCEPT ![c] = n] /\ ~Open(n) /\ ~OpenLate(n)
        BY <2>1, NoneOpen
      <3> HIDE DEF n
      <3>3. /\ A2 = A + (IF Open(n) THEN 1 ELSE 0) - (IF Open(t) THEN 1 ELSE 0) /\ A \in Nat /\ A2 \in Nat
            /\ B2 = B + (IF OpenLate(n) THEN 1 ELSE 0) - (IF OpenLate(t) THEN 1 ELSE 0) /\ B \in Nat /\ B2 \in Nat
        BY <3>1, <3>2, CallsCounted
      <3> HIDE DEF A, A2, B, B2, t
      <3> QED BY <3>2, <3>3
    <2>3. ~Quota!MostRestrictive(st).exceeded => Open(t) /\ OpenLate(t)
      BY <1>2, <1>10, ThirdStatus
    <2>4. within' = within \/ (within' = within + 1 /\ Open(t) /\ OpenLate(t))
      BY <2>1, <2>3
    <2>5. (A2 = A \/ (A2 = A - 1 /\ Open(t))) /\ (B2 = B \/ (B2 = B - 1 /\ OpenLate(t)))
          /\ (Open(t) => A2 = A - 1) /\ (OpenLate(t) => B2 = B - 1)
      <3> HIDE DEF A, A2, B, B2, t
      <3> QED BY <2>2
    <2>6. within' + A2 <= within + A /\ within' + B2 <= within + B /\ within' \in Nat
      <3> HIDE DEF A, A2, B, B2, t
      <3> QED BY <1>3, <2>2, <2>4, <2>5
    <2>7. usage'["min"] = u /\ usage'["hour"] = h
      BY <1>1, <2>1 DEF QuotaInv, QuotaType, Quota!Period
    <2>8. uncounted' \in Nat /\ uncounted <= uncounted'
      BY <1>1, <1>3
    <2> DEFINE l == Least(u, CM)
               g == Least(h, CH)
    <2>9. Least(usage'["min"], CM) = l /\ Least(usage'["hour"], CH) = g /\ R2 = R
      BY <2>7
    <2>10. /\ within + A <= K + l + uncounted /\ within + B <= J + g + uncounted + R
           /\ l \in Nat /\ R \in Nat /\ g \in Nat
      BY <1>4
    <2>11. A \in Nat /\ A2 \in Nat /\ B \in Nat /\ B2 \in Nat
      BY <2>2
    <2> HIDE DEF A, A2, B, B2, t, u, h, R, R2, K, J, l, g
    <2>12. within' + A2 <= K + l + uncounted'
      <3>1. within' + A2 <= within + A /\ within' \in Nat
        BY <2>6
      <3>2. within + A <= K + l + uncounted /\ l \in Nat
        BY <2>10
      <3>3. uncounted' \in Nat /\ uncounted <= uncounted'
        BY <2>8
      <3>4. within \in Nat /\ uncounted \in Nat /\ K \in Nat /\ A \in Nat /\ A2 \in Nat
        BY <1>3, <2>11
      <3>5. K + l \in Int /\ within + A \in Int /\ within' + A2 \in Int
        BY <3>1, <3>2, <3>4
      <3> QED BY <3>1, <3>2, <3>3, <3>4, <3>5, Carry
    <2>13. within' + B2 <= J + g + uncounted' + R
      <3>1. within' + B2 <= within + B /\ within' \in Nat
        BY <2>6
      <3>2. within + B <= J + g + uncounted + R /\ g \in Nat /\ R \in Nat
        BY <2>10
      <3>3. uncounted' \in Nat /\ uncounted <= uncounted'
        BY <2>8
      <3>4. within \in Nat /\ uncounted \in Nat /\ J \in Nat /\ B \in Nat /\ B2 \in Nat
        BY <1>3, <2>11
      <3>5. J + g \in Int /\ within + B \in Int /\ within' + B2 \in Int
        BY <3>1, <3>2, <3>4
      <3> QED BY <3>1, <3>2, <3>3, <3>4, <3>5, CarryBetween
    <2> QED BY <2>9, <2>12, <2>13
  <1> QED BY <1>2, <1>8, <1>9, <1>10

\* Arithmetic of a reset: one more period pays for what is forgotten.
LEMMA OneMorePeriod ==
  ASSUME NEW m \in Nat, NEW n \in Nat
  PROVE  m * (n + 1) = m * n + m /\ m * n \in Nat /\ m * (1 + n) = m * n + m
  OBVIOUS

\* A reset forgets no more than one period allows.
LEMMA Forgiven ==
  ASSUME NEW x \in Int, NEW k \in Nat, NEW l \in Nat, NEW m \in Nat, NEW e \in Nat, NEW f \in Nat,
         x <= k + l + e, l <= m
  PROVE  x <= (k + m) + f + e
  OBVIOUS

\* A reset of a key keeps both bounds.
LEMMA ResetHolds ==
  ASSUME QuotaInv, Limited, NEW p \in Quota!Period, Quota!ResetUsage(p)
  PROVE  /\ MinuteHolds(within', track', usage', restarts', uncounted')
         /\ HourHolds(within', track', usage', restarts', uncounted')
  <1> DEFINE A == Cardinality(OpenCalls(track))
             B == Cardinality(LateCalls(track))
             M == Cardinality(MinuteQuotas)
             u == usage["min"]
             h == usage["hour"]
             r == restarts["min"]
             q == restarts["hour"]
             l == Least(u, CM)
             g == Least(h, CH)
             R == Cardinality(Reached(u))
             Z == Cardinality(Reached(0))
  <1>1. /\ u \in Nat /\ h \in Nat /\ r \in Nat /\ q \in Nat /\ within \in Nat /\ uncounted \in Nat
        /\ CM \in Nat /\ CH \in Nat /\ M \in Nat
    BY Ceilings, FewerLimits DEF QuotaInv, QuotaType, Quota!Period
  <1>2. /\ A \in Nat /\ B \in Nat
    BY OpenCounts DEF QuotaInv
  <1>3. /\ R \in Nat /\ R <= M /\ Z \in Nat
        /\ l \in Nat /\ l <= CM /\ g \in Nat /\ g <= CH /\ Least(0, CM) = 0 /\ Least(0, CH) = 0
    <2>1. 0 \in Nat
      OBVIOUS
    <2> QED BY <1>1, <2>1, ReachedCount, LeastFacts
  <1>4. /\ within + A <= CM * r + l + uncounted
        /\ within + B <= CH * q + g + uncounted + M * r + R
    BY DEF QuotaInv, MinuteHolds, HourHolds
  <1>5. /\ within' = within /\ track' = track /\ uncounted' = uncounted
        /\ usage' = [usage EXCEPT ![p] = 0] /\ restarts' = [restarts EXCEPT ![p] = @ + 1]
    BY DEF Quota!ResetUsage
  <1>6. usage \in [Quota!Period -> Nat] /\ restarts \in [Quota!Period -> Nat]
    BY DEF QuotaInv, QuotaType
  <1>7. /\ CM * (r + 1) = CM * r + CM /\ CH * (q + 1) = CH * q + CH /\ M * (r + 1) = M * r + M
        /\ CM * r \in Nat /\ CH * q \in Nat /\ M * r \in Nat
    <2> HIDE DEF M, r, q
    <2> QED BY <1>1, OneMorePeriod
  <1>8. CASE p = "min"
    <2>1. usage'["min"] = 0 /\ usage'["hour"] = h /\ restarts'["min"] = r + 1 /\ restarts'["hour"] = q
      BY <1>5, <1>6, <1>8 DEF Quota!Period
    <2>2. SUFFICES /\ within + A <= CM * (r + 1) + 0 + uncounted
                   /\ within + B <= CH * q + g + uncounted + M * (r + 1) + Z
      BY <1>3, <1>5, <2>1, <2>2 DEF MinuteHolds, HourHolds
    <2> DEFINE a == CM * r
               b == CH * q
               d == M * r
    <2>3. /\ within + A <= a + l + uncounted /\ within + B <= b + g + uncounted + d + R
          /\ CM * (r + 1) = a + CM /\ CH * (q + 1) = b + CH /\ M * (r + 1) = d + M
          /\ a \in Nat /\ b \in Nat /\ d \in Nat
      BY <1>4, <1>7
    <2> HIDE DEF A, B, M, r, q, l, g, R, Z, a, b, d
    <2>4. within + A <= (a + CM) + 0 + uncounted
      BY <1>1, <1>2, <1>3, <2>3
    <2>5. within + B <= b + g + uncounted + (d + M) + Z
      BY <1>1, <1>2, <1>3, <2>3
    <2> QED BY <2>3, <2>4, <2>5 DEF b
  <1>9. CASE p = "hour"
    <2>1. usage'["min"] = u /\ usage'["hour"] = 0 /\ restarts'["min"] = r /\ restarts'["hour"] = q + 1
      BY <1>5, <1>6, <1>9 DEF Quota!Period
    <2>2. SUFFICES /\ within + A <= CM * r + l + uncounted
                   /\ within + B <= CH * (q + 1) + 0 + uncounted + M * r + R
      BY <1>3, <1>5, <2>1, <2>2 DEF MinuteHolds, HourHolds
    <2> DEFINE b == CH * q
               d == M * r
    <2>3. /\ within + B <= b + g + uncounted + d + R
          /\ CH * (q + 1) = b + CH
          /\ b \in Nat /\ d \in Nat
      BY <1>4, <1>7
    <2>4. within + A <= CM * r + l + uncounted
      BY <1>4
    <2> HIDE DEF A, B, M, r, q, l, g, R, Z, b, d
    <2>5. within + B <= (b + CH) + 0 + uncounted + d + R
      BY <1>1, <1>2, <1>3, <2>3
    <2> QED BY <2>3, <2>4, <2>5 DEF d
  <1>10. CASE p = "day"
    <2>1. usage'["min"] = u /\ usage'["hour"] = h /\ restarts'["min"] = r /\ restarts'["hour"] = q
      BY <1>5, <1>6, <1>10 DEF Quota!Period
    <2> QED BY <1>4, <1>5, <2>1 DEF MinuteHolds, HourHolds
  <1> QED BY <1>8, <1>9, <1>10 DEF Quota!Period

\* Every step of the quota manager keeps the invariant.
LEMMA QuotaStep == QuotaInv /\ [Quota!Next]_Quota!vars => QuotaInv'
  <1> SUFFICES ASSUME QuotaInv, [Quota!Next]_Quota!vars PROVE QuotaInv'
    OBVIOUS
  <1>1. ASSUME NEW c \in Requests, Quota!TrackApplicationQuota(c) PROVE QuotaInv'
    <2>1. QuotaType'
      BY <1>1, QuotaTypeStep DEF QuotaInv
    <2>2. Limited => /\ MinuteHolds(within', track', usage', restarts', uncounted')
                     /\ HourHolds(within', track', usage', restarts', uncounted')
      BY <1>1, TrackHolds
    <2> QED BY <2>1, <2>2 DEF QuotaInv
  <1>2. ASSUME NEW p \in Quota!Period, Quota!ResetUsage(p) PROVE QuotaInv'
    <2>1. QuotaType'
      BY <1>2 DEF QuotaInv, QuotaType, Quota!ResetUsage
    <2>2. Limited => /\ MinuteHolds(within', track', usage', restarts', uncounted')
                     /\ HourHolds(within', track', usage', restarts', uncounted')
      BY <1>2, ResetHolds
    <2> QED BY <2>1, <2>2 DEF QuotaInv
  <1>3. ASSUME NEW d \in Definition, Quota!RegisterTier(d) PROVE QuotaInv'
    BY <1>3 DEF QuotaInv, QuotaType, Quota!RegisterTier
  <1>4. CASE UNCHANGED Quota!vars
    BY <1>4 DEF QuotaInv, QuotaType, Quota!vars
  <1> QED BY <1>1, <1>2, <1>3, <1>4 DEF Quota!Next

\* It holds at the start.
LEMMA QuotaStart == Quota!Init => QuotaInv
  <1> SUFFICES ASSUME Quota!Init PROVE QuotaInv
    OBVIOUS
  <1>1. QuotaType
    <2>1. <<>> \in Seq(Statuses)
      OBVIOUS
    <2>2. Len(<<>>) < 3
      OBVIOUS
    <2> QED BY <2>1, <2>2 DEF Quota!Init, QuotaType
  <1>2. OpenCalls(track) = {} /\ LateCalls(track) = {}
    BY NoneOpen DEF Quota!Init, OpenCalls, LateCalls, OpenLate
  <1>3. Cardinality(OpenCalls(track)) = 0 /\ Cardinality(LateCalls(track)) = 0
    BY <1>2, FS_EmptySet
  <1>4. /\ within = 0 /\ uncounted = 0 /\ usage["min"] = 0 /\ usage["hour"] = 0
        /\ restarts["min"] = 0 /\ restarts["hour"] = 0
    BY DEF Quota!Init, Quota!Period
  <1>5. CM \in Nat /\ CH \in Nat /\ Cardinality(MinuteQuotas) \in Nat
        /\ Least(0, CM) = 0 /\ Least(0, CH) = 0 /\ Cardinality(Reached(0)) \in Nat
    <2>1. 0 \in Nat
      OBVIOUS
    <2> QED BY <2>1, Ceilings, FewerLimits, LeastFacts, ReachedCount
  <1>6. MinuteHolds(within, track, usage, restarts, uncounted)
        /\ HourHolds(within, track, usage, restarts, uncounted)
    <2>1. 0 + 0 <= CM * 0 + 0 + 0
      BY <1>5
    <2>2. 0 + 0 <= CH * 0 + 0 + 0 + Cardinality(MinuteQuotas) * 0 + Cardinality(Reached(0))
      BY <1>5
    <2> QED BY <1>3, <1>4, <1>5, <2>1, <2>2 DEF MinuteHolds, HourHolds
  <1> QED BY <1>1, <1>6 DEF QuotaInv

\* Cardinality is the same in the instance.
LEMMA SameCount == Quota!Cardinality(Definition) = Cardinality(Definition)
  BY Zenon DEF Quota!Cardinality, Cardinality, Quota!IsFiniteSet, IsFiniteSet

\* The invariant implies the bounds on what is told to be within the quota.
LEMMA QuotaKept == QuotaInv => Quota!QuotaBound
  <1> SUFFICES ASSUME QuotaInv, Limited
      PROVE  /\ within <= CM * (1 + restarts["min"]) + uncounted
             /\ within <= CH * (1 + restarts["hour"]) + uncounted
                            + Cardinality(Definition) * (1 + restarts["min"])
    BY SameCount, Zenon DEF Quota!QuotaBound, Limited, CM, CH
  <1> DEFINE A == Cardinality(OpenCalls(track))
             B == Cardinality(LateCalls(track))
             M == Cardinality(MinuteQuotas)
             D == Cardinality(Definition)
             r == restarts["min"]
             q == restarts["hour"]
             l == Least(usage["min"], CM)
             g == Least(usage["hour"], CH)
             R == Cardinality(Reached(usage["min"]))
  <1>1. /\ r \in Nat /\ q \in Nat /\ within \in Nat /\ uncounted \in Nat
        /\ CM \in Nat /\ CH \in Nat /\ M \in Nat /\ D \in Nat /\ M <= D
    BY Ceilings, FewerLimits DEF QuotaInv, QuotaType, Quota!Period
  <1>2. A \in Nat /\ B \in Nat
    BY OpenCounts DEF QuotaInv
  <1>3. R \in Nat /\ R <= M /\ l \in Nat /\ l <= CM /\ g \in Nat /\ g <= CH
    <2>1. usage["min"] \in Nat /\ usage["hour"] \in Nat
      BY DEF QuotaInv, QuotaType, Quota!Period
    <2> QED BY <1>1, <2>1, ReachedCount, LeastFacts
  <1>4. within + A <= CM * r + l + uncounted /\ within + B <= CH * q + g + uncounted + M * r + R
    BY DEF QuotaInv, MinuteHolds, HourHolds
  <1>5. /\ CM * (1 + r) = CM * r + CM /\ CH * (1 + q) = CH * q + CH
        /\ M * (1 + r) = M * r + M /\ D * (1 + r) = D * r + D
        /\ CM * r \in Nat /\ CH * q \in Nat /\ M * r \in Nat /\ D * r \in Nat
    <2> HIDE DEF M, D, r, q
    <2> QED BY <1>1, OneMorePeriod
  <1>6. M * (1 + r) <= D * (1 + r)
    <2>1. 1 + r \in Nat
      BY <1>1
    <2> DEFINE n == 1 + r
    <2> HIDE DEF n, M, D
    <2>2. M \in Nat /\ D \in Nat /\ M <= D /\ n \in Nat
      BY <1>1, <2>1 DEF n
    <2>3. PICK e \in Nat : D = M + e
      <3>1. D - M \in Nat /\ D = M + (D - M)
        BY <2>2
      <3> QED BY <3>1
    <2>4. D * n = M * n + e * n /\ e * n \in Nat /\ M * n \in Nat
      BY <2>2, <2>3
    <2>5. M * n <= D * n
      BY <2>4
    <2> QED BY <2>5 DEF n
  <1> DEFINE a == CM * r
             b == CH * q
             d == M * r
             f == D * (1 + r)
             k == CM * (1 + r)
             j == CH * (1 + q)
  <1>7. /\ within + A <= a + l + uncounted /\ within + B <= b + g + uncounted + d + R
        /\ k = a + CM /\ j = b + CH /\ d + M <= f
        /\ a \in Nat /\ b \in Nat /\ d \in Nat /\ f \in Nat
    <2>1. f \in Nat
      <3> HIDE DEF D, r
      <3> QED BY <1>1, <1>5
    <2>2. d + M <= f
      <3> HIDE DEF D, r, M
      <3> QED BY <1>5, <1>6
    <2> QED BY <1>4, <1>5, <2>1, <2>2
  <1> HIDE DEF A, B, M, D, r, q, l, g, R, a, b, d, f, k, j
  <1>8. within <= k + uncounted
    BY <1>1, <1>2, <1>3, <1>7
  <1>9. within <= j + uncounted + f
    BY <1>1, <1>2, <1>3, <1>7
  <1> QED BY <1>8, <1>9 DEF k, j, f, D, r, q

-------------------------------------------------------------------------------
(* The keys of the sandbox *)

KeyRecord == [app: SandboxApps, active: BOOLEAN, rate: Nat, quota: Nat, used: Nat,
              until: Nat \cup {None}]
KeyBucket == [tokens: Nat, last: Nat]
KeyRequest == [key: SandboxKeys, at: {"valid", "rate", "quota", "load", "store"}, read: Nat,
               alone: BOOLEAN]

\* None is no key, no bucket and no request.
LEMMA SandboxAbsence == None \notin KeyRecord /\ None \notin KeyBucket /\ None \notin KeyRequest
  BY AbsenceAssumption DEF AbsenceAssumption, KeyRecord, KeyBucket, KeyRequest

\* Request q is being counted for key k.
Busy(q, k) == q # None /\ q.at \in {"load", "store"} /\ q.key = k

SandboxType ==
  /\ minute \in Nat
  /\ keys \subseteq SandboxKeys
  /\ key \in [SandboxKeys -> KeyRecord \cup {None}]
  /\ keyBuckets \in [SandboxKeys -> KeyBucket \cup {None}]
  /\ request \in [Requests -> KeyRequest \cup {None}]
  /\ passed \in [SandboxKeys -> Nat]
  /\ uses \in [SandboxKeys -> Nat]
  /\ overlapped \in [SandboxKeys -> Nat]

Created ==
  /\ \A k \in keys : key[k] # None
  /\ \A r \in Requests : request[r] # None => key[request[r].key] # None
  /\ \A k \in SandboxKeys : key[k] = None =>
        keyBuckets[k] = None /\ passed[k] = 0 /\ uses[k] = 0 /\ overlapped[k] = 0

\* What a bucket let pass and holds, against what it held when full and was refilled.
Paid(p, b, rate, now_) ==
  IF b = None THEN p = 0
  ELSE b.last <= now_ /\ p * Window + b.tokens <= rate * (Window + b.last)

Rated == \A k \in SandboxKeys : key[k] # None => Paid(passed[k], keyBuckets[k], key[k].rate, minute)

\* Uses that were counted alone are in the count, and in every count that was read.
Counted ==
  \A k \in SandboxKeys : key[k] # None =>
    /\ uses[k] <= overlapped[k] + key[k].used
    /\ key[k].quota # 0 => uses[k] <= overlapped[k] + key[k].quota
    /\ \A r \in Requests : Busy(request[r], k) /\ request[r].at = "store" =>
         uses[k] <= overlapped[k] + request[r].read

\* A request that is counted alone leaves room for itself.
AloneFits ==
  \A k \in SandboxKeys, r \in Requests : Busy(request[r], k) /\ request[r].alone =>
    /\ \A s \in Requests \ {r} : ~Busy(request[s], k)
    /\ key[k].quota # 0 => key[k].used < key[k].quota
    /\ request[r].at = "store" => request[r].read = key[k].used

SandboxInv == SandboxType /\ Created /\ Rated /\ Counted /\ AloneFits

\* Requests being counted, in the words of these lemmas.
LEMMA AtBusy ==
  /\ \A r, at : Sandbox!At(r, at) <=> request[r] # None /\ request[r].at = at
  /\ \A k \in SandboxKeys : Sandbox!Counting(k) = {r \in Requests : Busy(request[r], k)}
  BY DEF Sandbox!At, Sandbox!Counting, Busy

\* Keys, buckets and tallies stay; only one request moves.
LEMMA KeyCreated ==
  ASSUME SandboxInv, NEW k \in SandboxKeys, NEW a \in SandboxApps, Sandbox!CreateSandboxKey(k, a)
  PROVE  SandboxInv'
  <1>1. PICK n \in KeyRecord : n.used = 0 /\ key' = [key EXCEPT ![k] = n]
    <2>1. PICK rate \in SandboxRates, quota \in SandboxQuotas, life \in Lifetimes :
            key' = [key EXCEPT ![k] = [app |-> a, active |-> TRUE, rate |-> rate,
                                     quota |-> quota, used |-> 0,
                                     until |-> IF life = None THEN None ELSE minute + life]]
      BY DEF Sandbox!CreateSandboxKey
    <2>2. (IF life = None THEN None ELSE minute + life) \in Nat \cup {None}
      BY BoundsAssumption DEF BoundsAssumption, SandboxInv, SandboxType
    <2>3. rate \in Nat /\ quota \in Nat
      BY BoundsAssumption DEF BoundsAssumption
    <2> DEFINE u == IF life = None THEN None ELSE minute + life
               n == [app |-> a, active |-> TRUE, rate |-> rate, quota |-> quota, used |-> 0, until |-> u]
    <2> HIDE DEF u
    <2>4. n \in KeyRecord /\ n.used = 0
      BY <2>2, <2>3 DEF KeyRecord, u
    <2> QED BY <2>1, <2>4 DEF u
  <1>2. /\ key[k] = None /\ keys' = keys \cup {k}
        /\ minute' = minute /\ keyBuckets' = keyBuckets /\ request' = request
        /\ passed' = passed /\ uses' = uses /\ overlapped' = overlapped
    BY DEF Sandbox!CreateSandboxKey
  <1>3. /\ SandboxType /\ Created /\ Rated /\ Counted /\ AloneFits
    BY DEF SandboxInv
  <1>4. key'[k] = n /\ n # None /\ n.rate \in Nat /\ n.quota \in Nat /\ \A j \in SandboxKeys \ {k} : key'[j] = key[j]
    BY <1>1, <1>3, SandboxAbsence DEF SandboxType, KeyRecord
  <1>5. \A r \in Requests : request[r] # None => request[r].key \in SandboxKeys /\ request[r].key # k
    BY <1>2, <1>3 DEF SandboxType, Created, KeyRequest
  <1>6. \A r \in Requests : ~Busy(request[r], k)
    BY <1>5 DEF Busy
  <1>7. keyBuckets[k] = None /\ passed[k] = 0 /\ uses[k] = 0 /\ overlapped[k] = 0
    BY <1>2, <1>3 DEF Created
  <1>8. SandboxType'
    BY <1>1, <1>2, <1>3 DEF SandboxType
  <1>9. Created'
    <2>1. \A j \in keys' : key'[j] # None
      BY <1>2, <1>3, <1>4 DEF Created, SandboxType
    <2>2. \A r \in Requests : request'[r] # None => key'[request'[r].key] # None
      BY <1>2, <1>3, <1>4, <1>5 DEF Created
    <2>3. \A j \in SandboxKeys : key'[j] = None =>
            keyBuckets'[j] = None /\ passed'[j] = 0 /\ uses'[j] = 0 /\ overlapped'[j] = 0
      BY <1>2, <1>3, <1>4 DEF Created
    <2> QED BY <2>1, <2>2, <2>3 DEF Created
  <1>10. Rated'
    BY <1>2, <1>3, <1>4, <1>7 DEF Rated, Paid
  <1>11. Counted'
    <2> SUFFICES ASSUME NEW j \in SandboxKeys, key'[j] # None
        PROVE  /\ uses[j] <= overlapped[j] + key'[j].used
               /\ key'[j].quota # 0 => uses[j] <= overlapped[j] + key'[j].quota
               /\ \A r \in Requests : Busy(request[r], j) /\ request[r].at = "store" =>
                    uses[j] <= overlapped[j] + request[r].read
      BY <1>2 DEF Counted
    <2>1. CASE j = k
      BY <1>1, <1>4, <1>6, <1>7, <2>1
    <2>2. CASE j # k
      BY <1>3, <1>4, <2>2 DEF Counted
    <2> QED BY <2>1, <2>2
  <1>12. AloneFits'
    <2> SUFFICES ASSUME NEW j \in SandboxKeys, NEW r \in Requests, Busy(request[r], j), request[r].alone
        PROVE  /\ \A s \in Requests \ {r} : ~Busy(request[s], j)
               /\ key'[j].quota # 0 => key'[j].used < key'[j].quota
               /\ request[r].at = "store" => request[r].read = key'[j].used
      BY <1>2 DEF AloneFits
    <2>1. j # k
      BY <1>6
    <2> QED BY <1>3, <1>4, <2>1 DEF AloneFits
  <1> QED BY <1>8, <1>9, <1>10, <1>11, <1>12 DEF SandboxInv

\* Revoking a key changes neither its rate, nor its quota, nor its count.
LEMMA KeyRevoked ==
  ASSUME SandboxInv, NEW k \in SandboxKeys, Sandbox!RevokeKey(k)
  PROVE  SandboxInv'
  <1>1. /\ SandboxType /\ Created /\ Rated /\ Counted /\ AloneFits
    BY DEF SandboxInv
  <1>2. /\ k \in keys /\ key' = [key EXCEPT ![k].active = FALSE]
        /\ minute' = minute /\ keys' = keys /\ keyBuckets' = keyBuckets /\ request' = request
        /\ passed' = passed /\ uses' = uses /\ overlapped' = overlapped
    BY DEF Sandbox!RevokeKey
  <1>3. key[k] \in KeyRecord
    BY <1>1, <1>2 DEF SandboxType, Created
  <1>4. key'[k] = [key[k] EXCEPT !.active = FALSE] /\ \A j \in SandboxKeys \ {k} : key'[j] = key[j]
    BY <1>1, <1>2 DEF SandboxType
  <1>5. key'[k] \in KeyRecord /\ key'[k].rate = key[k].rate /\ key'[k].quota = key[k].quota
        /\ key'[k].used = key[k].used
    BY <1>3, <1>4 DEF KeyRecord
  <1>6. \A j \in SandboxKeys : /\ key'[j] = None <=> key[j] = None
                               /\ key[j] # None => key'[j].rate = key[j].rate /\ key'[j].quota = key[j].quota
                                                   /\ key'[j].used = key[j].used
    BY <1>3, <1>4, <1>5, SandboxAbsence
  <1>7. SandboxType'
    BY <1>1, <1>2, <1>4, <1>5 DEF SandboxType
  <1>8. Created'
    <2>1. \A r \in Requests : request[r] # None => request[r].key \in SandboxKeys
      BY <1>1 DEF SandboxType, KeyRequest
    <2> QED BY <1>1, <1>2, <1>6, <2>1 DEF Created, SandboxType
  <1>9. Rated'
    BY <1>1, <1>2, <1>6 DEF Rated
  <1>10. Counted'
    BY <1>1, <1>2, <1>6 DEF Counted
  <1>11. AloneFits'
    <2>1. \A j \in SandboxKeys, r \in Requests : Busy(request[r], j) => key[j] # None
      BY <1>1 DEF Busy, Created
    <2> QED BY <1>1, <1>2, <1>6, <2>1 DEF AloneFits
  <1> QED BY <1>7, <1>8, <1>9, <1>10, <1>11 DEF SandboxInv

\* A request moves and is not counted afterwards.
LEMMA RequestMoved ==
  ASSUME SandboxInv, NEW r \in Requests, NEW n, n = None \/ n \in KeyRequest,
         request' = [request EXCEPT ![r] = n],
         n # None => key[n.key] # None,
         n # None => n.at \notin {"load", "store"},
         minute' = minute, keys' = keys, key' = key, keyBuckets' = keyBuckets,
         passed' = passed, uses' = uses, overlapped' = overlapped
  PROVE  SandboxInv'
  <1>1. /\ SandboxType /\ Created /\ Rated /\ Counted /\ AloneFits
    BY DEF SandboxInv
  <1>2. request'[r] = n /\ \A q \in Requests \ {r} : request'[q] = request[q]
    BY <1>1 DEF SandboxType
  <1>3. \A k : ~Busy(n, k)
    BY DEF Busy
  <1>4. SandboxType'
    BY <1>1, <1>2 DEF SandboxType
  <1>5. Created'
    BY <1>1, <1>2 DEF Created
  <1>6. Rated'
    BY <1>1 DEF Rated
  <1>7. Counted'
    BY <1>1, <1>2, <1>3 DEF Counted
  <1>8. AloneFits'
    BY <1>1, <1>2, <1>3 DEF AloneFits
  <1> QED BY <1>4, <1>5, <1>6, <1>7, <1>8 DEF SandboxInv

\* Arithmetic of a refill.
LEMMA Refill ==
  ASSUME NEW p \in Nat, NEW t \in Nat, NEW l \in Nat, NEW m \in Nat, NEW rate \in Nat, l <= m,
         p * Window + t <= rate * (Window + l)
  PROVE  /\ (m - l) * rate \in Nat
         /\ p * Window + (t + (m - l) * rate) <= rate * (Window + m)
  <1>1. PICK e \in Nat : m = l + e
    <2>1. m - l \in Nat /\ m = l + (m - l)
      OBVIOUS
    <2> QED BY <2>1
  <1>2. m - l = e /\ e * rate \in Nat /\ rate * (Window + m) = rate * (Window + l) + e * rate
    BY <1>1
  <1>3. p * Window \in Nat /\ rate * (Window + l) \in Nat
    OBVIOUS
  <1> QED BY <1>2, <1>3

\* What a bucket holds after it was refilled.
LEMMA RefilledPays ==
  ASSUME SandboxType, Rated, NEW k \in SandboxKeys, key[k] # None
  PROVE  /\ Sandbox!Refilled(k) \in Nat
         /\ passed[k] * Window + Sandbox!Refilled(k) <= key[k].rate * (Window + minute)
  <1> DEFINE p == passed[k]
             b == keyBuckets[k]
             rate == key[k].rate
             full == rate * Window
             more == b.tokens + (minute - b.last) * rate
  <1>1. p \in Nat /\ rate \in Nat /\ minute \in Nat /\ full \in Nat
        /\ rate * (Window + minute) = full + rate * minute /\ rate * minute \in Nat
    <2>1. p \in Nat /\ rate \in Nat /\ minute \in Nat
      BY DEF SandboxType, KeyRecord
    <2> HIDE DEF rate
    <2> QED BY <2>1
  <1>2. Sandbox!Refilled(k) = IF b = None THEN full ELSE Sandbox!Lesser(full, more)
    BY DEF Sandbox!Refilled
  <1>3. CASE b = None
    <2>1. p = 0
      BY <1>3 DEF Rated, Paid
    <2> HIDE DEF p, rate, full
    <2>2. p * Window + full <= rate * (Window + minute)
      BY <1>1, <2>1
    <2> HIDE DEF b
    <2> QED BY <1>1, <1>2, <1>3, <2>2 DEF p, rate
  <1>4. CASE b # None
    <2>1. b.tokens \in Nat /\ b.last \in Nat
      BY <1>4 DEF SandboxType, KeyBucket
    <2>2. b.last <= minute /\ p * Window + b.tokens <= rate * (Window + b.last)
      BY <1>4 DEF Rated, Paid
    <2> DEFINE t == b.tokens
               l == b.last
    <2>3. t \in Nat /\ l \in Nat /\ l <= minute /\ p * Window + t <= rate * (Window + l)
      BY <2>1, <2>2
    <2> HIDE DEF p, rate, t, l
    <2>4. (minute - l) * rate \in Nat /\ p * Window + (t + (minute - l) * rate) <= rate * (Window + minute)
      BY <1>1, <2>3, Refill
    <2> DEFINE m == t + (minute - l) * rate
    <2>5. m \in Nat /\ p * Window + m <= rate * (Window + minute) /\ more = m
      BY <2>3, <2>4 DEF t, l
    <2>6. Sandbox!Refilled(k) = IF full <= m THEN full ELSE m
      BY <1>2, <1>4, <2>5 DEF Sandbox!Lesser
    <2> HIDE DEF m, full, more
    <2>7. p * Window \in Nat /\ rate * (Window + minute) \in Nat
      BY <1>1
    <2> DEFINE f == Sandbox!Refilled(k)
    <2>8. f = m \/ (f = full /\ full <= m)
      BY <2>6
    <2> HIDE DEF f
    <2>9. f \in Nat /\ p * Window + f <= rate * (Window + minute)
      BY <1>1, <2>5, <2>7, <2>8
    <2> QED BY <2>9 DEF p, rate, f
  <1> QED BY <1>3, <1>4

\* The rate limiter lets a request pass for a token, or refuses it.
LEMMA Passing ==
  ASSUME SandboxInv, NEW r \in Requests, Sandbox!Allow(r)
  PROVE  SandboxInv'
  <1> DEFINE k == request[r].key
             f == Sandbox!Refilled(k)
  <1>1. /\ SandboxType /\ Created /\ Rated /\ Counted /\ AloneFits
    BY DEF SandboxInv
  <1>2. /\ request[r] # None /\ request[r].at = "rate"
        /\ minute' = minute /\ keys' = keys /\ key' = key /\ uses' = uses /\ overlapped' = overlapped
    BY AtBusy DEF Sandbox!Allow
  <1>3. request[r] \in KeyRequest /\ k \in SandboxKeys /\ key[k] # None
    BY <1>1, <1>2 DEF SandboxType, Created, KeyRequest
  <1>4. f \in Nat /\ passed[k] * Window + f <= key[k].rate * (Window + minute)
    BY <1>1, <1>3, RefilledPays
  <1>5. passed[k] \in Nat /\ minute \in Nat /\ key[k].rate \in Nat
    BY <1>1, <1>3 DEF SandboxType, KeyRecord
  <1>6. PICK b, n :
          /\ b \in KeyBucket
          /\ keyBuckets' = [keyBuckets EXCEPT ![k] = b] /\ b.last = minute
          /\ request' = [request EXCEPT ![r] = n]
          /\ \/ passed' = [passed EXCEPT ![k] = @ + 1] /\ b.tokens = f - Window /\ f >= Window
                /\ n = [request[r] EXCEPT !.at = "quota"]
             \/ passed' = passed /\ b.tokens = f /\ n = None
    <2>1. CASE /\ f >= Window
               /\ keyBuckets' = [keyBuckets EXCEPT ![k] = [tokens |-> f - Window, last |-> minute]]
               /\ passed' = [passed EXCEPT ![k] = @ + 1]
               /\ request' = [request EXCEPT ![r].at = "quota"]
      <3>1. f - Window \in Nat
        <4> HIDE DEF f
        <4> QED BY <1>4, <2>1
      <3> DEFINE b == [tokens |-> f - Window, last |-> minute]
      <3> HIDE DEF f
      <3>2. b \in KeyBucket /\ b.last = minute /\ b.tokens = f - Window
        BY <1>5, <3>1 DEF KeyBucket
      <3> QED BY <2>1, <3>2
    <2>2. CASE /\ keyBuckets' = [keyBuckets EXCEPT ![k] = [tokens |-> f, last |-> minute]]
               /\ request' = [request EXCEPT ![r] = None]
               /\ passed' = passed
      <3> DEFINE b == [tokens |-> f, last |-> minute]
      <3> HIDE DEF f
      <3>2. b \in KeyBucket /\ b.last = minute /\ b.tokens = f
        BY <1>4, <1>5 DEF KeyBucket
      <3> QED BY <2>2, <3>2
    <2> QED BY <2>1, <2>2 DEF Sandbox!Allow, Sandbox!Refuse
  <1>7. n = None \/ (n \in KeyRequest /\ n.key = k /\ n.at = "quota")
    BY <1>3, <1>6 DEF KeyRequest
  <1>8. request'[r] = n /\ \A q \in Requests \ {r} : request'[q] = request[q]
    BY <1>1, <1>6 DEF SandboxType
  <1>9. \A j : ~Busy(n, j)
    BY <1>7 DEF Busy
  <1>10. b # None /\ keyBuckets'[k] = b /\ \A j \in SandboxKeys \ {k} : keyBuckets'[j] = keyBuckets[j] /\ passed'[j] = passed[j]
    BY <1>1, <1>3, <1>6, SandboxAbsence DEF SandboxType
  <1>11. passed'[k] \in Nat /\ passed'[k] * Window + b.tokens <= key[k].rate * (Window + minute)
    <2> DEFINE p == passed[k]
               z == key[k].rate * (Window + minute)
    <2>1. p * Window + f <= z /\ p \in Nat /\ f \in Nat /\ z \in Nat
      BY <1>4, <1>5
    <2>2. CASE passed'[k] = p + 1 /\ b.tokens = f - Window /\ f >= Window
      <3> HIDE DEF p, z, f
      <3>1. (p + 1) * Window = p * Window + Window /\ p * Window \in Nat
        BY <2>1
      <3>2. (p + 1) * Window + (f - Window) <= z
        BY <2>1, <3>1
      <3> QED BY <2>1, <2>2, <3>2 DEF z
    <2>3. CASE passed'[k] = p /\ b.tokens = f
      BY <2>1, <2>3
    <2>4. passed \in [SandboxKeys -> Nat]
      BY <1>1 DEF SandboxType
    <2> HIDE DEF f
    <2>5. passed'[k] = p + 1 \/ passed' = passed
      BY <1>3, <1>6, <2>4
    <2> QED BY <1>3, <1>6, <2>2, <2>3, <2>4
  <1>12. SandboxType'
    <2>1. passed' \in [SandboxKeys -> Nat]
      BY <1>1, <1>3, <1>6 DEF SandboxType
    <2> QED BY <1>1, <1>2, <1>6, <1>7, <2>1 DEF SandboxType
  <1>13. Created'
    <2>1. \A j \in keys' : key'[j] # None
      BY <1>1, <1>2 DEF Created
    <2>2. \A q \in Requests : request'[q] # None => key'[request'[q].key] # None
      BY <1>1, <1>2, <1>3, <1>7, <1>8 DEF Created
    <2>3. \A j \in SandboxKeys : key'[j] = None =>
            keyBuckets'[j] = None /\ passed'[j] = 0 /\ uses'[j] = 0 /\ overlapped'[j] = 0
      BY <1>1, <1>2, <1>3, <1>10 DEF Created
    <2> QED BY <2>1, <2>2, <2>3 DEF Created
  <1>14. Rated'
    <2>1. minute <= minute
      BY <1>5
    <2> QED BY <1>1, <1>2, <1>6, <1>10, <1>11, <2>1 DEF Rated, Paid
  <1>15. Counted'
    BY <1>1, <1>2, <1>8, <1>9 DEF Counted
  <1>16. AloneFits'
    BY <1>1, <1>2, <1>8, <1>9 DEF AloneFits
  <1> QED BY <1>12, <1>13, <1>14, <1>15, <1>16 DEF SandboxInv

\* The check of the quota: the request is counted now, alone if no other is.
LEMMA QuotaChecked ==
  ASSUME SandboxInv, NEW r \in Requests, Sandbox!CheckQuota(r), Sandbox!HasQuota(request[r].key)
  PROVE  SandboxInv'
  <1> DEFINE k == request[r].key
  <1>1. /\ SandboxType /\ Created /\ Rated /\ Counted /\ AloneFits
    BY DEF SandboxInv
  <1>2. /\ request[r] # None /\ request[r].at = "quota"
        /\ minute' = minute /\ keys' = keys /\ key' = key /\ keyBuckets' = keyBuckets
        /\ passed' = passed /\ uses' = uses /\ overlapped' = overlapped
    BY AtBusy DEF Sandbox!CheckQuota
  <1>3. request[r] \in KeyRequest /\ k \in SandboxKeys /\ key[k] # None
    BY <1>1, <1>2 DEF SandboxType, Created, KeyRequest
  <1>4. Sandbox!Counting(k) = {q \in Requests : Busy(request[q], k)}
    BY <1>3, AtBusy
  <1> DEFINE alone == \A q \in Requests : ~Busy(request[q], k)
             n == [request[r] EXCEPT !.at = "load", !.alone = alone]
  <1>5. request' = [q \in Requests |->
                      IF q = r THEN n
                      ELSE IF Busy(request[q], k) THEN [request[q] EXCEPT !.alone = FALSE]
                      ELSE request[q]]
    <2>1. (Sandbox!Counting(k) = {}) = alone
      BY <1>4
    <2>2. \A q \in Requests : q \in Sandbox!Counting(k) <=> Busy(request[q], k)
      BY <1>4
    <2>3. request' = [q \in Requests |->
                 IF q = r THEN [request[r] EXCEPT !.at = "load", !.alone = Sandbox!Counting(k) = {}]
                 ELSE IF q \in Sandbox!Counting(k) THEN [request[q] EXCEPT !.alone = FALSE]
                 ELSE request[q]]
      BY DEF Sandbox!CheckQuota
    <2>4. request' = [q \in Requests |->
                 IF q = r THEN n
                 ELSE IF q \in Sandbox!Counting(k) THEN [request[q] EXCEPT !.alone = FALSE]
                 ELSE request[q]]
      BY <2>1, <2>3
    <2> HIDE DEF n, alone
    <2> QED BY <2>2, <2>4
  <1>6. n \in KeyRequest /\ n.key = k /\ n.at = "load" /\ (n.alone <=> alone)
    <2>1. alone \in BOOLEAN
      OBVIOUS
    <2> HIDE DEF alone
    <2> QED BY <1>3, <2>1 DEF KeyRequest
  <1> HIDE DEF n, alone
  <1>7. \A q \in Requests \ {r} :
          /\ Busy(request[q], k) => request'[q] = [request[q] EXCEPT !.alone = FALSE]
          /\ ~Busy(request[q], k) => request'[q] = request[q]
    BY <1>5
  <1>8. request'[r] = n
    BY <1>5
  <1>9. \A q \in Requests \ {r} : Busy(request[q], k) =>
          /\ request[q] \in KeyRequest
          /\ request'[q] \in KeyRequest /\ ~request'[q].alone /\ request'[q].key = k
          /\ request'[q].at = request[q].at /\ request'[q].read = request[q].read
    <2> SUFFICES ASSUME NEW q \in Requests \ {r}, Busy(request[q], k)
        PROVE  /\ request[q] \in KeyRequest
               /\ request'[q] \in KeyRequest /\ ~request'[q].alone /\ request'[q].key = k
               /\ request'[q].at = request[q].at /\ request'[q].read = request[q].read
      OBVIOUS
    <2>1. request[q] \in KeyRequest /\ request[q].key = k
      BY <1>1 DEF SandboxType, Busy
    <2>2. request'[q] = [request[q] EXCEPT !.alone = FALSE]
      BY <1>7
    <2> HIDE DEF k
    <2> QED BY <2>1, <2>2 DEF KeyRequest
  <1>10. \A q \in Requests : request'[q] \in KeyRequest \cup {None}
    BY <1>1, <1>6, <1>7, <1>8, <1>9 DEF SandboxType
  <1>11. n # None /\ \A q \in Requests \ {r} : Busy(request[q], k) => request'[q] # None
    BY <1>6, <1>9, SandboxAbsence
  <1>12. \A q \in Requests \ {r}, j \in SandboxKeys : Busy(request'[q], j) <=> Busy(request[q], j)
    <2> SUFFICES ASSUME NEW q \in Requests \ {r}, NEW j \in SandboxKeys
        PROVE  Busy(request'[q], j) <=> Busy(request[q], j)
      OBVIOUS
    <2>1. CASE Busy(request[q], k)
      <3>1. request'[q].at = request[q].at /\ request'[q].key = request[q].key /\ request'[q] # None /\ request[q] # None
        BY <1>9, <1>11, <2>1 DEF Busy
      <3> QED BY <3>1 DEF Busy
    <2>2. CASE ~Busy(request[q], k)
      BY <1>7, <2>2
    <2> QED BY <2>1, <2>2
  <1>13. Busy(n, k) /\ \A j : j # k => ~Busy(n, j)
    BY <1>6, <1>11 DEF Busy
  <1>14. SandboxType'
    <2>1. request' \in [Requests -> KeyRequest \cup {None}]
      BY <1>5, <1>10
    <2> QED BY <1>1, <1>2, <2>1 DEF SandboxType
  <1>15. Created'
    <2>1. \A q \in Requests : request'[q] # None => key[request'[q].key] # None
      <3>1. \A q \in Requests \ {r} : Busy(request[q], k) => request'[q].key = k
        BY <1>9
      <3> QED BY <1>1, <1>3, <1>6, <1>7, <1>8, <3>1 DEF Created
    <2> QED BY <1>1, <1>2, <2>1 DEF Created
  <1>16. Rated'
    BY <1>1, <1>2 DEF Rated
  <1>17. Counted'
    <2> SUFFICES ASSUME NEW j \in SandboxKeys, key[j] # None, NEW q \in Requests,
                        Busy(request'[q], j), request'[q].at = "store"
        PROVE  uses[j] <= overlapped[j] + request'[q].read
      BY <1>1, <1>2 DEF Counted
    <2>1. q # r
      BY <1>6, <1>8
    <2>2. Busy(request[q], j)
      BY <1>12, <2>1
    <2>3. request'[q].at = request[q].at /\ request'[q].read = request[q].read
      BY <1>7, <1>9, <2>1
    <2> QED BY <1>1, <2>2, <2>3 DEF Counted
  <1>18. AloneFits'
    <2> SUFFICES ASSUME NEW j \in SandboxKeys, NEW q \in Requests, Busy(request'[q], j), request'[q].alone
        PROVE  /\ \A s \in Requests \ {q} : ~Busy(request'[s], j)
               /\ key[j].quota # 0 => key[j].used < key[j].quota
               /\ request'[q].at = "store" => request'[q].read = key[j].used
      BY <1>2 DEF AloneFits
    <2>1. CASE q = r
      <3>1. j = k /\ alone
        BY <1>6, <1>8, <1>13, <2>1
      <3>2. \A s \in Requests \ {q} : ~Busy(request'[s], j)
        BY <1>3, <1>12, <2>1, <3>1 DEF alone
      <3>3. key[j].quota # 0 => key[j].used < key[j].quota
        BY <3>1 DEF Sandbox!HasQuota
      <3>4. request'[q].at # "store"
        BY <1>6, <1>8, <2>1
      <3> QED BY <3>2, <3>3, <3>4
    <2>2. CASE q # r
      <3>1. Busy(request[q], j)
        BY <1>12, <2>2
      <3>2. ~Busy(request[q], k)
        BY <1>9, <2>2
      <3>3. request'[q] = request[q] /\ j # k
        BY <1>7, <2>2, <3>1, <3>2
      <3>4. \A s \in Requests \ {q} : ~Busy(request'[s], j)
        <4>1. \A s \in Requests \ {q} : ~Busy(request[s], j)
          BY <1>1, <3>1, <3>3 DEF AloneFits
        <4> QED BY <1>8, <1>12, <1>13, <3>3, <4>1
      <3> QED BY <1>1, <3>1, <3>3, <3>4 DEF AloneFits
    <2> QED BY <2>1, <2>2
  <1> QED BY <1>14, <1>15, <1>16, <1>17, <1>18 DEF SandboxInv

\* The load of the count.
LEMMA CountLoaded ==
  ASSUME SandboxInv, NEW r \in Requests, Sandbox!LoadUsed(r)
  PROVE  SandboxInv'
  <1> DEFINE k == request[r].key
             n == [request[r] EXCEPT !.at = "store", !.read = key[k].used]
  <1>1. /\ SandboxType /\ Created /\ Rated /\ Counted /\ AloneFits
    BY DEF SandboxInv
  <1>2. /\ request[r] # None /\ request[r].at = "load"
        /\ request' = [request EXCEPT ![r] = n]
        /\ minute' = minute /\ keys' = keys /\ key' = key /\ keyBuckets' = keyBuckets
        /\ passed' = passed /\ uses' = uses /\ overlapped' = overlapped
    BY AtBusy DEF Sandbox!LoadUsed
  <1>3. request[r] \in KeyRequest /\ k \in SandboxKeys /\ key[k] # None /\ key[k].used \in Nat
    BY <1>1, <1>2 DEF SandboxType, Created, KeyRequest, KeyRecord
  <1>4. n \in KeyRequest /\ n.key = k /\ n.at = "store" /\ n.read = key[k].used /\ n.alone = request[r].alone
    BY <1>3 DEF KeyRequest
  <1>5. n # None
    BY <1>4, SandboxAbsence
  <1> HIDE DEF n
  <1>6. request'[r] = n /\ \A q \in Requests \ {r} : request'[q] = request[q]
    BY <1>1, <1>2 DEF SandboxType
  <1>7. \A j : Busy(n, j) <=> Busy(request[r], j)
    BY <1>2, <1>4, <1>5 DEF Busy
  <1>8. \A q \in Requests : \A j : Busy(request'[q], j) <=> Busy(request[q], j)
    BY <1>6, <1>7
  <1>9. SandboxType'
    BY <1>1, <1>2, <1>4 DEF SandboxType
  <1>10. Created'
    BY <1>1, <1>2, <1>3, <1>4, <1>6 DEF Created
  <1>11. Rated'
    BY <1>1, <1>2 DEF Rated
  <1>12. Counted'
    <2> SUFFICES ASSUME NEW j \in SandboxKeys, key[j] # None, NEW q \in Requests,
                        Busy(request'[q], j), request'[q].at = "store"
        PROVE  uses[j] <= overlapped[j] + request'[q].read
      BY <1>1, <1>2 DEF Counted
    <2>1. CASE q = r
      <3>1. j = k
        BY <1>4, <1>6, <2>1 DEF Busy
      <3> HIDE DEF k
      <3> QED BY <1>1, <1>4, <1>6, <2>1, <3>1 DEF Counted
    <2>2. CASE q # r
      BY <1>1, <1>6, <2>2 DEF Counted
    <2> QED BY <2>1, <2>2
  <1>13. AloneFits'
    <2> SUFFICES ASSUME NEW j \in SandboxKeys, NEW q \in Requests, Busy(request'[q], j), request'[q].alone
        PROVE  /\ \A s \in Requests \ {q} : ~Busy(request'[s], j)
               /\ key[j].quota # 0 => key[j].used < key[j].quota
               /\ request'[q].at = "store" => request'[q].read = key[j].used
      BY <1>2 DEF AloneFits
    <2>1. Busy(request[q], j) /\ request[q].alone
      BY <1>4, <1>6, <1>8
    <2>2. \A s \in Requests \ {q} : ~Busy(request'[s], j)
      BY <1>1, <1>8, <2>1 DEF AloneFits
    <2>3. request'[q].at = "store" => request'[q].read = key[j].used
      <3>1. CASE q = r
        BY <1>4, <1>6, <3>1 DEF Busy
      <3>2. CASE q # r
        BY <1>1, <1>6, <2>1, <3>2 DEF AloneFits
      <3> QED BY <3>1, <3>2
    <2> QED BY <1>1, <2>1, <2>2, <2>3 DEF AloneFits
  <1> QED BY <1>9, <1>10, <1>11, <1>12, <1>13 DEF SandboxInv

\* The store of the count, and the use.
LEMMA UseStored ==
  ASSUME SandboxInv, NEW r \in Requests, Sandbox!StoreUsed(r)
  PROVE  SandboxInv'
  <1> DEFINE k == request[r].key
             d == request[r].read
             n == [key[k] EXCEPT !.used = d + 1]
  <1>1. /\ SandboxType /\ Created /\ Rated /\ Counted /\ AloneFits
    BY DEF SandboxInv
  <1>2. /\ request[r] # None /\ request[r].at = "store"
        /\ key' = [key EXCEPT ![k] = n]
        /\ uses' = [uses EXCEPT ![k] = @ + 1]
        /\ overlapped' = IF request[r].alone THEN overlapped ELSE [overlapped EXCEPT ![k] = @ + 1]
        /\ request' = [request EXCEPT ![r] = None]
        /\ minute' = minute /\ keys' = keys /\ keyBuckets' = keyBuckets /\ passed' = passed
    BY AtBusy DEF Sandbox!StoreUsed
  <1>3. request[r] \in KeyRequest /\ k \in SandboxKeys /\ key[k] \in KeyRecord /\ d \in Nat
    BY <1>1, <1>2 DEF SandboxType, Created, KeyRequest
  <1>4. /\ n \in KeyRecord /\ n.used = d + 1 /\ n.quota = key[k].quota /\ n.rate = key[k].rate
        /\ key[k].used \in Nat /\ key[k].quota \in Nat
    BY <1>3 DEF KeyRecord
  <1>5. n # None /\ key[k] # None
    BY <1>3, <1>4, SandboxAbsence
  <1>6. Busy(request[r], k)
    BY <1>2 DEF Busy
  <1> HIDE DEF n
  <1>7. key'[k] = n /\ \A j \in SandboxKeys \ {k} : key'[j] = key[j]
    BY <1>1, <1>2, <1>3 DEF SandboxType
  <1>8. request'[r] = None /\ \A q \in Requests \ {r} : request'[q] = request[q]
    BY <1>1, <1>2 DEF SandboxType
  <1>9. /\ uses'[k] = uses[k] + 1 /\ \A j \in SandboxKeys \ {k} : uses'[j] = uses[j]
        /\ \A j \in SandboxKeys \ {k} : overlapped'[j] = overlapped[j]
        /\ request[r].alone => overlapped'[k] = overlapped[k]
        /\ ~request[r].alone => overlapped'[k] = overlapped[k] + 1
    BY <1>1, <1>2, <1>3 DEF SandboxType
  <1>10. uses[k] \in Nat /\ overlapped[k] \in Nat
    BY <1>1, <1>3 DEF SandboxType
  <1>11. \A j : ~Busy(None, j)
    BY DEF Busy
  <1>12. SandboxType'
    BY <1>1, <1>2, <1>3, <1>4 DEF SandboxType
  <1>13. Created'
    <2>1. \A j \in SandboxKeys : key'[j] = None <=> key[j] = None
      BY <1>3, <1>5, <1>7
    <2>2. \A q \in Requests : request'[q] # None =>
            request'[q] = request[q] /\ request[q].key \in SandboxKeys
      BY <1>1, <1>8 DEF SandboxType, KeyRequest
    <2>3. \A j \in SandboxKeys \ {k} : uses'[j] = uses[j] /\ overlapped'[j] = overlapped[j]
      BY <1>9
    <2>4. keys \subseteq SandboxKeys
      BY <1>1 DEF SandboxType
    <2>5. \A j \in keys' : key'[j] # None
      BY <1>1, <1>2, <2>1, <2>4 DEF Created
    <2>6. \A q \in Requests : request'[q] # None => key'[request'[q].key] # None
      BY <1>1, <2>1, <2>2 DEF Created
    <2>7. \A j \in SandboxKeys : key'[j] = None =>
            keyBuckets'[j] = None /\ passed'[j] = 0 /\ uses'[j] = 0 /\ overlapped'[j] = 0
      BY <1>1, <1>2, <1>5, <2>1, <2>3 DEF Created
    <2> QED BY <2>5, <2>6, <2>7 DEF Created
  <1>14. Rated'
    <2> SUFFICES ASSUME NEW j \in SandboxKeys, key'[j] # None
        PROVE  Paid(passed[j], keyBuckets[j], key'[j].rate, minute)
      BY <1>2 DEF Rated
    <2>1. key[j] # None /\ key'[j].rate = key[j].rate
      BY <1>4, <1>5, <1>7
    <2> QED BY <1>1, <2>1 DEF Rated
  <1>15. CASE ~request[r].alone
    <2>1. overlapped'[k] = overlapped[k] + 1 /\ uses'[k] = uses[k] + 1
      BY <1>9, <1>15
    <2>2. /\ uses[k] <= overlapped[k] + key[k].used
          /\ key[k].quota # 0 => uses[k] <= overlapped[k] + key[k].quota
          /\ \A q \in Requests : Busy(request[q], k) /\ request[q].at = "store" =>
               uses[k] <= overlapped[k] + request[q].read
      BY <1>1, <1>3, <1>5 DEF Counted
    <2>3. uses[k] <= overlapped[k] + d
      BY <1>2, <1>6, <2>2
    <2>4. Counted'
      <3> SUFFICES ASSUME NEW j \in SandboxKeys, key'[j] # None
          PROVE  /\ uses'[j] <= overlapped'[j] + key'[j].used
                 /\ key'[j].quota # 0 => uses'[j] <= overlapped'[j] + key'[j].quota
                 /\ \A q \in Requests : Busy(request'[q], j) /\ request'[q].at = "store" =>
                      uses'[j] <= overlapped'[j] + request'[q].read
        BY DEF Counted
      <3>1. CASE j = k
        <4>1. uses'[k] <= overlapped'[k] + key'[k].used
          <5>1. key'[k].used = d + 1
            BY <1>4, <1>7
          <5> HIDE DEF d, k
          <5> QED BY <1>3, <1>10, <2>1, <2>3, <5>1
        <4>2. key'[k].quota # 0 => uses'[k] <= overlapped'[k] + key'[k].quota
          <5>1. key'[k].quota = key[k].quota
            BY <1>4, <1>7
          <5> HIDE DEF d, k
          <5> QED BY <1>4, <1>10, <2>1, <2>2, <5>1
        <4>3. ASSUME NEW q \in Requests, Busy(request'[q], k), request'[q].at = "store"
              PROVE uses'[k] <= overlapped'[k] + request'[q].read
          <5>1. request'[q] = request[q] /\ request[q] # None
            BY <1>8, <1>11, <4>3 DEF Busy
          <5>2. request[q].read \in Nat
            BY <1>1, <5>1 DEF SandboxType, KeyRequest
          <5>3. uses[k] <= overlapped[k] + request[q].read
            BY <2>2, <4>3, <5>1
          <5> HIDE DEF k
          <5> QED BY <1>10, <2>1, <5>1, <5>2, <5>3
        <4> QED BY <3>1, <4>1, <4>2, <4>3
      <3>2. CASE j # k
        <4>1. key'[j] = key[j] /\ uses'[j] = uses[j] /\ overlapped'[j] = overlapped[j]
          BY <1>7, <1>9, <3>2
        <4>2. \A q \in Requests : Busy(request'[q], j) => request'[q] = request[q]
          BY <1>8, <1>11
        <4> QED BY <1>1, <4>1, <4>2 DEF Counted
      <3> QED BY <3>1, <3>2
    <2>5. AloneFits'
      <3> SUFFICES ASSUME NEW j \in SandboxKeys, NEW q \in Requests, Busy(request'[q], j), request'[q].alone
          PROVE  /\ \A s \in Requests \ {q} : ~Busy(request'[s], j)
                 /\ key'[j].quota # 0 => key'[j].used < key'[j].quota
                 /\ request'[q].at = "store" => request'[q].read = key'[j].used
        BY DEF AloneFits
      <3>1. q # r /\ request'[q] = request[q]
        BY <1>8, <1>11
      <3>2. j # k
        BY <1>1, <1>3, <1>6, <3>1 DEF AloneFits
      <3>3. key'[j] = key[j]
        BY <1>7, <3>2
      <3>4. \A s \in Requests \ {q} : ~Busy(request'[s], j)
        BY <1>1, <1>8, <1>11, <3>1 DEF AloneFits
      <3> QED BY <1>1, <3>1, <3>3, <3>4 DEF AloneFits
    <2> QED BY <1>12, <1>13, <1>14, <2>4, <2>5 DEF SandboxInv
  <1>16. CASE request[r].alone
    <2>1. overlapped'[k] = overlapped[k] /\ uses'[k] = uses[k] + 1
      BY <1>9, <1>16
    <2>2. /\ \A s \in Requests \ {r} : ~Busy(request[s], k)
          /\ key[k].quota # 0 => key[k].used < key[k].quota
          /\ d = key[k].used
      BY <1>1, <1>2, <1>3, <1>6, <1>16 DEF AloneFits
    <2>3. uses[k] <= overlapped[k] + key[k].used
      BY <1>1, <1>3, <1>5 DEF Counted
    <2>4. \A q \in Requests : ~Busy(request'[q], k)
      BY <1>8, <1>11, <2>2
    <2>5. Counted'
      <3> SUFFICES ASSUME NEW j \in SandboxKeys, key'[j] # None
          PROVE  /\ uses'[j] <= overlapped'[j] + key'[j].used
                 /\ key'[j].quota # 0 => uses'[j] <= overlapped'[j] + key'[j].quota
                 /\ \A q \in Requests : Busy(request'[q], j) /\ request'[q].at = "store" =>
                      uses'[j] <= overlapped'[j] + request'[q].read
        BY DEF Counted
      <3>1. CASE j = k
        <4>1. key'[k].used = d + 1 /\ key'[k].quota = key[k].quota
          BY <1>4, <1>7
        <4>2. uses'[k] <= overlapped'[k] + key'[k].used
          <5> HIDE DEF d, k
          <5> QED BY <1>3, <1>4, <1>10, <2>1, <2>2, <2>3, <4>1
        <4>3. key'[k].quota # 0 => uses'[k] <= overlapped'[k] + key'[k].quota
          <5> HIDE DEF d, k
          <5> QED BY <1>3, <1>4, <1>10, <2>1, <2>2, <2>3, <4>1
        <4> QED BY <2>4, <3>1, <4>2, <4>3
      <3>2. CASE j # k
        <4>1. key'[j] = key[j] /\ uses'[j] = uses[j] /\ overlapped'[j] = overlapped[j]
          BY <1>7, <1>9, <3>2
        <4>2. \A q \in Requests : Busy(request'[q], j) => request'[q] = request[q]
          BY <1>8, <1>11
        <4> QED BY <1>1, <4>1, <4>2 DEF Counted
      <3> QED BY <3>1, <3>2
    <2>6. AloneFits'
      <3> SUFFICES ASSUME NEW j \in SandboxKeys, NEW q \in Requests, Busy(request'[q], j), request'[q].alone
          PROVE  /\ \A s \in Requests \ {q} : ~Busy(request'[s], j)
                 /\ key'[j].quota # 0 => key'[j].used < key'[j].quota
                 /\ request'[q].at = "store" => request'[q].read = key'[j].used
        BY DEF AloneFits
      <3>1. q # r /\ request'[q] = request[q]
        BY <1>8, <1>11
      <3>2. j # k
        BY <2>4
      <3>3. key'[j] = key[j]
        BY <1>7, <3>2
      <3>4. \A s \in Requests \ {q} : ~Busy(request'[s], j)
        BY <1>1, <1>8, <1>11, <3>1 DEF AloneFits
      <3> QED BY <1>1, <3>1, <3>3, <3>4 DEF AloneFits
    <2> QED BY <1>12, <1>13, <1>14, <2>5, <2>6 DEF SandboxInv
  <1> QED BY <1>15, <1>16

\* Every step of the sandbox keeps the invariant.
LEMMA SandboxStep == SandboxInv /\ [Sandbox!Next]_Sandbox!vars => SandboxInv'
  <1> SUFFICES ASSUME SandboxInv, [Sandbox!Next]_Sandbox!vars PROVE SandboxInv'
    OBVIOUS
  <1>0. SandboxType /\ Created /\ Rated /\ Counted /\ AloneFits
    BY DEF SandboxInv
  <1>1. CASE Sandbox!Tick
    <2>1. minute' = minute + 1 /\ minute \in Nat
      BY <1>0, <1>1 DEF Sandbox!Tick, SandboxType
    <2>2. UNCHANGED <<keys, key, keyBuckets, request, passed, uses, overlapped>>
      BY <1>1 DEF Sandbox!Tick
    <2>3. Rated'
      <3> SUFFICES ASSUME NEW k \in SandboxKeys, key[k] # None
          PROVE Paid(passed[k], keyBuckets[k], key[k].rate, minute')
        BY <2>2 DEF Rated
      <3>1. Paid(passed[k], keyBuckets[k], key[k].rate, minute)
        BY <1>0 DEF Rated
      <3>2. keyBuckets[k] # None => keyBuckets[k].last \in Nat
        BY <1>0 DEF SandboxType, KeyBucket
      <3> DEFINE b == keyBuckets[k]
                 l == b.last
      <3>3. b # None => l \in Nat /\ l <= minute /\ passed[k] * Window + b.tokens <= key[k].rate * (Window + b.last)
        BY <3>1, <3>2 DEF Paid
      <3> HIDE DEF l
      <3>4. b # None => l <= minute'
        BY <2>1, <3>3
      <3> QED BY <3>1, <3>3, <3>4 DEF Paid, l
    <2> QED BY <1>0, <2>1, <2>2, <2>3 DEF SandboxInv, SandboxType, Created, Counted, AloneFits
  <1>2. ASSUME NEW m, Sandbox!SetMode(m) PROVE SandboxInv'
    BY <1>0, <1>2 DEF Sandbox!SetMode, SandboxInv, SandboxType, Created, Rated, Counted, AloneFits
  <1>3. ASSUME NEW k \in SandboxKeys, Sandbox!RevokeKey(k) PROVE SandboxInv'
    BY <1>3, KeyRevoked
  <1>4. ASSUME NEW k \in SandboxKeys, Sandbox!DeleteKey(k) PROVE SandboxInv'
    BY <1>0, <1>4 DEF Sandbox!DeleteKey, SandboxInv, SandboxType, Created, Rated, Counted, AloneFits
  <1>5. ASSUME NEW k \in SandboxKeys, NEW a \in SandboxApps, Sandbox!CreateSandboxKey(k, a) PROVE SandboxInv'
    BY <1>5, KeyCreated
  <1>6. ASSUME NEW r \in Requests, Sandbox!GetKeyByConsumerKey(r) PROVE SandboxInv'
    <2>1. PICK k : k \in keys
                   /\ request' = [request EXCEPT ![r] = [key |-> k, at |-> "valid", read |-> 0, alone |-> FALSE]]
      BY <1>6 DEF Sandbox!GetKeyByConsumerKey
    <2> DEFINE n == [key |-> k, at |-> "valid", read |-> 0, alone |-> FALSE]
    <2>2. n \in KeyRequest /\ n.at = "valid" /\ n.key = k /\ key[k] # None
      BY <1>0, <2>1 DEF KeyRequest, SandboxType, Created
    <2>3. UNCHANGED <<minute, keys, key, keyBuckets, passed, uses, overlapped>>
      BY <1>6 DEF Sandbox!GetKeyByConsumerKey
    <2>4. request' = [request EXCEPT ![r] = n]
      BY <2>1
    <2> HIDE DEF n
    <2> QED BY <2>2, <2>3, <2>4, RequestMoved
  <1>7. ASSUME NEW r \in Requests, Sandbox!IsValid(r) PROVE SandboxInv'
    <2>1. UNCHANGED <<minute, keys, key, keyBuckets, passed, uses, overlapped>>
      BY <1>7 DEF Sandbox!IsValid
    <2>2. request[r] # None /\ request[r] \in KeyRequest /\ key[request[r].key] # None
      BY <1>0, <1>7, AtBusy DEF Sandbox!IsValid, SandboxType, Created
    <2> DEFINE m == [request[r] EXCEPT !.at = "rate"]
    <2>3. m \in KeyRequest /\ m.at = "rate" /\ m.key = request[r].key
      BY <2>2 DEF KeyRequest
    <2>4. request' = [request EXCEPT ![r] = m] \/ request' = [request EXCEPT ![r] = None]
      BY <1>7 DEF Sandbox!IsValid, Sandbox!Refuse
    <2> HIDE DEF m
    <2>5. PICK n : (n = m \/ n = None) /\ request' = [request EXCEPT ![r] = n]
      BY <2>4
    <2> QED BY <2>1, <2>2, <2>3, <2>5, RequestMoved
  <1>8. ASSUME NEW r \in Requests, Sandbox!Allow(r) PROVE SandboxInv'
    BY <1>8, Passing
  <1>9. ASSUME NEW r \in Requests, Sandbox!CheckQuota(r) PROVE SandboxInv'
    <2>1. CASE Sandbox!HasQuota(request[r].key)
      BY <1>9, <2>1, QuotaChecked
    <2>2. CASE ~Sandbox!HasQuota(request[r].key)
      <3>1. UNCHANGED <<minute, keys, key, keyBuckets, passed, uses, overlapped>>
            /\ request' = [request EXCEPT ![r] = None]
        BY <1>9, <2>2 DEF Sandbox!CheckQuota, Sandbox!Refuse
      <3> DEFINE n == None
      <3>2. n = None /\ request' = [request EXCEPT ![r] = n]
        BY <3>1
      <3> HIDE DEF n
      <3> QED BY <3>1, <3>2, RequestMoved
    <2> QED BY <2>1, <2>2
  <1>10. ASSUME NEW r \in Requests, Sandbox!LoadUsed(r) PROVE SandboxInv'
    BY <1>10, CountLoaded
  <1>11. ASSUME NEW r \in Requests, Sandbox!StoreUsed(r) PROVE SandboxInv'
    BY <1>11, UseStored
  <1>12. CASE UNCHANGED Sandbox!vars
    BY <1>0, <1>12 DEF Sandbox!vars, SandboxInv, SandboxType, Created, Rated, Counted, AloneFits
  <1> QED BY <1>1, <1>2, <1>3, <1>4, <1>5, <1>6, <1>7, <1>8, <1>9, <1>10, <1>11, <1>12 DEF Sandbox!Next

\* It holds at the start, where there is no key.
LEMMA SandboxStart == Sandbox!Init => SandboxInv
  <1> SUFFICES ASSUME Sandbox!Init PROVE SandboxInv
    OBVIOUS
  <1>1. SandboxType
    BY DEF Sandbox!Init, SandboxType
  <1>2. (\A k \in SandboxKeys : key[k] = None) /\ (\A r \in Requests : request[r] = None) /\ keys = {}
    BY DEF Sandbox!Init
  <1>3. Created
    BY <1>2 DEF Sandbox!Init, Created
  <1> QED BY <1>1, <1>2, <1>3 DEF SandboxInv, Rated, Counted, AloneFits, Busy

\* And it implies the bound on the uses of a key.
LEMMA SandboxKept == SandboxInv => Sandbox!UseBound
  <1> SUFFICES ASSUME SandboxInv, NEW k \in SandboxKeys, key[k] # None
      PROVE  /\ key[k].quota # 0 => uses[k] <= key[k].quota + overlapped[k]
             /\ passed[k] * Window <= key[k].rate * (Window + minute)
    BY DEF Sandbox!UseBound
  <1>0. SandboxType /\ Created /\ Rated /\ Counted /\ AloneFits
    BY DEF SandboxInv
  <1>1. key[k].quota # 0 => uses[k] <= key[k].quota + overlapped[k]
    <2>1. key[k].quota # 0 => uses[k] <= overlapped[k] + key[k].quota
      BY <1>0 DEF Counted
    <2>2. uses[k] \in Nat /\ overlapped[k] \in Nat /\ key[k].quota \in Nat
      BY <1>0 DEF SandboxType, KeyRecord
    <2> QED BY <2>1, <2>2
  <1>2. passed[k] * Window <= key[k].rate * (Window + minute)
    <2> DEFINE p == passed[k] * Window
               z == key[k].rate * (Window + minute)
               f == Sandbox!Refilled(k)
    <2>1. p + f <= z /\ f \in Nat
      BY <1>0, RefilledPays
    <2>2. passed[k] \in Nat /\ key[k].rate \in Nat /\ minute \in Nat
      BY <1>0 DEF SandboxType, KeyRecord
    <2>3. p \in Nat /\ z \in Nat
      BY <2>2
    <2> HIDE DEF p, z, f
    <2>4. p <= z
      BY <2>1, <2>3
    <2> QED BY <2>4 DEF p, z
  <1> QED BY <1>1, <1>2

\* The calls that are told to be within every quota are bounded by the quotas of the
\* minute and of the hour, up to failed increments and limits that are just reached;
\* and a sandbox key is used beyond its quota only by requests that were counted at
\* the same time as others, and passes its rate limiter as often as that refills.
THEOREM QuotasBounded == LimitersSpec => []QuotaBound
  <1>1. QuotaBound <=> Quota!QuotaBound /\ Sandbox!UseBound
    BY DEF QuotaBound
  <1> QED BY <1>1, Parts, QuotaStart, QuotaStep, QuotaKept, SandboxStart, SandboxStep, SandboxKept, PTL
          DEF Quota!Spec, Sandbox!Spec
===============================================================================
