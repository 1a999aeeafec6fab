------------------------- MODULE Management_proofs -------------------------
(***************************************************************************)
(* What the run of the components around the gateway checks, for every     *)
(* number of callers, connections, entries and requests and for all the    *)
(* rows, documents and scripts they may be given.  A behaviour of the      *)
(* whole is one of each component, so each is proved about by itself: its  *)
(* inductive invariant, that it holds at the start (...Start), that every  *)
(* step keeps it (...Step), and that it says what is promised (...Kept).   *)
(* The theorems at the end put them together.                              *)
(***************************************************************************)
EXTENDS MCManagement, FiniteSetTheorems, TLAPS

\* A step of the management is for each component a step of its own or none.
LEMMA Moves ==
  [Next]_Everything =>
    /\ [Webhooks!Next]_Webhooks!vars /\ [Alerts!Next]_Alerts!vars
    /\ [AuditTrail!Next]_AuditTrail!vars /\ [KvPool!Next]_KvPool!vars
    /\ [KvStore!Next]_KvStore!vars /\ [Migrations!Next]_Migrations!vars
    /\ [SqlStore!Next]_SqlStore!sqlVars /\ [Tables!Next]_Tables!vars
    /\ [Changelog!Next]_Changelog!vars /\ [Aggregator!Next]_Aggregator!vars
    /\ [GraphQl!Next]_GraphQl!vars
  <1> SUFFICES ASSUME [Next]_Everything
      PROVE /\ [Webhooks!Next]_Webhooks!vars /\ [Alerts!Next]_Alerts!vars
            /\ [AuditTrail!Next]_AuditTrail!vars /\ [KvPool!Next]_KvPool!vars
            /\ [KvStore!Next]_KvStore!vars /\ [Migrations!Next]_Migrations!vars
            /\ [SqlStore!Next]_SqlStore!sqlVars /\ [Tables!Next]_Tables!vars
            /\ [Changelog!Next]_Changelog!vars /\ [Aggregator!Next]_Aggregator!vars
            /\ [GraphQl!Next]_GraphQl!vars
    OBVIOUS
  <1>1. AuditTrail!vars' = AuditTrail!vars <=> UNCHANGED auditVars
    BY DEF AuditTrail!vars, AuditTrail!logVars, auditVars
  <1>2. /\ Webhooks!vars = webhookVars /\ Alerts!vars = alertVars /\ KvPool!vars = poolVars
        /\ KvStore!vars = kvVars /\ Migrations!vars = migrationVars /\ SqlStore!sqlVars = sqlVars
        /\ Tables!vars = tableVars /\ Changelog!vars = logVars /\ Aggregator!vars = aggregatorVars
        /\ GraphQl!vars = graphVars
    BY DEF Webhooks!vars, webhookVars, Alerts!vars, alertVars, KvPool!vars, poolVars, KvStore!vars,
           kvVars, Migrations!vars, migrationVars, SqlStore!sqlVars, sqlVars, Tables!vars, tableVars,
           Changelog!vars, logVars, Aggregator!vars, aggregatorVars, GraphQl!vars, graphVars
  <1>3. /\ Webhooks!vars' = webhookVars' /\ Alerts!vars' = alertVars' /\ KvPool!vars' = poolVars'
        /\ KvStore!vars' = kvVars' /\ Migrations!vars' = migrationVars' /\ SqlStore!sqlVars' = sqlVars'
        /\ Tables!vars' = tableVars' /\ Changelog!vars' = logVars' /\ Aggregator!vars' = aggregatorVars'
        /\ GraphQl!vars' = graphVars'
    BY DEF Webhooks!vars, webhookVars, Alerts!vars, alertVars, KvPool!vars, poolVars, KvStore!vars,
           kvVars, Migrations!vars, migrationVars, SqlStore!sqlVars, sqlVars, Tables!vars, tableVars,
           Changelog!vars, logVars, Aggregator!vars, aggregatorVars, GraphQl!vars, graphVars
  <1>4. CASE UNCHANGED Everything
    <2>1. /\ UNCHANGED webhookVars /\ UNCHANGED alertVars /\ UNCHANGED auditVars
          /\ UNCHANGED poolVars /\ UNCHANGED kvVars /\ UNCHANGED migrationVars
          /\ UNCHANGED sqlVars /\ UNCHANGED tableVars /\ UNCHANGED logVars
          /\ UNCHANGED aggregatorVars /\ UNCHANGED graphVars
      BY <1>4 DEF Everything
    <2> QED BY <2>1, <1>1, <1>2, <1>3
  <1>5. CASE Next
    BY <1>1, <1>2, <1>3, <1>5 DEF Next, Only
  <1> QED BY <1>4, <1>5

\* A behaviour of the management is a behaviour of each component.
LEMMA Parts ==
  ManagementSpec =>
    /\ Webhooks!Spec /\ Alerts!Spec /\ AuditTrail!Spec /\ KvPool!Spec /\ KvStore!Spec
    /\ Migrations!Spec /\ SqlStore!Spec /\ Tables!PublisherSpec /\ Changelog!LogSpec
    /\ Aggregator!AggregatorSpec /\ GraphQl!Spec
  <1>1. Init =>
          /\ Webhooks!Init /\ Alerts!Init /\ AuditTrail!Init /\ KvPool!Init /\ KvStore!Init
          /\ Migrations!Init /\ SqlStore!Init /\ Tables!Init /\ Changelog!Init /\ Aggregator!Init
          /\ GraphQl!Init
    BY DEF Init
  <1> QED
    BY <1>1, Moves, PTL
       DEF ManagementSpec, Webhooks!Spec, Alerts!Spec, AuditTrail!Spec, KvPool!Spec, KvStore!Spec,
           Migrations!Spec, SqlStore!Spec, Tables!PublisherSpec, Changelog!LogSpec,
           Aggregator!AggregatorSpec, GraphQl!Spec

\* Where a request is, and the connection it holds.
Holding == {"run", "releaseOk", "releaseFailed", "sendOk", "sendFailed"}
PoolCallers == [at: Holding \cup {"idle", "acquire", "receive"}, conn: Conn \cup {None}, attempt: Nat]

\* The connections that are held, one by each goroutine at most.
Held(cs) == [c \in KvPool!Goroutine |-> cs[c].conn]

\* Each open connection of lk has one place, in pl or held, unless somebody panicked.
Placed(h, lk, pl, panic) ==
  /\ \A c \in KvPool!Goroutine : h[c] # None => lk[h[c]] = "open" /\ h[c] \notin pl
  /\ \A c, d \in KvPool!Goroutine : h[c] # None /\ h[c] = h[d] => c = d
  /\ \A x \in pl : lk[x] = "open"
  /\ ~panic => \A x \in Conn : lk[x] = "open" =>
       x \in pl \/ \E c \in KvPool!Goroutine : h[c] = x

PoolType ==
  /\ phase \in {"dial", "ping", "connected", "failed"}
  /\ link \in [Conn -> {"none", "open", "closed"}] /\ pool \subseteq Conn
  /\ drained \in {"no", "flag", "drain", "done"}
  /\ closed \in BOOLEAN /\ checking \in BOOLEAN /\ panicked \in BOOLEAN
  /\ caller \in [KvPool!Goroutine -> PoolCallers]

\* Only Close lets a goroutine panic, and the pings begin when all are dialled.
PoolInv ==
  /\ PoolType
  /\ phase = "dial" => caller[Pinger].at = "idle" /\ ~checking
  /\ closed <=> drained # "no"
  /\ panicked => closed
  /\ \A c \in KvPool!Goroutine : caller[c].at \in Holding <=> caller[c].conn # None
  /\ Placed(Held(caller), link, pool, panicked)

\* What goroutines hold is a connection or nothing.
LEMMA HeldType ==
  ASSUME NEW cs \in [KvPool!Goroutine -> PoolCallers]
  PROVE  Held(cs) \in [KvPool!Goroutine -> Conn \cup {None}]
         /\ \A c \in KvPool!Goroutine : Held(cs)[c] = cs[c].conn
  BY DEF Held, PoolCallers

\* Nothing changes hands.
LEMMA PlacedSame ==
  ASSUME NEW h, NEW g, NEW lk, NEW pl, NEW p, Placed(h, lk, pl, p),
         \A c \in KvPool!Goroutine : g[c] = h[c]
  PROVE  Placed(g, lk, pl, p)
  BY DEF Placed

\* A panic loses the connection of whoever panics.
LEMMA PlacedPanic ==
  ASSUME NEW h, NEW lk, NEW pl, NEW p, Placed(h, lk, pl, p)
  PROVE  Placed(h, lk, pl, TRUE)
  BY DEF Placed

\* A connection is taken from the pool.
LEMMA PlacedTake ==
  ASSUME NEW h, NEW g, NEW lk, NEW pl, NEW p, Placed(h, lk, pl, p), NEW c \in KvPool!Goroutine,
         NEW x \in pl, h[c] = None, x # None, g[c] = x,
         \A d \in KvPool!Goroutine \ {c} : g[d] = h[d]
  PROVE  Placed(g, lk, pl \ {x}, p)
  <1>1. \A d \in KvPool!Goroutine \ {c} : g[d] # x
    BY DEF Placed
  <1>2. \A d \in KvPool!Goroutine : g[d] # None => lk[g[d]] = "open" /\ g[d] \notin pl \ {x}
    BY DEF Placed
  <1>3. \A d, e \in KvPool!Goroutine : g[d] # None /\ g[d] = g[e] => d = e
    BY <1>1 DEF Placed
  <1>4. ~p => \A y \in Conn : lk[y] = "open" =>
          y \in pl \ {x} \/ \E d \in KvPool!Goroutine : g[d] = y
    <2> SUFFICES ASSUME ~p, NEW y \in Conn, lk[y] = "open", y # x
                 PROVE  y \in pl \ {x} \/ \E d \in KvPool!Goroutine : g[d] = y
      OBVIOUS
    <2>1. CASE y \in pl
      BY <2>1
    <2>2. CASE \E d \in KvPool!Goroutine : h[d] = y
      <3>1. PICK d \in KvPool!Goroutine : h[d] = y
        BY <2>2
      <3>2. CASE d = c
        <4>1. y = None
          BY <3>1, <3>2
        <4> QED BY <4>1, AbsenceAssumption DEF AbsenceAssumption
      <3> QED BY <3>1, <3>2
    <2> QED BY <2>1, <2>2 DEF Placed
  <1> QED BY <1>2, <1>3, <1>4 DEF Placed

\* A connection is given back.
LEMMA PlacedGive ==
  ASSUME NEW h, NEW g, NEW lk, NEW pl, NEW p, Placed(h, lk, pl, p), NEW c \in KvPool!Goroutine,
         h[c] # None, g[c] = None, \A d \in KvPool!Goroutine \ {c} : g[d] = h[d]
  PROVE  Placed(g, lk, pl \cup {h[c]}, p)
  BY DEF Placed

\* A connection is closed by who holds it.
LEMMA PlacedClose ==
  ASSUME NEW h, NEW g, NEW lk \in [Conn -> {"none", "open", "closed"}], NEW pl \in SUBSET Conn, NEW p,
         Placed(h, lk, pl, p), NEW c \in KvPool!Goroutine, h[c] \in Conn,
         h \in [KvPool!Goroutine -> Conn \cup {None}],
         h[c] # None, g[c] = None, \A d \in KvPool!Goroutine \ {c} : g[d] = h[d]
  PROVE  Placed(g, [lk EXCEPT ![h[c]] = "closed"], pl, p)
  <1> DEFINE m == [lk EXCEPT ![h[c]] = "closed"]
  <1>1. \A x \in Conn : m[x] = IF x = h[c] THEN "closed" ELSE lk[x]
    OBVIOUS
  <1>2. \A d \in KvPool!Goroutine \ {c} : h[d] # None => h[d] # h[c] /\ m[h[d]] = "open"
    BY <1>1 DEF Placed
  <1> HIDE DEF m
  <1> QED BY <1>1, <1>2 DEF Placed

\* A connection is closed that was in the pool, or is opened there.
LEMMA PlacedDrain ==
  ASSUME NEW h, NEW lk \in [Conn -> {"none", "open", "closed"}], NEW pl \in SUBSET Conn, NEW p,
         Placed(h, lk, pl, p), NEW x \in pl, h \in [KvPool!Goroutine -> Conn \cup {None}]
  PROVE  Placed(h, [lk EXCEPT ![x] = "closed"], pl \ {x}, p)
  <1>1. None \notin Conn
    BY AbsenceAssumption DEF AbsenceAssumption
  <1> QED BY <1>1 DEF Placed

LEMMA PlacedDial ==
  ASSUME NEW h, NEW lk \in [Conn -> {"none", "open", "closed"}], NEW pl \in SUBSET Conn, NEW p,
         Placed(h, lk, pl, p), NEW x \in Conn, lk[x] = "none", h \in [KvPool!Goroutine -> Conn \cup {None}]
  PROVE  /\ Placed(h, [lk EXCEPT ![x] = "open"], pl \cup {x}, p)
         /\ Placed(h, [lk EXCEPT ![x] = "open"], pl, TRUE)
  <1>1. None \notin Conn
    BY AbsenceAssumption DEF AbsenceAssumption
  <1> QED BY <1>1 DEF Placed

LEMMA PoolStart == KvPool!Init => PoolInv
  <1> SUFFICES ASSUME KvPool!Init PROVE PoolInv
    OBVIOUS
  <1>1. KvPool!AtRest \in PoolCallers /\ KvPool!AtRest.conn = None /\ KvPool!AtRest.at = "idle"
    BY DEF KvPool!AtRest, PoolCallers
  <1>2. caller \in [KvPool!Goroutine -> PoolCallers]
        /\ \A c \in KvPool!Goroutine : caller[c].conn = None /\ caller[c].at = "idle"
    BY <1>1 DEF KvPool!Init
  <1>3. Pinger \in KvPool!Goroutine
    BY DEF KvPool!Goroutine
  <1>4. "idle" \notin Holding
    BY DEF Holding
  <1>5. \A c \in KvPool!Goroutine : Held(caller)[c] = None
    BY <1>2 DEF Held
  <1>6. Placed(Held(caller), link, pool, panicked)
    BY <1>5, AbsenceAssumption DEF AbsenceAssumption, KvPool!Init, Placed
  <1> QED BY <1>2, <1>3, <1>4, <1>6 DEF KvPool!Init, PoolInv, PoolType

\* What the invariant says of the connections is the property.
LEMMA PoolKept == PoolInv => KvPool!ConnsAccounted
  <1> SUFFICES ASSUME PoolInv PROVE KvPool!ConnsAccounted
    OBVIOUS
  <1>1. \A c \in KvPool!Goroutine : Held(caller)[c] = caller[c].conn
    BY HeldType DEF PoolInv, PoolType
  <1>2. None \notin Conn
    BY AbsenceAssumption DEF AbsenceAssumption
  <1>3. \A c \in KvPool!Goroutine : caller[c].conn # None => caller[c].at = "run" \/ KvPool!Releasing(c)
    BY DEF PoolInv, Holding, KvPool!Releasing
  <1> QED BY <1>1, <1>2, <1>3 DEF PoolInv, PoolType, Placed, KvPool!ConnsAccounted

\* Goroutine c ends its request or begins another attempt, without a connection.
LEMMA ReturnKeeps ==
  ASSUME PoolInv, NEW c \in KvPool!Goroutine, KvPool!Retry(c) \/ \E ok \in BOOLEAN : KvPool!Return(c, ok)
  PROVE  /\ phase' \in {"dial", "ping", "connected", "failed"} /\ checking' \in BOOLEAN
         /\ phase' = "dial" => phase = "dial" /\ (c = Pinger \/ checking' = checking)
         /\ phase' = "dial" /\ c = Pinger => caller[c].at = "idle" /\ ~checking'
         /\ caller' \in [KvPool!Goroutine -> PoolCallers]
         /\ \A d \in KvPool!Goroutine \ {c} : caller'[d] = caller[d]
         /\ caller'[c].conn = None /\ caller'[c].at \in {"idle", "acquire"}
         /\ caller'[c].at = "idle" \/ (phase' = phase /\ checking' = checking)
  <1>1. KvPool!AtRest \in PoolCallers /\ KvPool!AtRest.conn = None /\ KvPool!AtRest.at = "idle"
    BY DEF KvPool!AtRest, PoolCallers
  <1>2. caller[c].attempt \in Nat
    BY DEF PoolInv, PoolType, PoolCallers
  <1>3. ASSUME NEW ok \in BOOLEAN, KvPool!Return(c, ok)
        PROVE  /\ phase' \in {"dial", "ping", "connected", "failed"} /\ checking' \in BOOLEAN
               /\ phase' = "dial" => phase = "dial" /\ (c = Pinger \/ checking' = checking)
               /\ phase' = "dial" /\ c = Pinger => caller[c].at = "idle" /\ ~checking'
               /\ caller' = [caller EXCEPT ![c] = KvPool!AtRest]
    <2>1. CASE c = Pinger
      BY <1>3, <2>1 DEF KvPool!Return, PoolInv, PoolType
    <2>2. CASE c # Pinger
      BY <1>3, <2>2 DEF KvPool!Return, PoolInv, PoolType
    <2> QED BY <2>1, <2>2
  <1>4. CASE \E ok \in BOOLEAN : KvPool!Return(c, ok)
    <2>1. PICK ok \in BOOLEAN : KvPool!Return(c, ok)
      BY <1>4
    <2>2. /\ phase' \in {"dial", "ping", "connected", "failed"} /\ checking' \in BOOLEAN
          /\ phase' = "dial" => phase = "dial" /\ (c = Pinger \/ checking' = checking)
          /\ phase' = "dial" /\ c = Pinger => caller[c].at = "idle" /\ ~checking'
          /\ caller' = [caller EXCEPT ![c] = KvPool!AtRest]
      BY <1>3, <2>1
    <2> QED BY <1>1, <2>2 DEF PoolInv, PoolType
  <1>5. CASE KvPool!Retry(c) /\ caller[c].attempt < maxRetries
    <2>1. caller' = [caller EXCEPT ![c] = [at |-> "acquire", conn |-> None, attempt |-> caller[c].attempt + 1]]
          /\ UNCHANGED <<phase, checking>>
      BY <1>5 DEF KvPool!Retry
    <2>2. [at |-> "acquire", conn |-> None, attempt |-> caller[c].attempt + 1] \in PoolCallers
      BY <1>2 DEF PoolCallers
    <2> QED BY <2>1, <2>2 DEF PoolInv, PoolType
  <1>6. CASE KvPool!Retry(c) /\ ~(caller[c].attempt < maxRetries)
    <2>1. KvPool!Return(c, FALSE)
      BY <1>6 DEF KvPool!Retry
    <2> QED BY <2>1, <1>4
  <1> QED BY <1>4, <1>5, <1>6

\* Every step keeps the connections accounted for.
LEMMA PoolStep == PoolInv /\ [KvPool!Next]_KvPool!vars => PoolInv'
  <1> SUFFICES ASSUME PoolInv, [KvPool!Next]_KvPool!vars PROVE PoolInv'
    OBVIOUS
  <1>0. Pinger \in KvPool!Goroutine
    BY DEF KvPool!Goroutine
  <1>a. None \notin Conn
    BY AbsenceAssumption DEF AbsenceAssumption
  <1>h. Held(caller) \in [KvPool!Goroutine -> Conn \cup {None}]
        /\ \A c \in KvPool!Goroutine : Held(caller)[c] = caller[c].conn
    BY HeldType DEF PoolInv, PoolType
  <1>n. ASSUME caller' \in [KvPool!Goroutine -> PoolCallers]
        PROVE  \A c \in KvPool!Goroutine : Held(caller')[c] = caller'[c].conn
    BY <1>n, HeldType
  \* A request that moves on keeps its connection.
  <1>1. ASSUME NEW c \in KvPool!Goroutine, NEW t, KvPool!Goes(c, t),
               c # Pinger \/ phase # "dial" \/ phase' # "dial",
               \/ t \in Holding /\ caller[c].at \in Holding
               \/ t \in {"acquire", "receive"} /\ caller[c].at \in {"idle", "acquire"},
               UNCHANGED <<link, pool, drained, closed, checking, panicked>>,
               phase' \in {phase, "ping"}
        PROVE  PoolInv'
    <2>1. /\ caller' \in [KvPool!Goroutine -> PoolCallers]
          /\ \A d \in KvPool!Goroutine : caller'[d].conn = caller[d].conn
          /\ \A d \in KvPool!Goroutine : caller'[d].at = IF d = c THEN t ELSE caller[d].at
      BY <1>1 DEF KvPool!Goes, PoolInv, PoolType, PoolCallers, Holding
    <2>2. \A d \in KvPool!Goroutine : caller'[d].at \in Holding <=> caller[d].at \in Holding
      BY <1>1, <2>1 DEF Holding
    <2>3. \A d \in KvPool!Goroutine : Held(caller')[d] = Held(caller)[d]
      BY <1>h, <1>n, <2>1
    <2>4. Placed(Held(caller'), link', pool', panicked')
      BY <1>1, <2>3, PlacedSame DEF PoolInv
    <2>5. PoolType'
      BY <1>1, <2>1 DEF PoolInv, PoolType
    <2>6. phase' = "dial" => caller'[Pinger].at = "idle" /\ ~checking'
      BY <1>0, <1>1, <2>1 DEF PoolInv
    <2> QED BY <1>1, <2>1, <2>2, <2>4, <2>5, <2>6 DEF PoolInv
  <1>2. CASE KvPool!Dial
    <2>1. UNCHANGED <<drained, closed, checking, caller>> /\ phase = "dial"
      BY <1>2 DEF KvPool!Dial
    <2>2. CASE UNCHANGED <<link, pool, panicked>> /\ phase' = "failed"
      BY <2>1, <2>2 DEF PoolInv, PoolType
    <2>3. ASSUME NEW x \in Conn, link[x] = "none", link' = [link EXCEPT ![x] = "open"],
                 IF drained \in {"no", "flag"} THEN pool' = pool \cup {x} /\ UNCHANGED panicked
                                               ELSE panicked' = TRUE /\ UNCHANGED pool,
                 UNCHANGED phase
          PROVE  PoolInv'
      <3>1. PoolType'
        BY <2>1, <2>3 DEF PoolInv, PoolType
      <3>2. Placed(Held(caller), link', pool \cup {x}, panicked) /\ Placed(Held(caller), link', pool, TRUE)
        BY <1>h, <2>3, PlacedDial DEF PoolInv, PoolType
      <3>3. Placed(Held(caller'), link', pool', panicked')
        BY <2>1, <2>3, <3>2
      <3>4. panicked' => closed'
        BY <2>1, <2>3 DEF PoolInv
      <3> QED BY <2>1, <2>3, <3>1, <3>3, <3>4 DEF PoolInv
    <2> QED BY <1>2, <2>2, <2>3 DEF KvPool!Dial
  <1>3. CASE KvPool!Ping
    <2>1. caller[Pinger].at = "idle"
      BY <1>3 DEF KvPool!Ping, PoolInv
    <2> QED BY <1>0, <1>1, <1>3, <2>1 DEF KvPool!Ping
  <1>4. CASE KvPool!Tick
    <2>1. CASE closed
      BY <1>4, <2>1 DEF KvPool!Tick, PoolInv, PoolType
    <2>2. CASE ~closed
      <3>1. phase # "dial" /\ caller[Pinger].at = "idle" /\ KvPool!Goes(Pinger, "acquire")
            /\ UNCHANGED <<link, pool, drained, closed, checking, phase, panicked>>
        BY <1>4, <2>2 DEF KvPool!Tick, PoolInv
      <3> QED BY <1>0, <1>1, <3>1
    <2> QED BY <2>1, <2>2
  <1>5. ASSUME NEW c \in Caller, KvPool!Request(c) PROVE PoolInv'
    <2>1. c \in KvPool!Goroutine
      BY DEF KvPool!Goroutine
    <2>2. phase # "dial" /\ caller[c].at = "idle" /\ KvPool!Goes(c, "acquire")
          /\ UNCHANGED <<link, pool, drained, closed, checking, phase, panicked>>
      BY <1>5 DEF KvPool!Request
    <2> QED BY <1>1, <2>1, <2>2
  \* In the phase of dialling nobody has begun.
  <1>b. ASSUME NEW c \in KvPool!Goroutine, caller[c].at # "idle" PROVE c # Pinger \/ phase # "dial"
    BY <1>b DEF PoolInv
  \* A request that ends or tries again holds nothing any more.
  <1>6. ASSUME NEW c \in KvPool!Goroutine, KvPool!Retry(c) \/ \E ok \in BOOLEAN : KvPool!Return(c, ok),
               caller[c].at # "idle",
               UNCHANGED <<drained, closed, panicked>>,
               \/ UNCHANGED <<link, pool>> /\ caller[c].conn = None
               \/ UNCHANGED pool /\ caller[c].conn # None /\ link' = [link EXCEPT ![caller[c].conn] = "closed"]
               \/ UNCHANGED link /\ caller[c].conn # None /\ pool' = pool \cup {caller[c].conn}
        PROVE  PoolInv'
    <2>1. /\ phase' \in {"dial", "ping", "connected", "failed"} /\ checking' \in BOOLEAN
          /\ phase' = "dial" => phase = "dial" /\ (c = Pinger \/ checking' = checking)
          /\ caller' \in [KvPool!Goroutine -> PoolCallers]
          /\ \A d \in KvPool!Goroutine \ {c} : caller'[d] = caller[d]
          /\ caller'[c].conn = None /\ caller'[c].at \in {"idle", "acquire"}
      BY <1>6, ReturnKeeps
    <2>2. phase' = "dial" => caller'[Pinger].at = "idle" /\ ~checking'
      BY <1>0, <1>b, <1>6, <2>1 DEF PoolInv
    <2>3. \A d \in KvPool!Goroutine : caller'[d].at \in Holding <=> caller'[d].conn # None
      BY <2>1 DEF PoolInv, Holding
    <2>4. /\ Held(caller')[c] = None
          /\ \A d \in KvPool!Goroutine \ {c} : Held(caller')[d] = Held(caller)[d]
      BY <1>h, <1>n, <2>1
    <2>t. /\ link \in [Conn -> {"none", "open", "closed"}] /\ pool \in SUBSET Conn
          /\ Placed(Held(caller), link, pool, panicked) /\ panicked' = panicked
      BY <1>6 DEF PoolInv, PoolType
    <2>5. CASE UNCHANGED <<link, pool>> /\ caller[c].conn = None
      <3>1. \A d \in KvPool!Goroutine : Held(caller')[d] = Held(caller)[d]
        BY <1>h, <2>4, <2>5
      <3>2. Placed(Held(caller'), link', pool', panicked')
        BY <1>6, <2>5, <3>1, PlacedSame DEF PoolInv
      <3> QED BY <1>6, <2>1, <2>2, <2>3, <2>5, <3>2 DEF PoolInv, PoolType
    <2>6. CASE UNCHANGED pool /\ caller[c].conn # None /\ link' = [link EXCEPT ![caller[c].conn] = "closed"]
      <3>1. Held(caller)[c] = caller[c].conn /\ Held(caller)[c] \in Conn
        BY <1>h, <2>6
      <3>n. Held(caller)[c] # None /\ Held(caller) \in [KvPool!Goroutine -> Conn \cup {None}]
        BY <1>a, <1>h, <3>1
      <3>m. Placed(Held(caller'), [link EXCEPT ![Held(caller)[c]] = "closed"], pool, panicked)
        BY <2>4, <2>t, <3>1, <3>n, PlacedClose
      <3>2. Placed(Held(caller'), link', pool, panicked)
        BY <2>6, <3>1, <3>m
      <3>3. link' \in [Conn -> {"none", "open", "closed"}]
        BY <2>6, <2>t
      <3> QED BY <1>6, <2>1, <2>2, <2>3, <2>6, <3>2, <3>3 DEF PoolInv, PoolType
    <2>7. CASE UNCHANGED link /\ caller[c].conn # None /\ pool' = pool \cup {caller[c].conn}
      <3>1. Held(caller)[c] = caller[c].conn /\ Held(caller)[c] \in Conn
        BY <1>h, <2>7
      <3>2. Placed(Held(caller'), link, pool', panicked)
        BY <1>h, <2>4, <2>7, <3>1, PlacedGive DEF PoolInv
      <3>3. pool' \subseteq Conn
        BY <2>7, <2>t, <3>1
      <3> QED BY <1>6, <2>1, <2>2, <2>3, <2>7, <3>2, <3>3 DEF PoolInv, PoolType
    <2> QED BY <1>6, <2>5, <2>6, <2>7
  <1>7. ASSUME NEW c \in KvPool!Goroutine, KvPool!Acquire(c) PROVE PoolInv'
    <2>1. CASE closed
      <3>1. caller[c].conn = None
        BY <1>7 DEF KvPool!Acquire, PoolInv, Holding
      <3> QED BY <1>6, <1>7, <2>1, <3>1 DEF KvPool!Acquire
    <2>2. CASE ~closed
      <3>1. caller[c].at = "acquire" /\ KvPool!Goes(c, "receive")
            /\ UNCHANGED <<link, pool, drained, closed, checking, phase, panicked>>
        BY <1>7, <2>2 DEF KvPool!Acquire
      <3>2. phase # "dial" \/ c # Pinger
        BY <1>b, <3>1
      <3> QED BY <1>1, <3>1, <3>2
    <2> QED BY <2>1, <2>2
  <1>8. ASSUME NEW c \in KvPool!Goroutine, KvPool!Receive(c) PROVE PoolInv'
    <2>1. ASSUME NEW x \in pool, pool' = pool \ {x},
                 caller' = [caller EXCEPT ![c].at = "run", ![c].conn = x],
                 UNCHANGED <<phase, healthy, checking, panicked>>
          PROVE  PoolInv'
      <3>2. UNCHANGED <<link, drained, closed>> /\ caller[c].at = "receive"
        BY <1>8 DEF KvPool!Receive
      <3>4. x \in Conn /\ x # None /\ caller[c].conn = None
        BY <1>a, <3>2 DEF PoolInv, PoolType, Holding
      <3>3. caller' \in [KvPool!Goroutine -> PoolCallers] /\ caller'[c].conn = x /\ caller'[c].at = "run"
            /\ \A d \in KvPool!Goroutine \ {c} : caller'[d] = caller[d]
        BY <2>1, <3>4 DEF PoolInv, PoolType, PoolCallers, Holding
      <3>5. phase' = "dial" => caller'[Pinger].at = "idle" /\ ~checking'
        BY <1>0, <1>b, <2>1, <3>2, <3>3 DEF PoolInv
      <3>6. \A d \in KvPool!Goroutine : caller'[d].at \in Holding <=> caller'[d].conn # None
        BY <3>3, <3>4 DEF PoolInv, Holding
      <3>7. /\ Held(caller')[c] = x /\ Held(caller)[c] = None
            /\ \A d \in KvPool!Goroutine \ {c} : Held(caller')[d] = Held(caller)[d]
        BY <1>h, <1>n, <3>3, <3>4
      <3>p. Placed(Held(caller), link, pool, panicked)
        BY DEF PoolInv
      <3>q. Placed(Held(caller'), link, pool \ {x}, panicked)
        BY <3>4, <3>7, <3>p, PlacedTake
      <3>8. Placed(Held(caller'), link', pool', panicked')
        BY <2>1, <3>2, <3>q
      <3> QED BY <2>1, <3>2, <3>3, <3>5, <3>6, <3>8 DEF PoolInv, PoolType
    <2>2. CASE pool = {} /\ drained \in {"drain", "done"} /\ panicked' = TRUE
               /\ UNCHANGED <<pool, caller, phase, healthy, checking>>
      <3>1. Placed(Held(caller'), link', pool', panicked')
        BY <1>8, <2>2, PlacedPanic DEF KvPool!Receive, PoolInv
      <3> QED BY <1>8, <2>2, <3>1 DEF KvPool!Receive, PoolInv, PoolType
    <2>3. CASE pool = {} /\ drained \in {"no", "flag"} /\ KvPool!Retry(c) /\ UNCHANGED <<pool, panicked>>
      <3>1. caller[c].conn = None /\ caller[c].at = "receive" /\ UNCHANGED <<link, drained, closed>>
        BY <1>8 DEF KvPool!Receive, PoolInv, Holding
      <3> QED BY <1>6, <2>3, <3>1
    <2> QED BY <1>8, <2>1, <2>2, <2>3 DEF KvPool!Receive
  <1>9. ASSUME NEW c \in KvPool!Goroutine, KvPool!ExecuteWithConn(c) PROVE PoolInv'
    <2>1. PICK t \in {"releaseOk", "releaseFailed"} : KvPool!Goes(c, t)
      BY <1>9 DEF KvPool!ExecuteWithConn
    <2>2. caller[c].at = "run" /\ UNCHANGED <<link, pool, drained, closed, checking, phase, panicked>>
      BY <1>9 DEF KvPool!ExecuteWithConn
    <2> QED BY <1>1, <1>b, <2>1, <2>2 DEF Holding
  <1>10. ASSUME NEW c \in KvPool!Goroutine, KvPool!Release(c) PROVE PoolInv'
    <2>1. caller[c].at \in Holding /\ caller[c].conn # None /\ caller[c].at # "idle"
          /\ UNCHANGED <<pool, drained, closed, panicked>>
      BY <1>10 DEF KvPool!Release, PoolInv, Holding
    <2>2. CASE closed
      BY <1>6, <1>10, <2>1, <2>2 DEF KvPool!Release, KvPool!Released
    <2>3. CASE ~closed
      <3>1. PICK t \in {"sendOk", "sendFailed"} : KvPool!Goes(c, t)
        BY <1>10, <2>3 DEF KvPool!Release
      <3>2. UNCHANGED <<link, phase, checking>>
        BY <1>10, <2>3 DEF KvPool!Release
      <3> QED BY <1>1, <1>b, <2>1, <3>1, <3>2 DEF Holding
    <2> QED BY <2>2, <2>3
  <1>11. ASSUME NEW c \in KvPool!Goroutine, KvPool!Send(c) PROVE PoolInv'
    <2>1. caller[c].at # "idle" /\ caller[c].conn # None /\ UNCHANGED <<link, drained, closed>>
      BY <1>11 DEF KvPool!Send, PoolInv, Holding
    <2>2. CASE drained \in {"drain", "done"}
      <3>1. panicked' = TRUE /\ UNCHANGED <<pool, caller, phase, checking>>
        BY <1>11, <2>2 DEF KvPool!Send
      <3>2. Placed(Held(caller'), link', pool', panicked')
        BY <2>1, <3>1, PlacedPanic DEF PoolInv
      <3> QED BY <2>1, <2>2, <3>1, <3>2 DEF PoolInv, PoolType
    <2>3. CASE drained \notin {"drain", "done"}
      <3>1. /\ KvPool!Retry(c) \/ \E ok \in BOOLEAN : KvPool!Return(c, ok)
            /\ pool' = pool \cup {caller[c].conn} /\ UNCHANGED panicked
        BY <1>11, <2>3 DEF KvPool!Send, KvPool!Released
      <3>2. UNCHANGED <<drained, closed, panicked>> /\ UNCHANGED link
        BY <2>1, <3>1
      <3>3. UNCHANGED link /\ caller[c].conn # None /\ pool' = pool \cup {caller[c].conn}
        BY <2>1, <3>1
      <3>4. caller[c].at # "idle"
        BY <2>1
      <3> QED BY ONLY <1>6, <3>1, <3>2, <3>3, <3>4, c \in KvPool!Goroutine
    <2> QED BY <2>2, <2>3
  <1>12. CASE KvPool!SetClosed \/ KvPool!CloseChannel
    <2>1. UNCHANGED <<phase, link, pool, checking, caller, panicked>> /\ closed' = TRUE
          /\ drained' \in {"flag", "drain"}
      BY <1>12 DEF KvPool!SetClosed, KvPool!CloseChannel, PoolInv
    <2>2. Placed(Held(caller'), link', pool', panicked')
      BY <2>1 DEF PoolInv
    <2> QED BY <2>1, <2>2 DEF PoolInv, PoolType
  <1>13. CASE KvPool!Drain
    <2>1. UNCHANGED <<phase, closed, checking, caller, panicked>> /\ drained = "drain"
      BY <1>13 DEF KvPool!Drain
    <2>2. CASE pool = {}
      BY <1>13, <2>1, <2>2 DEF KvPool!Drain, PoolInv, PoolType
    <2>3. CASE pool # {}
      <3>1. PICK x \in pool : pool' = pool \ {x} /\ link' = [link EXCEPT ![x] = "closed"] /\ UNCHANGED drained
        BY <1>13, <2>3 DEF KvPool!Drain
      <3>2. Placed(Held(caller), link', pool', panicked)
        BY <1>h, <3>1, PlacedDrain DEF PoolInv, PoolType
      <3> QED BY <2>1, <3>1, <3>2 DEF PoolInv, PoolType
    <2> QED BY <2>2, <2>3
  <1>14. CASE UNCHANGED KvPool!vars
    BY <1>14 DEF KvPool!vars, PoolInv, PoolType
  <1> QED BY <1>2, <1>3, <1>4, <1>5, <1>7, <1>8, <1>9, <1>10, <1>11, <1>12, <1>13, <1>14 DEF KvPool!Next

-------------------------------------------------------------------------------
(* Webhooks                                                                *)

Urls == {"good", "malformed"}
Outcome == {"pending", "retrying", "delivered", "failed"}
WebhookRow == [events: Subscribed, url: Urls]
WebhookJob == [url: Urls, at: {"created", "post", "again", "note", "close", "done"}, attempt: Nat, status: Outcome]
WebhookRecord == [status: Outcome, attempts: Nat]

\* The goroutines of deliveries that have not ended.
Posting(jobs) == {d \in Webhooks!Delivery : jobs[d] # None /\ jobs[d].at \notin {"created", "done"}}

\* What a goroutine may be doing, if the receiver has or has not acknowledged its event ...
Doing(j, got) ==
  /\ j \in WebhookJob
  /\ j.attempt <= MaxAttempts
  /\ j.at \in {"created", "post", "again", "note"} =>
       ~got /\ j.status \in {"pending", "retrying"} /\ j.attempt >= 1
         /\ (j.url = "malformed" => j.at \in {"created", "post"})
  /\ j.at \in {"close", "done"} =>
       \/ j.status = "delivered" /\ got
       \/ /\ j.status = "failed" /\ ~got
          /\ j.attempt = IF j.url = "malformed" THEN 0 ELSE MaxAttempts

\* ... and what the record of its delivery may say.
Telling(j, r, got) ==
  /\ r \in WebhookRecord
  /\ r.attempts <= MaxAttempts
  /\ r.status = "delivered" => got
  /\ r.status = "failed" =>
       ~got /\ j.at = "done" /\ r.attempts = IF j.url = "malformed" THEN 0 ELSE MaxAttempts

Delivering(j, r, got) ==
  IF j = None THEN r = None /\ ~got ELSE Doing(j, got) /\ (r = None \/ Telling(j, r, got))

\* The counter of deliveries counts the goroutines, and Shutdown those it found.
WebhookInv ==
  /\ hook \in [Hook -> WebhookRow \cup {None, Gone}]
  /\ dispatch \subseteq [id: Hook, events: Subscribed, url: Urls]
  /\ job \in [Webhooks!Delivery -> WebhookJob \cup {None}]
  /\ DOMAIN record = Webhooks!Delivery /\ record = [d \in Webhooks!Delivery |-> record[d]]
  /\ received \subseteq Webhooks!Delivery /\ acknowledged \subseteq received
  /\ awaited \subseteq Webhooks!Delivery
  /\ \A d \in Webhooks!Delivery : Delivering(job[d], record[d], d \in acknowledged)
  /\ wg = Cardinality(Posting(job))
  /\ \A d \in awaited : job[d] # None /\ job[d].at # "created"
  /\ waiting = "done" => awaited \cap Posting(job) = {}

LEMMA DeliveriesFinite ==
  /\ IsFiniteSet(Webhooks!Delivery)
  /\ \A js : IsFiniteSet(Posting(js)) /\ Cardinality(Posting(js)) \in Nat
  <1>1. IsFiniteSet(Webhooks!Delivery)
    BY FS_Interval, BoundsAssumption DEF Webhooks!Delivery, BoundsAssumption
  <1>2. ASSUME NEW js PROVE IsFiniteSet(Posting(js)) /\ Cardinality(Posting(js)) \in Nat
    BY <1>1, FS_Subset, FS_CardinalityType, Posting(js) \in SUBSET Webhooks!Delivery DEF Posting
  <1> QED BY <1>1, <1>2

LEMMA WebhookStart == Webhooks!Init => WebhookInv
  <1> SUFFICES ASSUME Webhooks!Init PROVE WebhookInv
    OBVIOUS
  <1>1. Posting(job) = {} /\ Cardinality(Posting(job)) = 0
    BY FS_EmptySet DEF Webhooks!Init, Posting
  <1>2. \A d \in Webhooks!Delivery : Delivering(job[d], record[d], d \in acknowledged)
    BY DEF Webhooks!Init, Delivering
  <1> QED BY <1>1, <1>2 DEF Webhooks!Init, WebhookInv

\* What the invariant says of a delivery is what the properties say of it.
LEMMA WebhookKept == WebhookInv => Webhooks!ShutdownWaits /\ Webhooks!RecordsTrue
  <1> SUFFICES ASSUME WebhookInv PROVE Webhooks!ShutdownWaits /\ Webhooks!RecordsTrue
    OBVIOUS
  <1>1. Webhooks!ShutdownWaits
    BY DEF WebhookInv, Posting, Webhooks!ShutdownWaits, Webhooks!Running
  <1>2. ASSUME NEW d \in Webhooks!Delivery, record[d] # None
        PROVE  Telling(job[d], record[d], d \in acknowledged)
    BY <1>2 DEF WebhookInv, Delivering
  <1>3. Webhooks!RecordsTrue
    BY <1>2 DEF Webhooks!RecordsTrue, Telling, WebhookInv
  <1> QED BY <1>1, <1>3

\* One goroutine moves on, with its record and what its receiver knows: who is
\* not counted as under way any more is subtracted.
LEMMA DeliveryMoves ==
  ASSUME WebhookInv, NEW d \in Webhooks!Delivery, job[d] # None, job[d].at \notin {"created", "done"},
         NEW j \in WebhookJob, j.at # "created", job' = [job EXCEPT ![d] = j],
         \/ record' = record
         \/ \E r \in WebhookRecord : record' = [record EXCEPT ![d] = r],
         received' \in {received, received \cup {d}},
         acknowledged' = acknowledged \/ (acknowledged' = acknowledged \cup {d} /\ d \in received'),
         Delivering(j, record'[d], d \in acknowledged'),
         wg' = IF j.at = "done" THEN wg - 1 ELSE wg,
         UNCHANGED <<hook, dispatch, waiting, awaited>>
  PROVE  WebhookInv'
  <1>n. None \notin WebhookJob /\ j # None
    BY AbsenceAssumption DEF AbsenceAssumption, WebhookJob, Urls, Outcome
  <1>1. job' \in [Webhooks!Delivery -> WebhookJob \cup {None}]
        /\ job'[d] = j /\ (\A e \in Webhooks!Delivery \ {d} : job'[e] = job[e])
    BY DEF WebhookInv
  <1>2. /\ DOMAIN record' = Webhooks!Delivery
        /\ record' = [e \in Webhooks!Delivery |-> record'[e]]
        /\ \A e \in Webhooks!Delivery \ {d} : record'[e] = record[e]
    BY DEF WebhookInv
  <1>3. \A e \in Webhooks!Delivery \ {d} : e \in acknowledged' <=> e \in acknowledged
    OBVIOUS
  <1>4. \A e \in Webhooks!Delivery : Delivering(job'[e], record'[e], e \in acknowledged')
    <2> TAKE e \in Webhooks!Delivery
    <2>1. CASE e = d
      BY <1>1, <2>1
    <2>2. CASE e # d
      <3>1. Delivering(job[e], record[e], e \in acknowledged)
        BY DEF WebhookInv
      <3>2. job'[e] = job[e] /\ record'[e] = record[e] /\ (e \in acknowledged' <=> e \in acknowledged)
        BY <1>1, <1>2, <1>3, <2>2
      <3> QED BY <3>1, <3>2 DEF Delivering, Doing, Telling
    <2> QED BY <2>1, <2>2
  <1>5. d \in Posting(job)
    BY DEF Posting
  <1>6. Posting(job') = IF j.at = "done" THEN Posting(job) \ {d} ELSE Posting(job)
    BY <1>n, <1>1, <1>5 DEF Posting
  <1>7. Cardinality(Posting(job) \ {d}) = Cardinality(Posting(job)) - 1
    BY <1>5, DeliveriesFinite, FS_RemoveElement
  <1>8. wg' = Cardinality(Posting(job'))
    BY <1>6, <1>7 DEF WebhookInv
  <1>9. Posting(job') \subseteq Posting(job)
    BY <1>6
  <1>10. \A e \in awaited : job'[e] # None /\ job'[e].at # "created"
    BY <1>1, <1>n DEF WebhookInv
  <1> QED BY <1>1, <1>2, <1>4, <1>8, <1>9, <1>10 DEF WebhookInv

LEMMA WebhookStep == WebhookInv /\ [Webhooks!Next]_Webhooks!vars => WebhookInv'
  <1> SUFFICES ASSUME WebhookInv, [Webhooks!Next]_Webhooks!vars PROVE WebhookInv'
    OBVIOUS
  <1>n. None \notin WebhookJob
    BY AbsenceAssumption DEF AbsenceAssumption, WebhookJob, Urls, Outcome
  \* Steps that start and move no delivery.
  <1>1. ASSUME UNCHANGED <<job, record, wg, received, acknowledged>>,
               hook' \in [Hook -> WebhookRow \cup {None, Gone}],
               dispatch' \subseteq [id: Hook, events: Subscribed, url: Urls],
               awaited' \subseteq Webhooks!Delivery, \A d \in awaited' : job[d] # None /\ job[d].at # "created",
               waiting' = "done" => awaited' \cap Posting(job) = {}
        PROVE  WebhookInv'
    <2>1. Posting(job') = Posting(job)
      BY <1>1
    <2>2. \A d \in Webhooks!Delivery : Delivering(job'[d], record'[d], d \in acknowledged')
      BY <1>1 DEF WebhookInv
    <2> QED BY <1>1, <2>1, <2>2 DEF WebhookInv
  <1>2. ASSUME NEW h \in Hook, NEW evs \in Subscribed, NEW u \in {"good", "malformed"},
               Webhooks!Register(h, evs, u)
        PROVE  WebhookInv'
    <2>1. [events |-> evs, url |-> u] \in WebhookRow
      BY DEF WebhookRow, Urls
    <2> QED BY <1>1, <1>2, <2>1 DEF Webhooks!Register, WebhookInv
  <1>3. ASSUME NEW h \in Hook, Webhooks!Unregister(h) PROVE WebhookInv'
    BY <1>1, <1>3 DEF Webhooks!Unregister, WebhookInv
  <1>4. ASSUME NEW e \in EventType, Webhooks!Fetch(e) PROVE WebhookInv'
    <2>1. ASSUME NEW h \in Hook, Webhooks!Registered(h)
          PROVE  [id |-> h, events |-> hook[h].events, url |-> hook[h].url]
                   \in [id: Hook, events: Subscribed, url: Urls]
      BY <2>1 DEF Webhooks!Registered, WebhookInv, WebhookRow
    <2>2. dispatch' \subseteq [id: Hook, events: Subscribed, url: Urls]
      BY <1>4, <2>1 DEF Webhooks!Fetch
    <2> QED BY <1>1, <1>4, <2>2 DEF Webhooks!Fetch, WebhookInv
  <1>5. ASSUME NEW h \in dispatch, Webhooks!Skip(h) PROVE WebhookInv'
    BY <1>1, <1>5 DEF Webhooks!Skip, WebhookInv
  <1>6. ASSUME NEW h \in dispatch, NEW d \in Webhooks!Delivery, Webhooks!Dispatch(h, d) PROVE WebhookInv'
    <2> DEFINE j == [url |-> h.url, at |-> "created", attempt |-> 1, status |-> "pending"]
               r == [status |-> "pending", attempts |-> 0]
    <2>1. j \in WebhookJob /\ r \in WebhookRecord /\ j # None
      BY <1>n DEF WebhookInv, WebhookJob, WebhookRecord, Outcome
    <2>2. /\ job[d] = None /\ job' = [job EXCEPT ![d] = j]
          /\ record' = record \/ record' = [record EXCEPT ![d] = r]
          /\ dispatch' = dispatch \ {h}
          /\ UNCHANGED <<hook, wg, waiting, received, acknowledged, awaited>>
      BY <1>6 DEF Webhooks!Dispatch
    <2>3. 1 <= MaxAttempts
      BY BoundsAssumption DEF BoundsAssumption
    <2>4. record[d] = None /\ d \notin acknowledged
      BY <2>2 DEF WebhookInv, Delivering
    <2>5. /\ j.url = h.url /\ j.at = "created" /\ j.attempt = 1 /\ j.status = "pending"
          /\ r.status = "pending" /\ r.attempts = 0
      OBVIOUS
    <2> HIDE DEF j, r
    <2>m. 0 <= MaxAttempts
      BY BoundsAssumption DEF BoundsAssumption
    <2>6. job' \in [Webhooks!Delivery -> WebhookJob \cup {None}]
          /\ job'[d] = j /\ (\A e \in Webhooks!Delivery \ {d} : job'[e] = job[e])
      BY <2>1, <2>2 DEF WebhookInv
    <2>7. /\ DOMAIN record' = Webhooks!Delivery
          /\ record' = [e \in Webhooks!Delivery |-> record'[e]]
          /\ \A e \in Webhooks!Delivery \ {d} : record'[e] = record[e]
          /\ record'[d] \in {None, r}
      BY <2>2, <2>4 DEF WebhookInv
    <2>8. Delivering(j, record'[d], d \in acknowledged')
      <3>1. d \notin acknowledged'
        BY <2>2, <2>4
      <3>2. Doing(j, d \in acknowledged')
        BY <2>1, <2>3, <2>5, <3>1 DEF Doing
      <3>3. Telling(j, r, d \in acknowledged')
        BY <2>1, <2>5, <2>m, <3>1 DEF Telling
      <3> QED BY <2>1, <2>7, <3>2, <3>3 DEF Delivering
    <2>9. \A e \in Webhooks!Delivery : Delivering(job'[e], record'[e], e \in acknowledged')
      <3> TAKE e \in Webhooks!Delivery
      <3>1. CASE e = d
        BY <2>6, <2>8, <3>1
      <3>2. CASE e # d
        BY <2>2, <2>6, <2>7, <3>2 DEF WebhookInv
      <3> QED BY <3>1, <3>2
    <2>10. j.at = "created"
      BY <2>5
    <2>11. Posting(job') = Posting(job)
      BY <2>1, <2>2, <2>6, <2>10 DEF Posting
    <2>12. \A e \in awaited' : job'[e] # None /\ job'[e].at # "created"
      BY <2>2, <2>6 DEF WebhookInv
    <2> QED BY <2>1, <2>2, <2>6, <2>7, <2>9, <2>11, <2>12 DEF WebhookInv
  \* The goroutine of a delivery.
  <1>7. ASSUME NEW d \in Webhooks!Delivery, job[d] # None
        PROVE  /\ job[d] \in WebhookJob /\ Doing(job[d], d \in acknowledged)
               /\ record[d] = None \/ Telling(job[d], record[d], d \in acknowledged)
    BY <1>7 DEF WebhookInv, Delivering
  \* It is counted and started.
  <1>17. ASSUME NEW d \in Webhooks!Delivery, Webhooks!Launch(d) PROVE WebhookInv'
    <2> DEFINE j == [job[d] EXCEPT !.at = "post"]
    <2>1. /\ job[d] # None /\ job[d].at = "created" /\ wg' = wg + 1
          /\ UNCHANGED <<hook, dispatch, record, waiting, received, acknowledged, awaited>>
      BY <1>17 DEF Webhooks!Launch
    <2>2. /\ job[d] \in WebhookJob /\ Doing(job[d], d \in acknowledged)
          /\ record[d] = None \/ Telling(job[d], record[d], d \in acknowledged)
      BY <1>7, <2>1
    <2>3. j \in WebhookJob /\ j.at = "post" /\ j.status = job[d].status /\ j.url = job[d].url
          /\ j.attempt = job[d].attempt
      BY <2>2 DEF WebhookJob
    <2>4. job' = [job EXCEPT ![d] = j]
      BY <1>17 DEF Webhooks!Launch, WebhookInv
    <2> HIDE DEF j
    <2>5. job' \in [Webhooks!Delivery -> WebhookJob \cup {None}]
          /\ job'[d] = j /\ (\A e \in Webhooks!Delivery \ {d} : job'[e] = job[e])
      BY <2>3, <2>4 DEF WebhookInv
    <2>6. Delivering(j, record[d], d \in acknowledged)
      BY <1>n, <2>1, <2>2, <2>3 DEF Delivering, Doing, Telling
    <2>7. \A e \in Webhooks!Delivery : Delivering(job'[e], record'[e], e \in acknowledged')
      <3> TAKE e \in Webhooks!Delivery
      <3>1. CASE e = d
        BY <2>1, <2>5, <2>6, <3>1
      <3>2. CASE e # d
        BY <2>1, <2>5, <3>2 DEF WebhookInv
      <3> QED BY <3>1, <3>2
    <2>8. d \notin Posting(job) /\ Posting(job') = Posting(job) \cup {d}
      BY <1>n, <2>1, <2>3, <2>5 DEF Posting
    <2>9. wg' = Cardinality(Posting(job'))
      BY <2>1, <2>8, DeliveriesFinite, FS_AddElement DEF WebhookInv
    <2>10. d \notin awaited
      BY <2>1 DEF WebhookInv
    <2>11. waiting' = "done" => awaited' \cap Posting(job') = {}
      BY <2>1, <2>8, <2>10 DEF WebhookInv
    <2>12. \A e \in awaited' : job'[e] # None /\ job'[e].at # "created"
      BY <2>1, <2>5, <2>10 DEF WebhookInv
    <2> QED BY <2>1, <2>5, <2>7, <2>9, <2>11, <2>12 DEF WebhookInv
  <1>8. ASSUME NEW d \in Webhooks!Delivery, Webhooks!Post(d) PROVE WebhookInv'
    <2>1. /\ job[d] # None /\ job[d].at = "post" /\ job[d].url # "malformed"
          /\ UNCHANGED <<hook, dispatch, record, wg, waiting, awaited>>
      BY <1>8 DEF Webhooks!Post
    <2>2. /\ job[d] \in WebhookJob /\ Doing(job[d], d \in acknowledged)
          /\ record[d] = None \/ Telling(job[d], record[d], d \in acknowledged)
      BY <1>7, <2>1
    <2>3. d \notin acknowledged /\ job[d].status \in {"pending", "retrying"}
          /\ job[d].attempt <= MaxAttempts /\ job[d].attempt >= 1
      BY <2>1, <2>2 DEF Doing
    <2>4. CASE /\ received' = received \cup {d} /\ acknowledged' = acknowledged \cup {d}
               /\ Webhooks!Goes(d, "close", "delivered")
      <3> DEFINE j == [job[d] EXCEPT !.at = "close", !.status = "delivered"]
      <3>1. j \in WebhookJob /\ j.at = "close" /\ j.status = "delivered" /\ j.url = job[d].url
            /\ j.attempt = job[d].attempt
        BY <2>2 DEF WebhookJob, Outcome
      <3>2. job' = [job EXCEPT ![d] = j]
        BY <2>1, <2>4 DEF Webhooks!Goes, WebhookInv
      <3> HIDE DEF j
      <3>3. Delivering(j, record'[d], d \in acknowledged')
        BY <1>n, <2>1, <2>2, <2>3, <2>4, <3>1 DEF Delivering, Doing, Telling
      <3> QED BY <2>1, <2>4, <3>1, <3>2, <3>3, DeliveryMoves
    <2>5. ASSUME NEW to \in {"again", "note"}, NEW st \in {"pending", "retrying"}, Webhooks!Goes(d, to, st),
                 received' \in {received, received \cup {d}}, acknowledged' = acknowledged
          PROVE  WebhookInv'
      <3> DEFINE j == [job[d] EXCEPT !.at = to, !.status = st]
      <3>1. j \in WebhookJob /\ j.at = to /\ j.status = st /\ j.url = job[d].url
            /\ j.attempt = job[d].attempt
        BY <2>2 DEF WebhookJob, Outcome
      <3>2. job' = [job EXCEPT ![d] = j]
        BY <2>1, <2>5 DEF Webhooks!Goes, WebhookInv
      <3> HIDE DEF j
      <3>3. Delivering(j, record'[d], d \in acknowledged')
        BY <1>n, <2>1, <2>2, <2>3, <2>5, <3>1 DEF Delivering, Doing, Telling
      <3> QED BY <2>1, <2>5, <3>1, <3>2, <3>3, DeliveryMoves
    <2> QED BY <1>8, <2>3, <2>4, <2>5 DEF Webhooks!Post
  <1>9. ASSUME NEW d \in Webhooks!Delivery, Webhooks!CannotBuild(d) PROVE WebhookInv'
    <2>1. /\ job[d] # None /\ job[d].at = "post" /\ job[d].url = "malformed"
          /\ UNCHANGED <<hook, dispatch, record, wg, waiting, received, acknowledged, awaited>>
      BY <1>9 DEF Webhooks!CannotBuild
    <2>2. /\ job[d] \in WebhookJob /\ Doing(job[d], d \in acknowledged)
          /\ record[d] = None \/ Telling(job[d], record[d], d \in acknowledged)
      BY <1>7, <2>1
    <2>3. d \notin acknowledged
      BY <2>1, <2>2 DEF Doing
    <2> DEFINE j == [job[d] EXCEPT !.at = "close", !.status = "failed", !.attempt = 0]
    <2>4. j \in WebhookJob /\ j.at = "close" /\ j.status = "failed" /\ j.url = "malformed" /\ j.attempt = 0
      BY <2>1, <2>2 DEF WebhookJob, Outcome
    <2>5. job' = [job EXCEPT ![d] = j]
      BY <1>9 DEF Webhooks!CannotBuild, WebhookInv
    <2> HIDE DEF j
    <2>6. 0 <= MaxAttempts
      BY BoundsAssumption DEF BoundsAssumption
    <2>7. Delivering(j, record'[d], d \in acknowledged')
      BY <1>n, <2>1, <2>2, <2>3, <2>4, <2>6 DEF Delivering, Doing, Telling
    <2> QED BY <2>1, <2>4, <2>5, <2>7, DeliveryMoves
  \* An update of the record says what the goroutine has found.
  <1>10. ASSUME NEW d \in Webhooks!Delivery, job[d] # None, NEW j \in WebhookJob, Webhooks!Update(d),
                j.url = job[d].url, j.attempt = job[d].attempt, j.status = job[d].status,
                \/ job[d].at = "note" /\ j.at = "again"
                \/ job[d].at = "close" /\ j.at = "done"
         PROVE  /\ Delivering(j, record'[d], d \in acknowledged)
                /\ \/ record' = record
                   \/ \E r \in WebhookRecord : record' = [record EXCEPT ![d] = r]
    <2>1. /\ job[d] \in WebhookJob /\ Doing(job[d], d \in acknowledged)
          /\ record[d] = None \/ Telling(job[d], record[d], d \in acknowledged)
      BY <1>7, <1>10
    <2>2. Doing(j, d \in acknowledged) /\ j # None
      BY <1>n, <1>10, <2>1 DEF Doing
    <2>3. CASE record' = record
      BY <1>10, <2>1, <2>2, <2>3 DEF Delivering, Telling
    <2>4. CASE record' = [record EXCEPT ![d] = [status |-> job[d].status, attempts |-> job[d].attempt]]
      <3> DEFINE r == [status |-> job[d].status, attempts |-> job[d].attempt]
      <3>1. r \in WebhookRecord /\ r.status = j.status /\ r.attempts = j.attempt
        BY <1>10, <2>1 DEF WebhookJob, WebhookRecord
      <3>2. record'[d] = r
        BY <2>4 DEF WebhookInv
      <3> HIDE DEF r
      <3>3. Telling(j, r, d \in acknowledged)
        BY <1>10, <2>1, <2>2, <3>1 DEF Doing, Telling
      <3>4. \E q \in WebhookRecord : record' = [record EXCEPT ![d] = q]
        BY <2>4, <3>1 DEF r
      <3> QED BY <2>2, <3>2, <3>3, <3>4 DEF Delivering
    <2> QED BY <1>10, <2>3, <2>4 DEF Webhooks!Update
  <1>11. ASSUME NEW d \in Webhooks!Delivery, Webhooks!Note(d) PROVE WebhookInv'
    <2>1. /\ job[d] # None /\ job[d].at = "note" /\ Webhooks!Update(d)
          /\ UNCHANGED <<hook, dispatch, wg, waiting, received, acknowledged, awaited>>
      BY <1>11 DEF Webhooks!Note
    <2>2. job[d] \in WebhookJob
      BY <1>7, <2>1
    <2> DEFINE j == [job[d] EXCEPT !.at = "again", !.status = job[d].status]
    <2>3. j \in WebhookJob /\ j.at = "again" /\ j.status = job[d].status /\ j.url = job[d].url
          /\ j.attempt = job[d].attempt
      BY <2>2 DEF WebhookJob
    <2>4. job' = [job EXCEPT ![d] = j]
      BY <1>11 DEF Webhooks!Note, Webhooks!Goes, WebhookInv
    <2> HIDE DEF j
    <2>5. /\ Delivering(j, record'[d], d \in acknowledged)
          /\ \/ record' = record
             \/ \E r \in WebhookRecord : record' = [record EXCEPT ![d] = r]
      BY <1>10, <2>1, <2>3
    <2> QED BY <2>1, <2>3, <2>4, <2>5, DeliveryMoves
  <1>12. ASSUME NEW d \in Webhooks!Delivery, Webhooks!Close(d) PROVE WebhookInv'
    <2>1. /\ job[d] # None /\ job[d].at = "close" /\ Webhooks!Update(d) /\ wg' = wg - 1
          /\ UNCHANGED <<hook, dispatch, waiting, received, acknowledged, awaited>>
      BY <1>12 DEF Webhooks!Close
    <2>2. job[d] \in WebhookJob
      BY <1>7, <2>1
    <2> DEFINE j == [job[d] EXCEPT !.at = "done", !.status = job[d].status]
    <2>3. j \in WebhookJob /\ j.at = "done" /\ j.status = job[d].status /\ j.url = job[d].url
          /\ j.attempt = job[d].attempt
      BY <2>2 DEF WebhookJob
    <2>4. job' = [job EXCEPT ![d] = j]
      BY <1>12 DEF Webhooks!Close, Webhooks!Goes, WebhookInv
    <2> HIDE DEF j
    <2>5. /\ Delivering(j, record'[d], d \in acknowledged)
          /\ \/ record' = record
             \/ \E r \in WebhookRecord : record' = [record EXCEPT ![d] = r]
      BY <1>10, <2>1, <2>3
    <2> QED BY <2>1, <2>3, <2>4, <2>5, DeliveryMoves
  <1>13. ASSUME NEW d \in Webhooks!Delivery, Webhooks!Again(d) PROVE WebhookInv'
    <2>1. /\ job[d] # None /\ job[d].at = "again"
          /\ UNCHANGED <<hook, dispatch, record, wg, waiting, received, acknowledged, awaited>>
      BY <1>13 DEF Webhooks!Again
    <2>2. /\ job[d] \in WebhookJob /\ Doing(job[d], d \in acknowledged)
          /\ record[d] = None \/ Telling(job[d], record[d], d \in acknowledged)
      BY <1>7, <2>1
    <2>3. /\ d \notin acknowledged /\ job[d].status \in {"pending", "retrying"} /\ job[d].url # "malformed"
          /\ job[d].attempt <= MaxAttempts /\ job[d].attempt >= 1 /\ job[d].attempt \in Nat
      BY <2>1, <2>2 DEF Doing, WebhookJob
    <2>4. CASE job[d].attempt < MaxAttempts
      <3> DEFINE n == job[d].attempt + 1
                 j == [job[d] EXCEPT !.at = "post", !.attempt = n]
      <3>2. job' = [job EXCEPT ![d] = j]
        BY <1>13, <2>4 DEF Webhooks!Again, WebhookInv
      <3>4. n \in Nat /\ n = job[d].attempt + 1
        BY <2>3
      <3> HIDE DEF n
      <3>1. j \in WebhookJob /\ j.at = "post" /\ j.status = job[d].status /\ j.url = job[d].url
            /\ j.attempt = n
        BY <2>2, <3>4 DEF WebhookJob
      <3> HIDE DEF j
      <3>3. j.attempt <= MaxAttempts /\ j.attempt >= 1
        BY <2>3, <2>4, <3>1, <3>4, BoundsAssumption DEF BoundsAssumption
      <3>5. Delivering(j, record'[d], d \in acknowledged')
        BY <1>n, <2>1, <2>2, <2>3, <3>1, <3>3 DEF Delivering, Doing, Telling
      <3> QED BY <2>1, <3>1, <3>2, <3>5, DeliveryMoves
    <2>5. CASE ~(job[d].attempt < MaxAttempts)
      <3> DEFINE j == [job[d] EXCEPT !.at = "close", !.status = "failed"]
      <3>1. j \in WebhookJob /\ j.at = "close" /\ j.status = "failed" /\ j.url = job[d].url
            /\ j.attempt = job[d].attempt
        BY <2>2 DEF WebhookJob, Outcome
      <3>2. job' = [job EXCEPT ![d] = j]
        BY <1>13, <2>5 DEF Webhooks!Again, Webhooks!Goes, WebhookInv
      <3> HIDE DEF j
      <3>3. j.attempt = MaxAttempts
        BY <2>3, <2>5, <3>1, BoundsAssumption DEF BoundsAssumption
      <3>4. Delivering(j, record'[d], d \in acknowledged')
        BY <1>n, <2>1, <2>2, <2>3, <3>1, <3>3 DEF Delivering, Doing, Telling
      <3> QED BY <2>1, <3>1, <3>2, <3>4, DeliveryMoves
    <2> QED BY <2>4, <2>5
  <1>14. CASE Webhooks!Shutdown
    BY <1>1, <1>14 DEF Webhooks!Shutdown, Webhooks!Running, WebhookInv
  <1>15. CASE Webhooks!WaitEnds
    <2>1. wg = 0
      BY <1>15 DEF Webhooks!WaitEnds
    <2>2. Posting(job) = {}
      BY <2>1, DeliveriesFinite, FS_EmptySet DEF WebhookInv
    <2> QED BY <1>1, <1>15, <2>2 DEF Webhooks!WaitEnds, WebhookInv
  <1>16. CASE UNCHANGED Webhooks!vars
    BY <1>1, <1>16 DEF Webhooks!vars, WebhookInv
  <1> QED BY <1>2, <1>3, <1>4, <1>5, <1>6, <1>8, <1>9, <1>11, <1>12, <1>13, <1>14, <1>15, <1>16, <1>17
          DEF Webhooks!Next

-------------------------------------------------------------------------------
(* The audit log                                                           *)

AuditEntry == [id: Nat, selected: BOOLEAN]
AuditReader == [at: {"idle", "count", "rows", "read"}, offset: Nat, total: Nat, before: Nat,
                seen: SUBSET AuditEntry, due: SUBSET AuditEntry, misled: BOOLEAN, reads: Nat]

\* Where entries are, what the reader's query selects, and that entries are told
\* apart by their identifiers.
Everywhere(q, w, p, l, g) == AuditTrail!Range(q) \cup w \cup p \cup l \cup g
Chosen(l) == {e \in l : e.selected}
Distinct(S) == \A e, f \in S : e.id = f.id => e = f

AuditType ==
  /\ buffer \in Seq(AuditEntry)
  /\ writing \subseteq AuditEntry /\ pending \subseteq AuditEntry
  /\ auditLog \subseteq AuditEntry /\ lost \subseteq AuditEntry
  /\ IsFiniteSet(auditLog)
  /\ next \in Nat \ {0}
  /\ reader \in AuditReader

\* What the pages before the offset held has been seen; when a reader ends, the
\* rows of its last page were as many as the count said; unless it was misled.
Reading(r, l) ==
  /\ r.at \in {"count", "rows", "read"} => r.due \subseteq Chosen(l)
  /\ r.at \in {"count", "rows"} /\ ~r.misled =>
       \A e \in r.due : AuditTrail!Newer(Chosen(l), e) < r.offset => e \in r.seen
  /\ r.at = "rows" /\ ~r.misled => r.total = r.before
  /\ r.at = "read" /\ ~r.misled => r.due \subseteq r.seen

AuditInv ==
  /\ AuditType
  /\ {e.id : e \in Everywhere(buffer, writing, pending, auditLog, lost)} = 1 .. next - 1
  /\ Distinct(auditLog)
  /\ Distinct(Everywhere(buffer, writing, pending, auditLog, lost))
  /\ \A e, f \in writing : e = f
  /\ worker = "done" => writing = {} /\ AuditTrail!Range(buffer) \subseteq queuedLate
  /\ closing = "returned" /\ ~overtook => worker = "done"
  /\ Reading(reader, auditLog)

LEMMA AuditKept == AuditInv => AuditTrail!AuditAccounted /\ AuditTrail!PagesComplete
  BY DEF AuditInv, Everywhere, Reading, AuditTrail!AuditAccounted, AuditTrail!PagesComplete

LEMMA AuditStart == AuditTrail!Init => AuditInv
  <1> SUFFICES ASSUME AuditTrail!Init PROVE AuditInv
    OBVIOUS
  <1>1. AuditTrail!Resting(0) \in AuditReader /\ AuditTrail!Resting(0).at = "idle"
    BY DEF AuditTrail!Resting, AuditReader
  <1>2. Everywhere(buffer, writing, pending, auditLog, lost) = {}
    BY DEF AuditTrail!Init, Everywhere, AuditTrail!Range
  <1>3. 1 .. next - 1 = {}
    BY DEF AuditTrail!Init
  <1> QED BY <1>1, <1>2, <1>3, FS_EmptySet DEF AuditTrail!Init, AuditInv, AuditType, Distinct, Reading

\* The library's cardinality is the same in the component.
LEMMA AuditCount == \A S : AuditTrail!Cardinality(S) = Cardinality(S)
  BY DEF AuditTrail!Cardinality, Cardinality

\* The number of newer entries grows with the table, and tells entries apart.
LEMMA NewerGrows ==
  ASSUME NEW S, NEW T, IsFiniteSet(T), S \subseteq T, NEW e
  PROVE  /\ AuditTrail!Newer(S, e) \in Nat
         /\ AuditTrail!Newer(S, e) <= AuditTrail!Newer(T, e)
  <1> DEFINE A == {f \in S : f.id > e.id}
             B == {f \in T : f.id > e.id}
  <1>1. A \in SUBSET B /\ B \in SUBSET T
    OBVIOUS
  <1>2. IsFiniteSet(B)
    BY <1>1, FS_Subset
  <1>3. IsFiniteSet(A) /\ Cardinality(A) <= Cardinality(B)
    BY <1>1, <1>2, FS_Subset
  <1>4. Cardinality(A) \in Nat
    BY <1>3, FS_CardinalityType
  <1>5. AuditTrail!Newer(S, e) = Cardinality(A) /\ AuditTrail!Newer(T, e) = Cardinality(B)
    BY AuditCount DEF AuditTrail!Newer
  <1> HIDE DEF A, B
  <1> QED BY <1>3, <1>4, <1>5

LEMMA NewerDiffers ==
  ASSUME NEW S \in SUBSET AuditEntry, IsFiniteSet(S), NEW e \in S, NEW f \in S, e.id < f.id
  PROVE  AuditTrail!Newer(S, f) < AuditTrail!Newer(S, e)
  <1> DEFINE A == {g \in S : g.id > f.id}
             B == {g \in S : g.id > e.id}
  <1>1. A \in SUBSET B /\ B \in SUBSET S /\ f \in B /\ f \notin A
    BY DEF AuditEntry
  <1>2. IsFiniteSet(B) /\ IsFiniteSet(A)
    BY <1>1, FS_Subset
  <1>3. A # B
    BY <1>1
  <1>4. Cardinality(A) <= Cardinality(B) /\ Cardinality(A) # Cardinality(B)
    BY <1>1, <1>2, <1>3, FS_Subset
  <1>5. Cardinality(A) \in Nat /\ Cardinality(B) \in Nat
    BY <1>2, FS_CardinalityType
  <1>6. Cardinality(A) < Cardinality(B)
    BY <1>4, <1>5
  <1>7. AuditTrail!Newer(S, f) = Cardinality(A) /\ AuditTrail!Newer(S, e) = Cardinality(B)
    BY AuditCount DEF AuditTrail!Newer
  <1> HIDE DEF A, B
  <1> QED BY <1>6, <1>7

\* Fewer entries than there are are newer than one of them.
LEMMA NewerBelow ==
  ASSUME NEW S \in SUBSET AuditEntry, IsFiniteSet(S), NEW e \in S
  PROVE  AuditTrail!Newer(S, e) < Cardinality(S)
  <1> DEFINE A == {f \in S : f.id > e.id}
  <1>1. A \in SUBSET S /\ e \notin A
    BY DEF AuditEntry
  <1>2. IsFiniteSet(A) /\ Cardinality(A) <= Cardinality(S) /\ Cardinality(A) # Cardinality(S)
    BY <1>1, FS_Subset
  <1>3. Cardinality(A) \in Nat /\ Cardinality(S) \in Nat
    BY <1>2, FS_CardinalityType
  <1>4. Cardinality(A) < Cardinality(S)
    BY <1>2, <1>3
  <1>5. AuditTrail!Newer(S, e) = Cardinality(A)
    BY AuditCount DEF AuditTrail!Newer
  <1> HIDE DEF A
  <1> QED BY <1>4, <1>5

\* A page has no more rows than its limit.
LEMMA PageBounded ==
  ASSUME NEW S \in SUBSET AuditEntry, IsFiniteSet(S), Distinct(S), NEW o \in Nat,
         NEW P, P = {e \in S : AuditTrail!Newer(S, e) \in o .. o + PageSize - 1}
  PROVE  IsFiniteSet(P) /\ Cardinality(P) \in Nat /\ Cardinality(P) <= PageSize
  <1> DEFINE I == o .. o + PageSize - 1
             f == [e \in P |-> AuditTrail!Newer(S, e)]
  <1>0. PageSize \in Nat \ {0}
    BY BoundsAssumption DEF BoundsAssumption
  <1>1. IsFiniteSet(I) /\ Cardinality(I) = PageSize
    <2>1. o \in Int /\ o + PageSize - 1 \in Int /\ ~(o > o + PageSize - 1)
          /\ (o + PageSize - 1) - o + 1 = PageSize
      BY <1>0
    <2> QED BY <2>1, FS_Interval
  <1>2. f \in [P -> I]
    OBVIOUS
  <1>3. ASSUME NEW d \in P, NEW e \in P, f[d] = f[e] PROVE d = e
    <2>1. d.id \in Nat /\ e.id \in Nat /\ d \in S /\ e \in S
      BY DEF AuditEntry
    <2>2. AuditTrail!Newer(S, d) = AuditTrail!Newer(S, e)
      BY <1>3
    <2>3. AuditTrail!Newer(S, d) \in Nat /\ AuditTrail!Newer(S, e) \in Nat
      BY NewerGrows
    <2>4. ~(d.id < e.id) /\ ~(e.id < d.id)
      BY <2>1, <2>2, <2>3, NewerDiffers
    <2>5. d.id = e.id
      BY <2>1, <2>4
    <2> QED BY <2>1, <2>5 DEF Distinct
  <1>4. f \in Injection(P, I)
    <2> HIDE DEF f, I
    <2> QED BY <1>2, <1>3 DEF Injection, IsInjective
  <1>5. IsFiniteSet(P) /\ Cardinality(P) <= Cardinality(I)
    BY <1>1, <1>4, FS_Injection
  <1> QED BY <1>1, <1>5, FS_CardinalityType

\* While the table grows the reader is at rest: what was before the offset
\* still is, or has been pushed behind it.
LEMMA ReadingKept ==
  ASSUME NEW r \in AuditReader, NEW l, NEW m, l \subseteq m, IsFiniteSet(m), Reading(r, l)
  PROVE  Reading(r, m)
  <1>1. Chosen(l) \subseteq Chosen(m)
    BY DEF Chosen
  <1>2. IsFiniteSet(Chosen(m))
    BY FS_Subset, Chosen(m) \in SUBSET m DEF Chosen
  <1>0. IsFiniteSet(Chosen(l))
    BY <1>1, <1>2, FS_Subset
  <1>3. ASSUME NEW e \in r.due, AuditTrail!Newer(Chosen(m), e) < r.offset
        PROVE  AuditTrail!Newer(Chosen(l), e) < r.offset
    <2>1. AuditTrail!Newer(Chosen(l), e) \in Nat
          /\ AuditTrail!Newer(Chosen(l), e) <= AuditTrail!Newer(Chosen(m), e)
      BY <1>1, <1>2, NewerGrows
    <2>2. AuditTrail!Newer(Chosen(m), e) \in Nat
      BY <1>2, NewerGrows
    <2>3. r.offset \in Nat
      BY DEF AuditReader
    <2> QED BY <1>3, <2>1, <2>2, <2>3
  <1> QED BY <1>1, <1>3 DEF Reading

\* A new entry is put in one of the places.
LEMMA EntryAdded ==
  ASSUME AuditInv, NEW e \in AuditEntry, e.id = next, NEW S,
         S = Everywhere(buffer, writing, pending, auditLog, lost) \cup {e}
  PROVE  {f.id : f \in S} = 1 .. next /\ Distinct(S)
  <1> DEFINE T == Everywhere(buffer, writing, pending, auditLog, lost)
  <1>1. {f.id : f \in T} = 1 .. next - 1 /\ next \in Nat \ {0} /\ Distinct(T)
    BY DEF AuditInv, AuditType
  <1> HIDE DEF T
  <1>2. S = T \cup {e}
    BY DEF T
  <1>3. {f.id : f \in S} = {f.id : f \in T} \cup {next}
    BY <1>2
  <1>4. 1 .. next = (1 .. next - 1) \cup {next}
    BY <1>1
  <1>5. \A f \in T : f.id \in 1 .. next - 1
    BY <1>1
  <1>6. \A f \in T : f.id # next
    BY <1>1, <1>5
  <1> QED BY <1>1, <1>2, <1>3, <1>4, <1>6 DEF Distinct

LEMMA ToSetOf ==
  ASSUME NEW s \in Seq(AuditEntry)
  PROVE  /\ \A e \in AuditEntry : AuditTrail!Range(Append(s, e)) = AuditTrail!Range(s) \cup {e}
         /\ s # <<>> => AuditTrail!Range(s) = {Head(s)} \cup AuditTrail!Range(Tail(s))
  <1>1. ASSUME NEW e \in AuditEntry
        PROVE  AuditTrail!Range(Append(s, e)) = AuditTrail!Range(s) \cup {e}
    <2>1. /\ DOMAIN Append(s, e) = 1 .. Len(s) + 1
          /\ \A i \in 1 .. Len(s) : Append(s, e)[i] = s[i]
          /\ Append(s, e)[Len(s) + 1] = e
          /\ DOMAIN s = 1 .. Len(s) /\ Len(s) \in Nat
      OBVIOUS
    <2>2. 1 .. Len(s) + 1 = (1 .. Len(s)) \cup {Len(s) + 1}
      BY <2>1
    <2> QED BY <2>1, <2>2 DEF AuditTrail!Range
  <1>2. ASSUME s # <<>>
        PROVE  AuditTrail!Range(s) = {Head(s)} \cup AuditTrail!Range(Tail(s))
    <2>1. /\ Len(s) \in Nat \ {0} /\ DOMAIN s = 1 .. Len(s)
          /\ DOMAIN Tail(s) = 1 .. Len(s) - 1
          /\ \A i \in 1 .. Len(s) - 1 : Tail(s)[i] = s[i + 1]
          /\ Head(s) = s[1]
      BY <1>2
    <2>2. ASSUME NEW i \in 1 .. Len(s) PROVE i = 1 \/ (i - 1 \in 1 .. Len(s) - 1 /\ s[i] = Tail(s)[i - 1])
      BY <2>1
    <2>3. \A i \in 1 .. Len(s) - 1 : i + 1 \in 1 .. Len(s)
      BY <2>1
    <2>4. 1 \in 1 .. Len(s)
      BY <2>1
    <2>5. AuditTrail!Range(s) = {s[i] : i \in 1 .. Len(s)}
          /\ AuditTrail!Range(Tail(s)) = {Tail(s)[i] : i \in 1 .. Len(s) - 1}
      BY <2>1 DEF AuditTrail!Range
    <2>6. ASSUME NEW e \in AuditTrail!Range(s) PROVE e \in {Head(s)} \cup AuditTrail!Range(Tail(s))
      <3>1. PICK i \in 1 .. Len(s) : e = s[i]
        BY <2>5, <2>6
      <3> QED BY <2>1, <2>2, <2>5, <3>1
    <2>7. ASSUME NEW e \in AuditTrail!Range(Tail(s)) PROVE e \in AuditTrail!Range(s)
      <3>1. PICK i \in 1 .. Len(s) - 1 : e = Tail(s)[i]
        BY <2>5, <2>7
      <3> QED BY <2>1, <2>3, <2>5, <3>1
    <2> QED BY <2>1, <2>4, <2>5, <2>6, <2>7
  <1> QED BY <1>1, <1>2

LEMMA AuditStep == AuditInv /\ [AuditTrail!Next]_AuditTrail!vars => AuditInv'
  <1> SUFFICES ASSUME AuditInv, [AuditTrail!Next]_AuditTrail!vars PROVE AuditInv'
    OBVIOUS
  <1> DEFINE All == Everywhere(buffer, writing, pending, auditLog, lost)
  <1>t. AuditType /\ Reading(reader, auditLog) /\ reader \in AuditReader
    BY DEF AuditInv, AuditType
  <1>e. \A selected \in BOOLEAN : AuditTrail!NewEntry(selected) \in AuditEntry /\ AuditTrail!NewEntry(selected).id = next
    BY <1>t DEF AuditTrail!NewEntry, AuditEntry, AuditType
  \* An entry goes from one place to another.
  <1>1. ASSUME buffer' \in Seq(AuditEntry), writing' \subseteq AuditEntry, pending' \subseteq AuditEntry,
               auditLog \subseteq auditLog', auditLog' \subseteq AuditEntry, lost' \subseteq AuditEntry,
               \/ auditLog' = auditLog \/ \E e \in All : auditLog' = auditLog \cup {e},
               Everywhere(buffer', writing', pending', auditLog', lost') = All,
               UNCHANGED <<next, reader>>,
               \A e, f \in writing' : e = f,
               worker' = "done" => writing' = {} /\ AuditTrail!Range(buffer') \subseteq queuedLate',
               closing' = "returned" /\ ~overtook' => worker' = "done"
        PROVE  AuditInv'
    <2>1. IsFiniteSet(auditLog')
      <3>1. ASSUME NEW e \in All, auditLog' = auditLog \cup {e} PROVE IsFiniteSet(auditLog')
        BY <1>t, <3>1, FS_AddElement DEF AuditType
      <3> QED BY <1>1, <1>t, <3>1 DEF AuditType
    <2>2. Reading(reader', auditLog')
      BY <1>1, <1>t, <2>1, ReadingKept
    <2>3. auditLog' \subseteq All
      BY <1>1 DEF Everywhere
    <2>4. /\ {e.id : e \in All} = 1 .. next - 1 /\ Distinct(All)
          /\ next \in Nat \ {0} /\ reader \in AuditReader
      BY DEF AuditInv, AuditType
    <2>5. Distinct(auditLog')
      BY <2>3, <2>4 DEF Distinct
    <2> HIDE DEF All
    <2> QED BY <1>1, <2>1, <2>2, <2>4, <2>5 DEF AuditInv, AuditType
  \* A new entry.
  <1>2. ASSUME NEW e \in AuditEntry, e.id = next, next' = next + 1,
               buffer' \in Seq(AuditEntry), pending' \subseteq AuditEntry, lost' \subseteq AuditEntry,
               Everywhere(buffer', writing, pending', auditLog, lost') = All \cup {e},
               UNCHANGED <<writing, auditLog, worker, closing, overtook, reader>>,
               worker = "done" => AuditTrail!Range(buffer') \subseteq queuedLate'
        PROVE  AuditInv'
    <2>1. /\ {f.id : f \in All \cup {e}} = 1 .. next /\ Distinct(All \cup {e})
      BY <1>2, EntryAdded
    <2>2. 1 .. next' - 1 = 1 .. next /\ next' \in Nat \ {0}
      BY <1>2, <1>t DEF AuditType
    <2>3. {f.id : f \in Everywhere(buffer', writing', pending', auditLog', lost')} = 1 .. next' - 1
          /\ Distinct(Everywhere(buffer', writing', pending', auditLog', lost'))
      BY <1>2, <2>1, <2>2
    <2> HIDE DEF All
    <2> QED BY <1>2, <2>2, <2>3 DEF AuditInv, AuditType
  <1>3. ASSUME NEW selected \in BOOLEAN, AuditTrail!Log(selected) PROVE AuditInv'
    <2> DEFINE e == AuditTrail!NewEntry(selected)
    <2>1. e \in AuditEntry /\ e.id = next
      BY <1>e
    <2> HIDE DEF e
    <2>2. next' = next + 1 /\ UNCHANGED <<worker, writing, pending, auditLog, closing, overtook, reader>>
      BY <1>3 DEF AuditTrail!Log
    <2>3. CASE /\ buffer' = Append(buffer, e)
               /\ queuedLate' = IF worker = "done" THEN queuedLate \cup {e} ELSE queuedLate
               /\ UNCHANGED lost
      <3>1. AuditTrail!Range(buffer') = AuditTrail!Range(buffer) \cup {e} /\ buffer' \in Seq(AuditEntry)
        BY <1>t, <2>1, <2>3, ToSetOf DEF AuditType
      <3>2. Everywhere(buffer', writing, pending', auditLog, lost') = All \cup {e}
        BY <2>2, <2>3, <3>1 DEF Everywhere
      <3>3. worker = "done" => AuditTrail!Range(buffer') \subseteq queuedLate'
        BY <2>3, <3>1 DEF AuditInv
      <3> QED BY <1>2, <1>t, <2>1, <2>2, <2>3, <3>1, <3>2, <3>3 DEF AuditType
    <2>4. CASE lost' = lost \cup {e} /\ UNCHANGED <<buffer, queuedLate>>
      <3>2. Everywhere(buffer', writing, pending', auditLog, lost') = All \cup {e}
        BY <2>2, <2>4 DEF Everywhere
      <3>3. worker = "done" => AuditTrail!Range(buffer') \subseteq queuedLate'
        BY <2>4 DEF AuditInv
      <3> QED BY <1>2, <1>t, <2>1, <2>2, <2>4, <3>2, <3>3 DEF AuditType
    <2> QED BY <1>3, <2>3, <2>4 DEF AuditTrail!Log, e
  <1>4. ASSUME NEW selected \in BOOLEAN, NEW x \in BOOLEAN, NEW g \in BOOLEAN, NEW i \in BOOLEAN,
               NEW f \in BOOLEAN, AuditTrail!Middleware(x, g, i, f, selected)
        PROVE  AuditInv'
    <2> DEFINE e == AuditTrail!NewEntry(selected)
    <2>1. e \in AuditEntry /\ e.id = next
      BY <1>e
    <2>2. /\ next' = next + 1 /\ pending' = pending \cup {e}
          /\ UNCHANGED <<buffer, worker, writing, auditLog, lost, queuedLate, closing, overtook, reader>>
      BY <1>4 DEF AuditTrail!Middleware
    <2> HIDE DEF e
    <2>3. Everywhere(buffer', writing, pending', auditLog, lost') = All \cup {e}
      BY <2>2 DEF Everywhere
    <2>4. worker = "done" => AuditTrail!Range(buffer') \subseteq queuedLate'
      BY <2>2 DEF AuditInv
    <2> QED BY <1>2, <1>t, <2>1, <2>2, <2>3, <2>4 DEF AuditType
  <1>5. ASSUME NEW e \in pending, AuditTrail!InsertEntry(e) PROVE AuditInv'
    <2>1. /\ pending' = pending \ {e}
          /\ UNCHANGED <<buffer, worker, writing, queuedLate, closing, overtook, next, reader>>
          /\ \/ auditLog' = auditLog \cup {e} /\ lost' = lost
             \/ lost' = lost \cup {e} /\ auditLog' = auditLog
      BY <1>5 DEF AuditTrail!InsertEntry, AuditTrail!Write
    <2>2. Everywhere(buffer', writing', pending', auditLog', lost') = All /\ e \in All
      BY <2>1 DEF Everywhere
    <2>3. buffer' \in Seq(AuditEntry) /\ writing' \subseteq AuditEntry /\ pending' \subseteq AuditEntry
          /\ auditLog \subseteq auditLog' /\ auditLog' \subseteq AuditEntry /\ lost' \subseteq AuditEntry
      BY <1>t, <2>1 DEF AuditType
    <2>4. /\ \A c, f \in writing' : c = f
          /\ worker' = "done" => writing' = {} /\ AuditTrail!Range(buffer') \subseteq queuedLate'
          /\ closing' = "returned" /\ ~overtook' => worker' = "done"
      BY <2>1 DEF AuditInv
    <2> HIDE DEF All
    <2> QED BY <1>1, <2>1, <2>2, <2>3, <2>4
  <1>6. ASSUME NEW e \in writing, AuditTrail!InsertAuditLog(e) PROVE AuditInv'
    <2>1. /\ writing' = {}
          /\ UNCHANGED <<buffer, worker, pending, queuedLate, closing, overtook, next, reader>>
          /\ \/ auditLog' = auditLog \cup {e} /\ lost' = lost
             \/ lost' = lost \cup {e} /\ auditLog' = auditLog
      BY <1>6 DEF AuditTrail!InsertAuditLog, AuditTrail!Write
    <2>0. writing = {e}
      BY DEF AuditInv
    <2>2. Everywhere(buffer', writing', pending', auditLog', lost') = All /\ e \in All
      BY <2>0, <2>1 DEF Everywhere
    <2>3. buffer' \in Seq(AuditEntry) /\ writing' \subseteq AuditEntry /\ pending' \subseteq AuditEntry
          /\ auditLog \subseteq auditLog' /\ auditLog' \subseteq AuditEntry /\ lost' \subseteq AuditEntry
      BY <1>t, <2>1 DEF AuditType
    <2>4. /\ \A c, f \in writing' : c = f
          /\ worker' = "done" => writing' = {} /\ AuditTrail!Range(buffer') \subseteq queuedLate'
          /\ closing' = "returned" /\ ~overtook' => worker' = "done"
      BY <2>1 DEF AuditInv
    <2> HIDE DEF All
    <2> QED BY <1>1, <2>1, <2>2, <2>3, <2>4
  <1>7. CASE AuditTrail!Take
    <2>1. /\ worker \in {"run", "drain"} /\ writing = {} /\ buffer # <<>>
          /\ writing' = {Head(buffer)} /\ buffer' = Tail(buffer)
          /\ UNCHANGED <<worker, pending, auditLog, lost, queuedLate, closing, overtook, next, reader>>
      BY <1>7 DEF AuditTrail!Take
    <2>2. Head(buffer) \in AuditEntry /\ buffer' \in Seq(AuditEntry)
      BY <1>t, <2>1 DEF AuditType
    <2>3. AuditTrail!Range(buffer) = {Head(buffer)} \cup AuditTrail!Range(buffer')
      BY <1>t, <2>1, ToSetOf DEF AuditType
    <2>4. Everywhere(buffer', writing', pending', auditLog', lost') = All
      BY <2>1, <2>3 DEF Everywhere
    <2>5. writing' \subseteq AuditEntry /\ pending' \subseteq AuditEntry
          /\ auditLog \subseteq auditLog' /\ auditLog' \subseteq AuditEntry /\ lost' \subseteq AuditEntry
      BY <1>t, <2>1, <2>2 DEF AuditType
    <2>6. /\ \A c, f \in writing' : c = f
          /\ worker' # "done"
          /\ closing' = "returned" /\ ~overtook' => worker' = "done"
      BY <2>1 DEF AuditInv
    <2> HIDE DEF All
    <2> QED BY <1>1, <2>1, <2>2, <2>4, <2>5, <2>6
  \* Steps that move no entry.
  <1>8. ASSUME UNCHANGED <<buffer, writing, pending, auditLog, lost, queuedLate, next, reader>>,
               worker' = "done" => writing = {} /\ AuditTrail!Range(buffer) \subseteq queuedLate,
               closing' = "returned" /\ ~overtook' => worker' = "done"
        PROVE  AuditInv'
    <2>1. Everywhere(buffer', writing', pending', auditLog', lost') = All
      BY <1>8
    <2>2. buffer' \in Seq(AuditEntry) /\ writing' \subseteq AuditEntry /\ pending' \subseteq AuditEntry
          /\ auditLog \subseteq auditLog' /\ auditLog' \subseteq AuditEntry /\ lost' \subseteq AuditEntry
      BY <1>t, <1>8 DEF AuditType
    <2>3. \A c, f \in writing' : c = f
      BY <1>8 DEF AuditInv
    <2>4. worker' = "done" => writing' = {} /\ AuditTrail!Range(buffer') \subseteq queuedLate'
      BY <1>8
    <2> HIDE DEF All
    <2> QED BY <1>1, <1>8, <2>1, <2>2, <2>3, <2>4
  <1>9. CASE AuditTrail!WorkerBegins \/ AuditTrail!SeeDone
    BY <1>8, <1>9 DEF AuditTrail!WorkerBegins, AuditTrail!SeeDone, AuditInv
  <1>10. CASE AuditTrail!WorkerEnds
    <2>1. AuditTrail!Range(<<>>) = {}
      BY DEF AuditTrail!Range
    <2> QED BY <1>8, <1>10, <2>1 DEF AuditTrail!WorkerEnds, AuditInv
  <1>11. CASE AuditTrail!Close
    BY <1>8, <1>11 DEF AuditTrail!Close, AuditInv
  <1>12. CASE AuditTrail!CloseReturns
    BY <1>8, <1>12 DEF AuditTrail!CloseReturns, AuditInv
  \* Steps of the reader.
  <1>13. ASSUME UNCHANGED AuditTrail!logVars, reader' \in AuditReader, Reading(reader', auditLog)
         PROVE  AuditInv'
    <2>1. UNCHANGED <<buffer, worker, writing, pending, auditLog, lost, queuedLate, closing, overtook, next>>
      BY <1>13 DEF AuditTrail!logVars
    <2> QED BY <1>13, <2>1 DEF AuditInv, AuditType
  <1>s. AuditTrail!Selected = Chosen(auditLog) /\ Chosen(auditLog) \in SUBSET AuditEntry
        /\ IsFiniteSet(Chosen(auditLog)) /\ Cardinality(Chosen(auditLog)) \in Nat
        /\ Distinct(Chosen(auditLog))
    <2>1. Chosen(auditLog) \in SUBSET auditLog
      BY DEF Chosen
    <2> QED BY <1>t, <2>1, FS_Subset, FS_CardinalityType
            DEF AuditTrail!Selected, Chosen, AuditType, AuditInv, Distinct
  <1>14. CASE AuditTrail!BeginRead
    <2> DEFINE r == [AuditTrail!Resting(reader.reads) EXCEPT !.at = "count", !.due = Chosen(auditLog)]
    <2>1. reader' = r /\ UNCHANGED AuditTrail!logVars
      BY <1>14, <1>s DEF AuditTrail!BeginRead
    <2>2. /\ r \in AuditReader /\ r.at = "count" /\ r.due = Chosen(auditLog) /\ r.offset = 0
      BY <1>s, <1>t DEF AuditTrail!Resting, AuditReader
    <2> HIDE DEF r
    <2>3. ASSUME NEW e \in Chosen(auditLog) PROVE ~(AuditTrail!Newer(Chosen(auditLog), e) < 0)
      BY <1>s, NewerGrows
    <2>4. Reading(r, auditLog)
      BY <2>2, <2>3 DEF Reading
    <2> QED BY <1>13, <2>1, <2>2, <2>4
  <1>15. CASE AuditTrail!Count
    <2> DEFINE n == Cardinality(Chosen(auditLog))
               q == [reader EXCEPT !.at = "rows", !.total = n, !.before = n]
               r == [reader EXCEPT !.at = "rows", !.total = 0, !.misled = TRUE]
    <2>2. n \in Nat /\ n = AuditTrail!Cardinality(AuditTrail!Selected)
      BY <1>s, AuditCount
    <2> HIDE DEF n
    <2>1. reader.at = "count" /\ reader' \in {q, r} /\ UNCHANGED AuditTrail!logVars
      BY <1>15, <2>2 DEF AuditTrail!Count
    <2>3. /\ q \in AuditReader /\ q.at = "rows" /\ q.due = reader.due /\ q.seen = reader.seen
          /\ q.offset = reader.offset /\ q.total = q.before /\ q.misled = reader.misled
      BY <1>t, <2>2 DEF AuditReader
    <2>4. /\ r \in AuditReader /\ r.at = "rows" /\ r.due = reader.due /\ r.seen = reader.seen
          /\ r.offset = reader.offset /\ r.misled
      BY <1>t, <2>2 DEF AuditReader
    <2> HIDE DEF q, r
    <2>5. Reading(q, auditLog) /\ Reading(r, auditLog)
      BY <1>t, <2>1, <2>3, <2>4 DEF Reading
    <2> QED BY <1>13, <2>1, <2>3, <2>4, <2>5
  <1>16. CASE AuditTrail!Rows
    <2> DEFINE S == Chosen(auditLog)
               P == AuditTrail!Page(S)
               o == reader.offset + PageSize
               k == reader.reads + 1
               raced == reader.misled \/ Cardinality(S) # reader.before
               to == IF AuditTrail!HasMore(Cardinality(P)) THEN "count" ELSE "read"
               r == [reader EXCEPT !.at = to, !.seen = reader.seen \cup P, !.offset = o, !.reads = k,
                                   !.misled = raced]
               away == IF AuditTrail!HasMore(Cardinality({})) THEN "count" ELSE "read"
               q == [reader EXCEPT !.at = away, !.seen = reader.seen \cup {}, !.offset = o, !.reads = k,
                                   !.misled = TRUE]
    <2>a. AuditTrail!Selected = S /\ AuditTrail!Cardinality(P) = Cardinality(P)
          /\ AuditTrail!Cardinality(S) = Cardinality(S)
      BY <1>s, AuditCount
    <2>b. AuditTrail!Cardinality({}) = Cardinality({})
      BY AuditCount
    <2>1. reader.at = "rows" /\ reader' \in {r, q} /\ UNCHANGED AuditTrail!logVars
      <3> DEFINE Turn(page, n, misled) ==
                   [reader EXCEPT !.at = IF AuditTrail!HasMore(n) THEN "count" ELSE "read",
                                  !.seen = reader.seen \cup page, !.offset = o, !.reads = k, !.misled = misled]
      <3>1. /\ reader' \in {Turn(P, AuditTrail!Cardinality(P), raced), Turn({}, AuditTrail!Cardinality({}), TRUE)}
            /\ reader.at = "rows" /\ UNCHANGED AuditTrail!logVars
        <4> HIDE DEF S
        <4> QED BY <1>16, <2>a DEF AuditTrail!Rows
      <3>2. r = Turn(P, AuditTrail!Cardinality(P), raced) /\ q = Turn({}, AuditTrail!Cardinality({}), TRUE)
        BY <2>a, <2>b
      <3> QED BY <3>1, <3>2
    <2>2. /\ reader.offset \in Nat /\ reader.reads \in Nat /\ PageSize \in Nat \ {0}
          /\ reader.total \in Nat /\ reader.before \in Nat /\ reader.misled \in BOOLEAN
          /\ reader.due \subseteq S
      BY <1>t, <2>1, BoundsAssumption DEF AuditReader, BoundsAssumption, Reading
    <2>3. P = {e \in S : AuditTrail!Newer(S, e) \in reader.offset .. reader.offset + PageSize - 1}
      BY DEF AuditTrail!Page
    <2>4. S \in SUBSET AuditEntry /\ IsFiniteSet(S) /\ Distinct(S) /\ Cardinality(S) \in Nat
      BY <1>s
    <2> HIDE DEF S, P
    <2>5. IsFiniteSet(P) /\ Cardinality(P) \in Nat /\ Cardinality(P) <= PageSize
      BY <2>2, <2>3, <2>4, PageBounded
    <2>6. o \in Nat /\ k \in Nat /\ to \in {"count", "read"} /\ raced \in BOOLEAN /\ P \subseteq AuditEntry
      BY <2>2, <2>3, <2>4
    <2>7. \A e \in S : AuditTrail!Newer(S, e) \in Nat
      BY <2>4, NewerGrows
    <2>8. ASSUME ~raced, NEW e \in reader.due, AuditTrail!Newer(S, e) < o PROVE e \in reader.seen \cup P
      <3>1. e \in S /\ AuditTrail!Newer(S, e) \in Nat
        BY <2>2, <2>7
      <3>2. CASE AuditTrail!Newer(S, e) < reader.offset
        BY <1>t, <2>1, <2>8, <3>2 DEF Reading, S
      <3>3. CASE ~(AuditTrail!Newer(S, e) < reader.offset)
        BY <2>2, <2>3, <2>8, <3>1, <3>3
      <3> QED BY <3>2, <3>3
    <2>9. ASSUME to = "read", ~raced, NEW e \in reader.due PROVE e \in reader.seen \cup P
      <3>1. e \in S /\ AuditTrail!Newer(S, e) \in Nat /\ AuditTrail!Newer(S, e) < Cardinality(S)
        BY <2>2, <2>4, <2>7, NewerBelow
      <3>2. ~(reader.offset + Cardinality(P) < reader.total)
        BY <2>9 DEF AuditTrail!HasMore
      <3>3. reader.total = Cardinality(S)
        BY <1>t, <2>1, <2>9 DEF Reading
      <3>4. AuditTrail!Newer(S, e) < o
        BY <2>2, <2>4, <2>5, <3>1, <3>2, <3>3
      <3> QED BY <2>8, <2>9, <3>4
    <2>f. away \in {"count", "read"}
      OBVIOUS
    <2> HIDE DEF o, k, to, raced, away
    <2>10. /\ r \in AuditReader /\ r.at = to /\ r.due = reader.due /\ r.seen = reader.seen \cup P
           /\ r.offset = o /\ r.misled = raced
      BY <1>t, <2>6 DEF AuditReader
    <2>12. /\ q \in AuditReader /\ q.at = away /\ q.due = reader.due /\ q.misled
      BY <1>t, <2>6, <2>f DEF AuditReader
    <2> HIDE DEF r, q
    <2>11. Reading(r, auditLog)
      BY <2>2, <2>6, <2>8, <2>9, <2>10 DEF Reading, S
    <2>13. Reading(q, auditLog)
      BY <2>2, <2>f, <2>12 DEF Reading, S
    <2> QED BY <1>13, <2>1, <2>10, <2>11, <2>12, <2>13
  <1>17. CASE AuditTrail!EndRead
    <2> DEFINE r == AuditTrail!Resting(reader.reads)
    <2>1. r \in AuditReader /\ r.at = "idle"
      BY <1>t DEF AuditTrail!Resting, AuditReader
    <2>2. reader' = r /\ UNCHANGED AuditTrail!logVars
      BY <1>17 DEF AuditTrail!EndRead
    <2> HIDE DEF r
    <2>3. Reading(r, auditLog)
      BY <2>1 DEF Reading
    <2> QED BY <1>13, <2>1, <2>2, <2>3
  <1>18. CASE UNCHANGED AuditTrail!vars
    <2>1. UNCHANGED <<buffer, writing, pending, auditLog, lost, queuedLate, next, reader, worker, closing, overtook>>
      BY <1>18 DEF AuditTrail!vars, AuditTrail!logVars
    <2> QED BY <1>8, <2>1 DEF AuditInv
  <1> QED BY <1>3, <1>4, <1>5, <1>6, <1>7, <1>9, <1>10, <1>11, <1>12, <1>14, <1>15, <1>16, <1>17, <1>18
          DEF AuditTrail!Next

-------------------------------------------------------------------------------
(* The aggregator                                                          *)

SummaryRow == [api: Metered, start: Int, counted: SUBSET Event, errors: SUBSET Event]
Aggregation == [at: {"off", "starting", "query", "insert", "end", "select", "wait", "timeout", "returned"},
                start: Int, rows: SUBSET SummaryRow, seen: SUBSET Event]

\* A summary counts events of its API and hour only, and its errors among them.
Truthful(r, rec) ==
  /\ r.errors = r.counted \cap erroneous
  /\ \A e \in r.counted : apiOf[e] = r.api /\ rec[e] \in r.start .. r.start + Hour

\* What became of an event in an aggregation that started at a time.
Covered(e, start, sums, refs) ==
  \/ \E s \in sums : e \in s.counted
  \/ \E s \in sums : s.api = apiOf[e] /\ s.start = start
  \/ <<apiOf[e], start>> \in refs

\* The summaries that an aggregation has yet to insert, ...
RowsTold(g, rec) == \A r \in g.rows : Truthful(r, rec) /\ r.start = g.start

\* ... and what the last one has still to cover.
Covering(g, sums, refs) ==
  /\ g.at \in {"wait", "query"} => g.seen = {}
  /\ g.at = "insert" =>
       \A e \in g.seen : Covered(e, g.start, sums, refs) \/ \E r \in g.rows : e \in r.counted /\ r.api = apiOf[e]
  /\ g.at \in {"end", "returned"} => \A e \in g.seen : Covered(e, g.start, sums, refs)

AggregatorInv ==
  /\ now \in Nat
  /\ agg \in [Aggregator!Actor -> Aggregation]
  /\ {events, recorded} \subseteq [Event -> Int \cup {None}]
  /\ \A e \in Event : events[e] # None => recorded[e] = events[e]
  /\ \A x \in Aggregator!Actor : RowsTold(agg[x], recorded)
  /\ Covering(agg["Shutdown"], summaries, refused)
  /\ summaries \subseteq SummaryRow
  /\ \A s \in summaries : Truthful(s, recorded)
  /\ \A s, t \in summaries : s.api = t.api /\ s.start = t.start => s = t

LEMMA AggregatorKept == AggregatorInv => Aggregator!FinalCovers /\ Aggregator!SummariesTrue
  BY DEF AggregatorInv, Covering, Covered, Truthful, Aggregator!FinalCovers, Aggregator!SummariesTrue

LEMMA AggregatorStart == Aggregator!Init => AggregatorInv
  <1> SUFFICES ASSUME Aggregator!Init PROVE AggregatorInv
    OBVIOUS
  <1>1. /\ Aggregator!Away \in Aggregation /\ Aggregator!Away.rows = {} /\ Aggregator!Away.at = "off"
    BY DEF Aggregator!Away, Aggregation
  <1>2. "Shutdown" \in Aggregator!Actor
    BY DEF Aggregator!Actor
  <1> QED BY <1>1, <1>2, InputsAssumption DEF InputsAssumption, Aggregator!Init, AggregatorInv, RowsTold, Covering

\* More summaries and refusals cover no less.
LEMMA CoveringGrows ==
  ASSUME NEW g, NEW sums, NEW refs, NEW more, NEW most, sums \subseteq more, refs \subseteq most,
         Covering(g, sums, refs)
  PROVE  Covering(g, more, most)
  <1>1. \A e, t : Covered(e, t, sums, refs) => Covered(e, t, more, most)
    BY DEF Covered
  <1> QED BY <1>1 DEF Covering

\* One goroutine goes on, and no summary is written.
LEMMA AggregationMoves ==
  ASSUME AggregatorInv, NEW x \in Aggregator!Actor, NEW g \in Aggregation, agg' = [agg EXCEPT ![x] = g],
         RowsTold(g, recorded), x = "Shutdown" => Covering(g, summaries, refused),
         UNCHANGED <<now, events, recorded, summaries, refused>>
  PROVE  AggregatorInv'
  <1>1. agg' \in [Aggregator!Actor -> Aggregation] /\ agg'[x] = g
        /\ (\A y \in Aggregator!Actor \ {x} : agg'[y] = agg[y])
    BY DEF AggregatorInv
  <1>2. "Shutdown" \in Aggregator!Actor
    BY DEF Aggregator!Actor
  <1>3. Covering(agg'["Shutdown"], summaries, refused)
    BY <1>1, <1>2 DEF AggregatorInv
  <1>4. \A y \in Aggregator!Actor : RowsTold(agg'[y], recorded)
    BY <1>1 DEF AggregatorInv
  <1> QED BY <1>1, <1>3, <1>4 DEF AggregatorInv

LEMMA AggregatorStep == AggregatorInv /\ [Aggregator!Next]_Aggregator!vars => AggregatorInv'
  <1> SUFFICES ASSUME AggregatorInv, [Aggregator!Next]_Aggregator!vars PROVE AggregatorInv'
    OBVIOUS
  <1>s. "Shutdown" \in Aggregator!Actor
    BY DEF Aggregator!Actor
  <1>g. \A x \in Aggregator!Actor : agg[x] \in Aggregation /\ RowsTold(agg[x], recorded)
    BY DEF AggregatorInv
  <1>l. \A l \in Loop : l \in Aggregator!Actor /\ l # "Shutdown"
    BY AbsenceAssumption DEF AbsenceAssumption, Aggregator!Actor
  <1>c. Covering(agg["Shutdown"], summaries, refused)
    BY DEF AggregatorInv
  \* A goroutine of Run goes to another place.
  <1>1. ASSUME NEW l \in Loop, NEW to \in {"starting", "query", "select"}, agg' = [agg EXCEPT ![l].at = to],
               UNCHANGED <<now, events, recorded, summaries, refused>>
        PROVE  AggregatorInv'
    <2> DEFINE g == [agg[l] EXCEPT !.at = to]
    <2>1. agg' = [agg EXCEPT ![l] = g]
      BY <1>1, <1>l DEF AggregatorInv
    <2>2. g \in Aggregation /\ g.rows = agg[l].rows /\ g.start = agg[l].start
      BY <1>g, <1>l DEF Aggregation
    <2> HIDE DEF g
    <2>3. RowsTold(g, recorded)
      BY <1>g, <1>l, <2>2 DEF RowsTold
    <2> QED BY <1>1, <1>l, <2>1, <2>2, <2>3, AggregationMoves
  \* Shutdown goes to a place where it has nothing to cover yet.
  <1>2. ASSUME NEW to \in {"query", "timeout", "returned"}, agg' = [agg EXCEPT !["Shutdown"].at = to],
               agg["Shutdown"].at = IF to = "returned" THEN "end" ELSE "wait",
               UNCHANGED <<now, events, recorded, summaries, refused>>
        PROVE  AggregatorInv'
    <2> DEFINE g == [agg["Shutdown"] EXCEPT !.at = to]
    <2>1. agg' = [agg EXCEPT !["Shutdown"] = g]
      BY <1>2, <1>s DEF AggregatorInv
    <2>2. g \in Aggregation /\ g.rows = agg["Shutdown"].rows /\ g.start = agg["Shutdown"].start
          /\ g.seen = agg["Shutdown"].seen /\ g.at = to
      BY <1>g, <1>s DEF Aggregation
    <2> HIDE DEF g
    <2>3. RowsTold(g, recorded)
      BY <1>g, <1>s, <2>2 DEF RowsTold
    <2>4. Covering(g, summaries, refused)
      BY <1>2, <1>c, <2>2 DEF Covering
    <2> QED BY <1>2, <1>s, <2>1, <2>2, <2>3, <2>4, AggregationMoves
  \* A step that leaves the aggregations alone.
  <1>3. ASSUME now' \in Nat, UNCHANGED <<agg, events, recorded, summaries, refused>> PROVE AggregatorInv'
    BY <1>3 DEF AggregatorInv
  <1>4. ASSUME NEW x \in Aggregator!Actor, Aggregator!ReadEvents(x) PROVE AggregatorInv'
    <2> DEFINE start == now - Hour
               all == {Aggregator!AggregateByAPI(a, start, now) : a \in Metered}
               found == {r \in all : r.counted # {}}
               seen == Aggregator!Between(start, now)
    <2>1. agg[x].at = "query" /\ UNCHANGED <<now, events, recorded, summaries, refused>>
      BY <1>4 DEF Aggregator!ReadEvents
    <2>2. CASE agg' = [agg EXCEPT ![x] = [at |-> "insert", start |-> start, rows |-> found, seen |-> seen]]
      <3>1. seen \subseteq Event /\ start \in Int /\ now = start + Hour
        BY InputsAssumption DEF InputsAssumption, Aggregator!Between, AggregatorInv
      <3>t. \A e \in seen : recorded[e] \in start .. start + Hour
        BY <3>1 DEF Aggregator!Between, AggregatorInv
      <3>2. ASSUME NEW a \in Metered
            PROVE  /\ Aggregator!AggregateByAPI(a, start, now) \in SummaryRow
                   /\ Aggregator!AggregateByAPI(a, start, now).api = a
                   /\ Aggregator!AggregateByAPI(a, start, now).start = start
                   /\ Aggregator!AggregateByAPI(a, start, now).counted = {e \in seen : apiOf[e] = a}
                   /\ Truthful(Aggregator!AggregateByAPI(a, start, now), recorded)
        <4> DEFINE counted == {e \in seen : apiOf[e] = a}
        <4>1. Aggregator!AggregateByAPI(a, start, now)
                = [api |-> a, start |-> start, counted |-> counted, errors |-> counted \cap erroneous]
          BY DEF Aggregator!AggregateByAPI
        <4>2. counted \subseteq Event /\ counted \cap erroneous \subseteq Event
          BY <3>1
        <4>3. \A e \in counted : apiOf[e] = a /\ recorded[e] \in start .. start + Hour
          BY <3>t
        <4> HIDE DEF counted, start, seen
        <4>4. /\ Aggregator!AggregateByAPI(a, start, now) \in SummaryRow
              /\ Aggregator!AggregateByAPI(a, start, now).api = a
              /\ Aggregator!AggregateByAPI(a, start, now).start = start
              /\ Aggregator!AggregateByAPI(a, start, now).counted = counted
              /\ Truthful(Aggregator!AggregateByAPI(a, start, now), recorded)
          BY <3>1, <4>1, <4>2, <4>3 DEF SummaryRow, Truthful
        <4> QED BY <4>4 DEF counted
      <3>3. \A e \in seen : apiOf[e] \in Metered
        BY <3>1, InputsAssumption DEF InputsAssumption
      <3> HIDE DEF start, seen
      <3>4. found \subseteq SummaryRow /\ \A r \in found : Truthful(r, recorded) /\ r.start = start
        BY <3>2
      <3>5. \A e \in seen : \E r \in found : e \in r.counted /\ r.api = apiOf[e]
        <4> TAKE e \in seen
        <4> DEFINE r == Aggregator!AggregateByAPI(apiOf[e], start, now)
        <4>1. r \in all /\ r.api = apiOf[e] /\ e \in r.counted
          BY <3>2, <3>3
        <4>2. r \in found
          BY <4>1
        <4> QED BY <4>1, <4>2
      <3> DEFINE g == [at |-> "insert", start |-> start, rows |-> found, seen |-> seen]
      <3> HIDE DEF found
      <3>6. g \in Aggregation /\ g.at = "insert" /\ g.start = start /\ g.rows = found /\ g.seen = seen
        BY <3>1, <3>4 DEF Aggregation
      <3>7. agg' = [agg EXCEPT ![x] = g]
        BY <2>2
      <3> HIDE DEF g
      <3>8. RowsTold(g, recorded) /\ Covering(g, summaries, refused)
        BY <3>4, <3>5, <3>6 DEF RowsTold, Covering
      <3> QED BY <2>1, <3>6, <3>7, <3>8, AggregationMoves
    <2>3. CASE agg' = [agg EXCEPT ![x].at = "end"]
      <3> DEFINE g == [agg[x] EXCEPT !.at = "end"]
      <3>1. agg' = [agg EXCEPT ![x] = g]
        BY <2>3 DEF AggregatorInv
      <3>2. g \in Aggregation /\ g.rows = agg[x].rows /\ g.start = agg[x].start
            /\ g.seen = agg[x].seen /\ g.at = "end"
        BY <1>g DEF Aggregation
      <3> HIDE DEF g
      <3>3. RowsTold(g, recorded)
        BY <1>g, <3>2 DEF RowsTold
      <3>4. x = "Shutdown" => Covering(g, summaries, refused)
        BY <1>c, <2>1, <3>2 DEF Covering
      <3> QED BY <2>1, <3>1, <3>2, <3>3, <3>4, AggregationMoves
    <2> QED BY <1>4, <2>2, <2>3 DEF Aggregator!ReadEvents
  <1>5. ASSUME NEW x \in Aggregator!Actor, Aggregator!InsertSummary(x) PROVE AggregatorInv'
    <2>1. agg[x].at = "insert" /\ UNCHANGED <<now, events, recorded>>
      BY <1>5 DEF Aggregator!InsertSummary
    <2>2. PICK row \in agg[x].rows :
            /\ agg' = [agg EXCEPT ![x].rows = @ \ {row}]
            /\ \/ /\ ~ \E s \in summaries : s.api = row.api /\ s.start = row.start
                  /\ summaries' = summaries \cup {row}
                  /\ UNCHANGED refused
               \/ /\ \E s \in summaries : s.api = row.api /\ s.start = row.start
                  /\ UNCHANGED <<summaries, refused>>
               \/ refused' = refused \cup {<<row.api, row.start>>} /\ UNCHANGED summaries
      BY <1>5 DEF Aggregator!InsertSummary
    <2>3. Truthful(row, recorded) /\ row.start = agg[x].start
      BY <1>g DEF RowsTold
    <2>4. summaries \subseteq summaries' /\ refused \subseteq refused'
      BY <2>2
    <2>t. summaries' \subseteq SummaryRow
      BY <1>g, <2>2 DEF AggregatorInv, Aggregation
    <2>5. (\A s \in summaries' : Truthful(s, recorded))
          /\ (\A s, t \in summaries' : s.api = t.api /\ s.start = t.start => s = t)
      BY <2>2, <2>3 DEF AggregatorInv
    <2> DEFINE g == [agg[x] EXCEPT !.rows = agg[x].rows \ {row}]
    <2>6. agg' = [agg EXCEPT ![x] = g]
      BY <2>2 DEF AggregatorInv
    <2>7. g \in Aggregation /\ g.rows = agg[x].rows \ {row} /\ g.start = agg[x].start
          /\ g.seen = agg[x].seen /\ g.at = "insert"
      BY <1>g, <2>1 DEF Aggregation
    <2> HIDE DEF g
    <2>8. RowsTold(g, recorded)
      BY <1>g, <2>7 DEF RowsTold
    <2>9. ASSUME x = "Shutdown" PROVE Covering(g, summaries', refused')
      <3>1. Covering(agg[x], summaries', refused')
        BY <1>c, <2>4, <2>9, CoveringGrows
      <3>2. \A e : row.api = apiOf[e] /\ e \in row.counted => Covered(e, g.start, summaries', refused')
        BY <2>2, <2>3, <2>7 DEF Covered
      <3> QED BY <2>1, <2>7, <3>1, <3>2 DEF Covering
    <2>10. x # "Shutdown" => Covering(agg["Shutdown"], summaries', refused')
      BY <1>c, <2>4, CoveringGrows
    <2>11. agg' \in [Aggregator!Actor -> Aggregation] /\ agg'[x] = g
           /\ (\A y \in Aggregator!Actor \ {x} : agg'[y] = agg[y])
      BY <2>6, <2>7 DEF AggregatorInv
    <2>12. Covering(agg'["Shutdown"], summaries', refused')
      BY <1>s, <2>9, <2>10, <2>11
    <2>13. \A y \in Aggregator!Actor : RowsTold(agg'[y], recorded)
      BY <1>g, <2>8, <2>11
    <2> QED BY <2>1, <2>t, <2>5, <2>11, <2>12, <2>13 DEF AggregatorInv
  <1>6. ASSUME NEW x \in Aggregator!Actor, Aggregator!Prune(x) PROVE AggregatorInv'
    <2>1. agg[x].at = "insert" /\ agg[x].rows = {} /\ agg' = [agg EXCEPT ![x].at = "end"]
          /\ UNCHANGED <<now, recorded, summaries, refused>>
      BY <1>6 DEF Aggregator!Prune
    <2>e. events' \in [Event -> Int \cup {None}] /\ \A e \in Event : events'[e] \in {None, events[e]}
      BY <1>6 DEF Aggregator!Prune, AggregatorInv
    <2> DEFINE g == [agg[x] EXCEPT !.at = "end"]
    <2>2. agg' = [agg EXCEPT ![x] = g]
      BY <2>1 DEF AggregatorInv
    <2>3. g \in Aggregation /\ g.rows = {} /\ g.start = agg[x].start
          /\ g.seen = agg[x].seen /\ g.at = "end"
      BY <1>g, <2>1 DEF Aggregation
    <2> HIDE DEF g
    <2>4. RowsTold(g, recorded)
      BY <2>3 DEF RowsTold
    <2>5. x = "Shutdown" => Covering(g, summaries, refused)
      BY <1>c, <2>1, <2>3 DEF Covering
    <2>6. agg' \in [Aggregator!Actor -> Aggregation] /\ agg'[x] = g
          /\ (\A y \in Aggregator!Actor \ {x} : agg'[y] = agg[y])
      BY <2>2, <2>3 DEF AggregatorInv
    <2>7. Covering(agg'["Shutdown"], summaries, refused)
      BY <1>c, <1>s, <2>5, <2>6
    <2>8. \A y \in Aggregator!Actor : RowsTold(agg'[y], recorded)
      BY <1>g, <2>4, <2>6
    <2>9. \A e \in Event : events'[e] # None => recorded[e] = events'[e]
      BY <2>e DEF AggregatorInv
    <2> QED BY <2>1, <2>e, <2>6, <2>7, <2>8, <2>9 DEF AggregatorInv
  <1>7. Aggregator!Away \in Aggregation /\ Aggregator!Away.rows = {} /\ Aggregator!Away.seen = {}
    BY DEF Aggregator!Away, Aggregation
  <1>8. ASSUME NEW l \in Loop, Aggregator!Run(l) \/ Aggregator!StartLoop(l) \/ Aggregator!aggregationLoop(l)
        PROVE  AggregatorInv'
    BY <1>1, <1>8 DEF Aggregator!Run, Aggregator!StartLoop, Aggregator!aggregationLoop
  <1>9. ASSUME NEW l \in Loop, Aggregator!SelectCase(l) PROVE AggregatorInv'
    <2>1. CASE agg' = [agg EXCEPT ![l].at = "query"]
      BY <1>1, <1>9, <2>1 DEF Aggregator!SelectCase
    <2>2. CASE agg' = [agg EXCEPT ![l] = Aggregator!Away]
      <3>1. RowsTold(Aggregator!Away, recorded)
        BY <1>7 DEF RowsTold
      <3>2. UNCHANGED <<now, events, recorded, summaries, refused>>
        BY <1>9 DEF Aggregator!SelectCase
      <3> QED BY <1>7, <1>l, <2>2, <3>1, <3>2, AggregationMoves
    <2> QED BY <1>9, <2>1, <2>2 DEF Aggregator!SelectCase
  <1>10. CASE Aggregator!Shutdown
    <2> DEFINE g == [Aggregator!Away EXCEPT !.at = "wait"]
    <2>1. agg' = [agg EXCEPT !["Shutdown"] = g] /\ UNCHANGED <<now, events, recorded, summaries, refused>>
      BY <1>10 DEF Aggregator!Shutdown
    <2>2. g \in Aggregation /\ g.rows = {} /\ g.seen = {} /\ g.at = "wait"
      BY DEF Aggregator!Away, Aggregation
    <2> HIDE DEF g
    <2>3. RowsTold(g, recorded) /\ Covering(g, summaries, refused)
      BY <2>2 DEF RowsTold, Covering
    <2> QED BY <1>s, <2>1, <2>2, <2>3, AggregationMoves
  <1>11. CASE Aggregator!Final
    BY <1>2, <1>11 DEF Aggregator!Final
  <1>12. CASE Aggregator!Return
    BY <1>2, <1>12 DEF Aggregator!Return
  <1>13. CASE Aggregator!Tick
    BY <1>3, <1>13 DEF Aggregator!Tick, AggregatorInv
  <1>14. ASSUME NEW e \in Event, Aggregator!InsertEvent(e) PROVE AggregatorInv'
    <2>1. PICK t \in Int : /\ events' = [events EXCEPT ![e] = t]
                           /\ recorded' = [recorded EXCEPT ![e] = t]
      <3>1. PICK t \in now - Late .. now : /\ events' = [events EXCEPT ![e] = t]
                                          /\ recorded' = [recorded EXCEPT ![e] = t]
        BY <1>14 DEF Aggregator!InsertEvent
      <3>2. now - Late .. now \subseteq Int
        OBVIOUS
      <3> QED BY <3>1, <3>2
    <2>2. recorded[e] = None /\ UNCHANGED <<now, agg, summaries, refused>>
      BY <1>14 DEF Aggregator!InsertEvent
    <2>3. {events', recorded'} \subseteq [Event -> Int \cup {None}] /\ events'[e] = t /\ recorded'[e] = t
          /\ \A f \in Event \ {e} : events'[f] = events[f] /\ recorded'[f] = recorded[f]
      BY <2>1 DEF AggregatorInv
    <2>4. ASSUME NEW r \in SummaryRow, Truthful(r, recorded) PROVE Truthful(r, recorded')
      <3>1. \A f \in r.counted : f \in Event /\ recorded[f] \in r.start .. r.start + Hour
        BY <2>4 DEF SummaryRow, Truthful
      <3>2. r.start .. r.start + Hour \subseteq Int
        OBVIOUS
      <3>3. e \notin r.counted
        BY <2>2, <3>1, <3>2, AbsenceAssumption DEF AbsenceAssumption
      <3> QED BY <2>3, <2>4, <3>1, <3>3 DEF Truthful
    <2>5. \A x \in Aggregator!Actor : RowsTold(agg[x], recorded')
      BY <1>g, <2>4 DEF RowsTold, Aggregation
    <2>6. \A s \in summaries : Truthful(s, recorded')
      BY <2>4 DEF AggregatorInv
    <2>7. \A f \in Event : events'[f] # None => recorded'[f] = events'[f]
      BY <2>3 DEF AggregatorInv
    <2> QED BY <2>2, <2>3, <2>5, <2>6, <2>7 DEF AggregatorInv
  <1>15. CASE UNCHANGED Aggregator!vars
    BY <1>3, <1>15 DEF Aggregator!vars, AggregatorInv
  <1> QED BY <1>4, <1>5, <1>6, <1>8, <1>9, <1>10, <1>11, <1>12, <1>13, <1>14, <1>15
          DEF Aggregator!Next, Aggregator!Step

-------------------------------------------------------------------------------
(* Alerts                                                                  *)

Checking == [at: {"idle", "measure", "list", "send"}, emails: SUBSET Address, sent: Nat]

\* The checks that have mailed an address, ...
Mailed(cs, a) == {c \in Check : cs[c].at = "send" /\ a \notin cs[c].emails /\ cs[c].sent > 0}

\* ... and those that still may.
MayMail(cs, a) ==
  {c \in Check : cs[c].at \in {"measure", "list"} \/ (cs[c].at = "send" /\ a \in cs[c].emails)}

\* Before the cooldown every alert is owed to a check that is under way, or was
\* reported as failed, and within it there are no more to come than checks are left.
AlertsInv ==
  /\ minute \in Nat
  /\ lastAlerted \in Nat \cup {None}
  /\ check \in [Check -> Checking]
  /\ {alerts, misreported} \subseteq [Address -> Nat]
  /\ \A a \in Address :
        IF lastAlerted = None THEN alerts[a] <= Cardinality(Mailed(check, a)) + misreported[a]
        ELSE alerts[a] + Cardinality(MayMail(check, a)) <= Cardinality(Check) + misreported[a]

LEMMA ChecksFinite ==
  /\ IsFiniteSet(Check) /\ Cardinality(Check) \in Nat
  /\ \A cs, a : /\ IsFiniteSet(Mailed(cs, a)) /\ Cardinality(Mailed(cs, a)) \in Nat
                /\ IsFiniteSet(MayMail(cs, a)) /\ Cardinality(MayMail(cs, a)) \in Nat
                /\ Cardinality(Mailed(cs, a)) + Cardinality(MayMail(cs, a)) <= Cardinality(Check)
  <1>1. IsFiniteSet(Check) /\ Cardinality(Check) \in Nat
    BY BoundsAssumption, FS_CardinalityType DEF BoundsAssumption
  <1>2. ASSUME NEW cs, NEW a
        PROVE  /\ IsFiniteSet(Mailed(cs, a)) /\ Cardinality(Mailed(cs, a)) \in Nat
               /\ IsFiniteSet(MayMail(cs, a)) /\ Cardinality(MayMail(cs, a)) \in Nat
               /\ Cardinality(Mailed(cs, a)) + Cardinality(MayMail(cs, a)) <= Cardinality(Check)
    <2>1. Mailed(cs, a) \in SUBSET Check /\ MayMail(cs, a) \in SUBSET Check
      BY DEF Mailed, MayMail
    <2>2. Mailed(cs, a) \cap MayMail(cs, a) = {}
      BY DEF Mailed, MayMail
    <2>3. /\ IsFiniteSet(Mailed(cs, a)) /\ Cardinality(Mailed(cs, a)) \in Nat
          /\ IsFiniteSet(MayMail(cs, a)) /\ Cardinality(MayMail(cs, a)) \in Nat
      BY <1>1, <2>1, FS_Subset, FS_CardinalityType
    <2> DEFINE U == Mailed(cs, a) \cup MayMail(cs, a)
    <2>4. Cardinality(U) = Cardinality(Mailed(cs, a)) + Cardinality(MayMail(cs, a))
                             - Cardinality(Mailed(cs, a) \cap MayMail(cs, a))
      BY <2>3, FS_Union
    <2>5. Cardinality(Mailed(cs, a) \cap MayMail(cs, a)) = 0
      BY <2>2, FS_EmptySet
    <2>6. U \in SUBSET Check
      BY <2>1
    <2>7. Cardinality(U) <= Cardinality(Check)
      BY <1>1, <2>6, FS_Subset
    <2> HIDE DEF U
    <2> QED BY <1>1, <2>3, <2>4, <2>5, <2>7
  <1> QED BY <1>1, <1>2

LEMMA AlertsStart == Alerts!Init => AlertsInv
  <1> SUFFICES ASSUME Alerts!Init PROVE AlertsInv
    OBVIOUS
  <1>1. /\ minute = 0 /\ lastAlerted = None /\ check \in [Check -> Checking]
        /\ {alerts, misreported} \subseteq [Address -> Nat]
        /\ \A a \in Address : alerts[a] = 0 /\ misreported[a] = 0
    BY DEF Alerts!Init, Alerts!Idle, Alerts!Calm, Checking
  <1> QED BY <1>1, ChecksFinite DEF AlertsInv

LEMMA AlertsCount == \A S : Alerts!Cardinality(S) = Cardinality(S)
  BY DEF Alerts!Cardinality, Cardinality

LEMMA AlertsKept == AlertsInv => Alerts!AlertsBounded
  <1> SUFFICES ASSUME AlertsInv, NEW a \in Address PROVE alerts[a] <= Cardinality(Check) + misreported[a]
    BY AlertsCount DEF Alerts!AlertsBounded
  <1>1. /\ Cardinality(Mailed(check, a)) \in Nat /\ Cardinality(MayMail(check, a)) \in Nat
        /\ Cardinality(Mailed(check, a)) + Cardinality(MayMail(check, a)) <= Cardinality(Check)
        /\ Cardinality(Check) \in Nat /\ alerts[a] \in Nat /\ misreported[a] \in Nat
    BY ChecksFinite DEF AlertsInv
  <1>2. CASE lastAlerted = None
    BY <1>1, <1>2 DEF AlertsInv
  <1>3. CASE lastAlerted # None
    BY <1>1, <1>3 DEF AlertsInv
  <1> QED BY <1>2, <1>3

\* One check goes on without a mail.
LEMMA CheckMoves ==
  ASSUME AlertsInv, NEW c \in Check, NEW k \in Checking, check' = [check EXCEPT ![c] = k],
         UNCHANGED <<minute, lastAlerted, alerts, misreported>>,
         \A a \in Address : c \in Mailed(check, a) =>
            k.at = "send" /\ a \notin k.emails /\ k.sent > 0,
         \/ lastAlerted = None
         \/ \A a \in Address : k.at \in {"measure", "list"} \/ (k.at = "send" /\ a \in k.emails) =>
              c \in MayMail(check, a)
  PROVE  AlertsInv'
  <1>1. check' \in [Check -> Checking] /\ check'[c] = k /\ (\A d \in Check \ {c} : check'[d] = check[d])
    BY DEF AlertsInv
  <1>2. ASSUME NEW a \in Address
        PROVE  IF lastAlerted = None THEN alerts[a] <= Cardinality(Mailed(check', a)) + misreported[a]
               ELSE alerts[a] + Cardinality(MayMail(check', a)) <= Cardinality(Check) + misreported[a]
    <2>1. /\ Cardinality(Mailed(check, a)) \in Nat /\ Cardinality(MayMail(check, a)) \in Nat
          /\ Cardinality(Mailed(check', a)) \in Nat /\ Cardinality(MayMail(check', a)) \in Nat
          /\ IsFiniteSet(Mailed(check', a)) /\ IsFiniteSet(MayMail(check, a))
          /\ Cardinality(Check) \in Nat /\ alerts[a] \in Nat /\ misreported[a] \in Nat
      BY ChecksFinite DEF AlertsInv
    <2>2. CASE lastAlerted = None
      <3>1. Mailed(check, a) \subseteq Mailed(check', a)
        BY <1>1 DEF Mailed
      <3>2. Cardinality(Mailed(check, a)) <= Cardinality(Mailed(check', a))
        BY <2>1, <3>1, FS_Subset
      <3> QED BY <2>1, <2>2, <3>2 DEF AlertsInv
    <2>3. CASE lastAlerted # None
      <3>1. MayMail(check', a) \subseteq MayMail(check, a)
        BY <1>1, <2>3 DEF MayMail
      <3>2. Cardinality(MayMail(check', a)) <= Cardinality(MayMail(check, a))
        BY <2>1, <3>1, FS_Subset
      <3> QED BY <2>1, <2>3, <3>2 DEF AlertsInv
    <2> QED BY <2>2, <2>3
  <1> QED BY <1>1, <1>2 DEF AlertsInv

\* A mail is sent: the check has mailed its address, and may not do so again.
LEMMA MailSent ==
  ASSUME AlertsInv, NEW c \in Check, check[c].at = "send", NEW m \in check[c].emails,
         NEW k \in Checking, k.at = "send", k.emails = check[c].emails \ {m}, k.sent > 0,
         check' = [check EXCEPT ![c] = k], alerts' = [alerts EXCEPT ![m] = @ + 1],
         UNCHANGED <<minute, lastAlerted, misreported>>
  PROVE  AlertsInv'
  <1>1. check' \in [Check -> Checking] /\ check'[c] = k /\ (\A d \in Check \ {c} : check'[d] = check[d])
    BY DEF AlertsInv
  <1>2. m \in Address
    BY DEF AlertsInv, Checking
  <1>3. alerts' \in [Address -> Nat] /\ alerts'[m] = alerts[m] + 1
        /\ (\A a \in Address \ {m} : alerts'[a] = alerts[a])
    BY <1>2 DEF AlertsInv
  <1>4. ASSUME NEW a \in Address
        PROVE  IF lastAlerted = None THEN alerts'[a] <= Cardinality(Mailed(check', a)) + misreported[a]
               ELSE alerts'[a] + Cardinality(MayMail(check', a)) <= Cardinality(Check) + misreported[a]
    <2>1. /\ Cardinality(Mailed(check, a)) \in Nat /\ Cardinality(MayMail(check, a)) \in Nat
          /\ Cardinality(Mailed(check', a)) \in Nat /\ Cardinality(MayMail(check', a)) \in Nat
          /\ IsFiniteSet(Mailed(check', a)) /\ IsFiniteSet(MayMail(check, a))
          /\ IsFiniteSet(Mailed(check, a)) /\ IsFiniteSet(MayMail(check', a))
          /\ Cardinality(Check) \in Nat /\ alerts[a] \in Nat /\ misreported[a] \in Nat
      BY ChecksFinite DEF AlertsInv
    <2>2. Mailed(check, a) \subseteq Mailed(check', a) /\ MayMail(check', a) \subseteq MayMail(check, a)
      BY <1>1 DEF Mailed, MayMail
    <2>3. /\ Cardinality(Mailed(check, a)) <= Cardinality(Mailed(check', a))
          /\ Cardinality(MayMail(check', a)) <= Cardinality(MayMail(check, a))
      BY <2>1, <2>2, FS_Subset
    <2>4. ASSUME a = m
          PROVE  /\ Cardinality(Mailed(check, a)) + 1 <= Cardinality(Mailed(check', a))
                 /\ Cardinality(MayMail(check', a)) + 1 <= Cardinality(MayMail(check, a))
      <3>1. c \notin Mailed(check, a) /\ c \in Mailed(check', a)
        BY <1>1, <2>4 DEF Mailed
      <3>2. c \in MayMail(check, a) /\ c \notin MayMail(check', a)
        BY <1>1, <2>4 DEF MayMail
      <3>3. /\ Cardinality(Mailed(check, a)) # Cardinality(Mailed(check', a))
            /\ Cardinality(MayMail(check', a)) # Cardinality(MayMail(check, a))
        BY <2>1, <2>2, <3>1, <3>2, FS_Subset
      <3> QED BY <2>1, <2>3, <3>3
    <2>5. CASE lastAlerted = None
      <3>1. alerts[a] <= Cardinality(Mailed(check, a)) + misreported[a]
        BY <2>5 DEF AlertsInv
      <3>2. CASE a = m
        BY <1>3, <2>1, <2>4, <2>5, <3>1, <3>2
      <3>3. CASE a # m
        BY <1>3, <2>1, <2>3, <2>5, <3>1, <3>3
      <3> QED BY <3>2, <3>3
    <2>6. CASE lastAlerted # None
      <3>1. alerts[a] + Cardinality(MayMail(check, a)) <= Cardinality(Check) + misreported[a]
        BY <2>6 DEF AlertsInv
      <3>2. CASE a = m
        <4>1. alerts'[a] = alerts[a] + 1
          BY <1>3, <3>2
        <4> QED BY <2>1, <2>4, <2>6, <3>1, <3>2, <4>1
      <3>3. CASE a # m
        <4>1. alerts'[a] = alerts[a]
          BY <1>3, <3>3
        <4> QED BY <2>1, <2>3, <2>6, <3>1, <4>1
      <3> QED BY <3>2, <3>3
    <2> QED BY <2>5, <2>6
  <1> QED BY <1>1, <1>3, <1>4 DEF AlertsInv

\* A mail arrives and is reported as failed: the check has mailed it for nothing.
LEMMA MailMisreported ==
  ASSUME AlertsInv, NEW c \in Check, check[c].at = "send", NEW m \in Address,
         NEW k \in Checking, k.at = "send", k.emails = check[c].emails \ {m}, k.sent = check[c].sent,
         check' = [check EXCEPT ![c] = k], alerts' = [alerts EXCEPT ![m] = @ + 1],
         misreported' = [misreported EXCEPT ![m] = @ + 1], UNCHANGED <<minute, lastAlerted>>
  PROVE  AlertsInv'
  <1>1. check' \in [Check -> Checking] /\ check'[c] = k /\ (\A d \in Check \ {c} : check'[d] = check[d])
    BY DEF AlertsInv
  <1>2. /\ {alerts', misreported'} \subseteq [Address -> Nat]
        /\ alerts'[m] = alerts[m] + 1 /\ misreported'[m] = misreported[m] + 1
        /\ \A a \in Address \ {m} : alerts'[a] = alerts[a] /\ misreported'[a] = misreported[a]
    BY DEF AlertsInv
  <1>3. ASSUME NEW a \in Address
        PROVE  IF lastAlerted = None THEN alerts'[a] <= Cardinality(Mailed(check', a)) + misreported'[a]
               ELSE alerts'[a] + Cardinality(MayMail(check', a)) <= Cardinality(Check) + misreported'[a]
    <2>1. /\ Cardinality(Mailed(check, a)) \in Nat /\ Cardinality(MayMail(check, a)) \in Nat
          /\ Cardinality(Mailed(check', a)) \in Nat /\ Cardinality(MayMail(check', a)) \in Nat
          /\ IsFiniteSet(MayMail(check, a)) /\ IsFiniteSet(Mailed(check', a))
          /\ Cardinality(Check) \in Nat /\ alerts[a] \in Nat /\ misreported[a] \in Nat
      BY ChecksFinite DEF AlertsInv
    <2>2. Mailed(check, a) \subseteq Mailed(check', a) /\ MayMail(check', a) \subseteq MayMail(check, a)
      BY <1>1 DEF Mailed, MayMail
    <2>3. /\ Cardinality(Mailed(check, a)) <= Cardinality(Mailed(check', a))
          /\ Cardinality(MayMail(check', a)) <= Cardinality(MayMail(check, a))
      BY <2>1, <2>2, FS_Subset
    <2>4. \E n \in Nat : alerts'[a] = alerts[a] + n /\ misreported'[a] = misreported[a] + n
      <3>1. CASE a = m
        BY <1>2, <3>1
      <3>2. CASE a # m
        BY <1>2, <2>1, <3>2
      <3> QED BY <3>1, <3>2
    <2>5. CASE lastAlerted = None
      <3>1. alerts[a] <= Cardinality(Mailed(check, a)) + misreported[a]
        BY <2>5 DEF AlertsInv
      <3> QED BY <2>1, <2>3, <2>4, <2>5, <3>1
    <2>6. CASE lastAlerted # None
      <3>1. alerts[a] + Cardinality(MayMail(check, a)) <= Cardinality(Check) + misreported[a]
        BY <2>6 DEF AlertsInv
      <3> QED BY <2>1, <2>3, <2>4, <2>6, <3>1
    <2> QED BY <2>5, <2>6
  <1> QED BY <1>1, <1>2, <1>3 DEF AlertsInv

LEMMA AlertsStep == AlertsInv /\ [Alerts!Next]_Alerts!vars => AlertsInv'
  <1> SUFFICES ASSUME AlertsInv, [Alerts!Next]_Alerts!vars PROVE AlertsInv'
    OBVIOUS
  <1>n. None \notin Nat
    <2>1. None \notin Int
      BY AbsenceAssumption DEF AbsenceAssumption
    <2> QED BY <2>1
  <1>i. /\ Alerts!Idle \in Checking /\ Alerts!Idle.at = "idle"
    BY DEF Alerts!Idle, Checking
  <1>t. \A c \in Check : check[c] \in Checking
    BY DEF AlertsInv
  <1>z. /\ Alerts!Calm \in [Address -> Nat] /\ \A a \in Address : Alerts!Calm[a] = 0
    BY DEF Alerts!Calm
  \* The alerts are counted afresh, or stay.
  <1>1. ASSUME minute' \in Nat, UNCHANGED check,
               \/ lastAlerted' = None /\ alerts' = Alerts!Calm /\ misreported' = Alerts!Calm
               \/ UNCHANGED <<lastAlerted, alerts, misreported>>
        PROVE  AlertsInv'
    <2>1. CASE UNCHANGED <<lastAlerted, alerts, misreported>>
      BY <1>1, <2>1 DEF AlertsInv
    <2>2. CASE lastAlerted' = None /\ alerts' = Alerts!Calm /\ misreported' = Alerts!Calm
      BY <1>1, <1>z, <2>2, ChecksFinite DEF AlertsInv
    <2> QED BY <1>1, <2>1, <2>2
  <1>2. ASSUME NEW c \in Check, Alerts!Begin(c) PROVE AlertsInv'
    <2> DEFINE k == [check[c] EXCEPT !.at = "measure"]
    <2>1. check[c].at = "idle" /\ lastAlerted = None /\ check' = [check EXCEPT ![c] = k]
          /\ UNCHANGED <<minute, lastAlerted, alerts, misreported>>
      BY <1>2 DEF Alerts!Begin, AlertsInv
    <2>2. k \in Checking
      BY <1>t DEF Checking
    <2> HIDE DEF k
    <2>3. \A a \in Address : c \notin Mailed(check, a)
      BY <2>1 DEF Mailed
    <2> QED BY <2>1, <2>2, <2>3, CheckMoves
  <1>3. ASSUME NEW c \in Check, Alerts!Measure(c) PROVE AlertsInv'
    <2> DEFINE k == [check[c] EXCEPT !.at = "list"]
    <2>1. check[c].at = "measure" /\ UNCHANGED <<minute, lastAlerted, alerts, misreported>>
          /\ (check' = [check EXCEPT ![c] = k] \/ check' = [check EXCEPT ![c] = Alerts!Idle])
      BY <1>3 DEF Alerts!Measure, AlertsInv
    <2>2. k \in Checking /\ k.at = "list"
      BY <1>t DEF Checking
    <2> HIDE DEF k
    <2>3. \A a \in Address : c \notin Mailed(check, a) /\ c \in MayMail(check, a)
      BY <2>1 DEF Mailed, MayMail
    <2>4. CASE check' = [check EXCEPT ![c] = k]
      BY <2>1, <2>2, <2>3, <2>4, CheckMoves
    <2>5. CASE check' = [check EXCEPT ![c] = Alerts!Idle]
      BY <1>i, <2>1, <2>3, <2>5, CheckMoves
    <2> QED BY <2>1, <2>4, <2>5
  <1>4. ASSUME NEW c \in Check, Alerts!ListSubscribers(c) PROVE AlertsInv'
    <2>1. check[c].at = "list" /\ UNCHANGED <<minute, lastAlerted, alerts, misreported>>
      BY <1>4 DEF Alerts!ListSubscribers
    <2>2. PICK found \in SUBSET {s \in Subscription : status[s] = "ACTIVE"} :
            check' = [check EXCEPT ![c].at = "send", ![c].emails = Alerts!Owners(found)]
      BY <1>4 DEF Alerts!ListSubscribers
    <2>3. Alerts!Owners(found) \subseteq Address
      BY InputsAssumption DEF InputsAssumption, Alerts!Owners
    <2> DEFINE k == [check[c] EXCEPT !.at = "send", !.emails = Alerts!Owners(found)]
    <2>4. check' = [check EXCEPT ![c] = k]
      BY <2>2 DEF AlertsInv
    <2>5. k \in Checking
      BY <1>t, <2>3 DEF Checking
    <2> HIDE DEF k
    <2>6. \A a \in Address : c \notin Mailed(check, a) /\ c \in MayMail(check, a)
      BY <2>1 DEF Mailed, MayMail
    <2> QED BY <2>1, <2>4, <2>5, <2>6, CheckMoves
  <1>5. ASSUME NEW c \in Check, NEW m \in Address, Alerts!SendQuotaAlert(c, m) PROVE AlertsInv'
    <2>1. check[c].at = "send" /\ m \in check[c].emails /\ UNCHANGED <<minute, lastAlerted>>
      BY <1>5 DEF Alerts!SendQuotaAlert
    <2>s. check[c].sent \in Nat /\ check[c].sent + 1 \in Nat /\ check[c].sent + 1 > 0
      BY <1>t DEF Checking
    <2>2. CASE /\ check' = [check EXCEPT ![c].emails = @ \ {m}, ![c].sent = @ + 1]
               /\ alerts' = [alerts EXCEPT ![m] = @ + 1] /\ UNCHANGED misreported
      <3> DEFINE n == check[c].sent + 1
                 k == [check[c] EXCEPT !.emails = check[c].emails \ {m}, !.sent = n]
      <3>1. check' = [check EXCEPT ![c] = k]
        BY <2>2 DEF AlertsInv
      <3>2. n \in Nat /\ n > 0
        BY <2>s
      <3> HIDE DEF n
      <3>3. k \in Checking /\ k.at = "send" /\ k.emails = check[c].emails \ {m} /\ k.sent > 0
        BY <1>t, <2>1, <3>2 DEF Checking
      <3> HIDE DEF k
      <3> QED BY <2>1, <2>2, <3>1, <3>3, MailSent
    <2>3. CASE check' = [check EXCEPT ![c].emails = @ \ {m}] /\ UNCHANGED <<alerts, misreported>>
      <3> DEFINE k == [check[c] EXCEPT !.emails = check[c].emails \ {m}]
      <3>1. check' = [check EXCEPT ![c] = k]
        BY <2>3 DEF AlertsInv
      <3>3. k \in Checking /\ k.at = "send" /\ k.emails = check[c].emails \ {m} /\ k.sent = check[c].sent
        BY <1>t, <2>1 DEF Checking
      <3> HIDE DEF k
      <3>4. \A a \in Address : /\ c \in Mailed(check, a) => k.at = "send" /\ a \notin k.emails /\ k.sent > 0
                               /\ a \in k.emails => c \in MayMail(check, a)
        BY <2>1, <3>3 DEF Mailed, MayMail
      <3> QED BY <2>1, <2>3, <3>1, <3>3, <3>4, CheckMoves
    <2>4. CASE /\ check' = [check EXCEPT ![c].emails = @ \ {m}]
               /\ alerts' = [alerts EXCEPT ![m] = @ + 1]
               /\ misreported' = [misreported EXCEPT ![m] = @ + 1]
      <3> DEFINE k == [check[c] EXCEPT !.emails = check[c].emails \ {m}]
      <3>1. check' = [check EXCEPT ![c] = k]
        BY <2>4 DEF AlertsInv
      <3>2. k \in Checking /\ k.at = "send" /\ k.emails = check[c].emails \ {m} /\ k.sent = check[c].sent
        BY <1>t, <2>1 DEF Checking
      <3> HIDE DEF k
      <3> QED BY <2>1, <2>4, <3>1, <3>2, MailMisreported
    <2> QED BY <1>5, <2>2, <2>3, <2>4 DEF Alerts!SendQuotaAlert
  <1>6. ASSUME NEW c \in Check, Alerts!Record(c) PROVE AlertsInv'
    <2>1. /\ check[c].at = "send" /\ check[c].emails = {}
          /\ lastAlerted' = IF check[c].sent > 0 THEN minute ELSE lastAlerted
          /\ check' = [check EXCEPT ![c] = Alerts!Idle] /\ UNCHANGED <<minute, alerts, misreported>>
      BY <1>6 DEF Alerts!Record
    <2>2. CASE ~(check[c].sent > 0)
      <3>1. \A a \in Address : c \notin Mailed(check, a)
        BY <2>2 DEF Mailed
      <3>2. UNCHANGED lastAlerted
        BY <2>1, <2>2
      <3> QED BY <1>i, <2>1, <3>1, <3>2, CheckMoves
    <2>3. CASE check[c].sent > 0
      <3>1. lastAlerted' \in Nat /\ lastAlerted' # None
        BY <1>n, <2>1, <2>3 DEF AlertsInv
      <3>2. check' \in [Check -> Checking] /\ check'[c] = Alerts!Idle
            /\ (\A d \in Check \ {c} : check'[d] = check[d])
        BY <1>i, <2>1 DEF AlertsInv
      <3>3. ASSUME NEW a \in Address
            PROVE  alerts'[a] + Cardinality(MayMail(check', a)) <= Cardinality(Check) + misreported'[a]
        <4>1. /\ Cardinality(Mailed(check, a)) \in Nat /\ Cardinality(MayMail(check, a)) \in Nat
              /\ Cardinality(MayMail(check', a)) \in Nat /\ IsFiniteSet(MayMail(check, a))
              /\ Cardinality(Check) \in Nat /\ alerts[a] \in Nat /\ alerts'[a] = alerts[a]
              /\ misreported[a] \in Nat /\ misreported'[a] = misreported[a]
              /\ Cardinality(Mailed(check, a)) + Cardinality(MayMail(check, a)) <= Cardinality(Check)
          BY <2>1, ChecksFinite DEF AlertsInv
        <4>2. MayMail(check', a) \subseteq MayMail(check, a)
          BY <1>i, <3>2 DEF MayMail
        <4>3. Cardinality(MayMail(check', a)) <= Cardinality(MayMail(check, a))
          BY <4>1, <4>2, FS_Subset
        <4>4. CASE lastAlerted = None
          <5>1. alerts[a] <= Cardinality(Mailed(check, a)) + misreported[a]
            BY <4>4 DEF AlertsInv
          <5> QED BY <4>1, <4>3, <5>1
        <4>5. CASE lastAlerted # None
          <5>1. alerts[a] + Cardinality(MayMail(check, a)) <= Cardinality(Check) + misreported[a]
            BY <4>5 DEF AlertsInv
          <5> QED BY <4>1, <4>3, <5>1
        <4> QED BY <4>4, <4>5
      <3> QED BY <2>1, <3>1, <3>2, <3>3 DEF AlertsInv
    <2> QED BY <2>2, <2>3
  <1>7. CASE Alerts!ResetCooldown
    BY <1>1, <1>7 DEF Alerts!ResetCooldown, AlertsInv
  <1>8. CASE Alerts!Tick
    <2>1. minute' \in Nat
      BY <1>8 DEF Alerts!Tick, AlertsInv
    <2> QED BY <1>1, <1>8, <2>1 DEF Alerts!Tick
  <1>9. CASE \/ \E s \in Subscription : Alerts!AlertDecision(s) \/ Alerts!ChangeSubscription(s)
             \/ Alerts!AlertAPIDeprecation \/ Alerts!CancelScanner \/ Alerts!Request
    <2>1. UNCHANGED <<minute, lastAlerted, check, alerts, misreported>>
      BY <1>9 DEF Alerts!AlertDecision, Alerts!ChangeSubscription, Alerts!AlertAPIDeprecation,
                  Alerts!CancelScanner, Alerts!Request
    <2> QED BY <1>1, <2>1 DEF AlertsInv
  <1>10. CASE UNCHANGED Alerts!vars
    BY <1>1, <1>10 DEF Alerts!vars, AlertsInv
  <1> QED BY <1>2, <1>3, <1>4, <1>5, <1>6, <1>7, <1>8, <1>9, <1>10 DEF Alerts!Next

-------------------------------------------------------------------------------
(* GraphQL mutations                                                       *)

GraphStatus == {"CREATED", "ACTIVE", "undeployed", "active", "inactive", "PUBLISHED"} \cup Status
GraphRow == [kind: {"api", "application", "user", "policy", "webhook", "subscription"},
             tenant: Tenant, status: GraphStatus]
GraphCall == [tenant: Tenant, at: {"resolve", "load", "api", "subscription"},
              id: Object \cup {None}, read: GraphRow \cup {None}]
Announcement == [op: {"create", "update", "publish", "delete"}, to: SUBSET {"audit", "event"},
                 by: Tenant, row: GraphRow]

\* What a statement of a tenant finds, and which announcements are of deletions.
Matches(r, kind, tenant) == r \notin {None, Gone} /\ r.kind = kind /\ r.tenant = tenant
Deleted(t) == {i \in DOMAIN t : t[i].op = "delete"}

\* A row that is there has not been announced as deleted, unless it is a webhook,
\* and one that is gone has been once, or a statement about it failed.
Announced(r, t, u) ==
  /\ r \in GraphRow \cup {None, Gone}
  /\ t \in Seq(Announcement)
  /\ \A i \in DOMAIN t : t[i].by = t[i].row.tenant
  /\ r # Gone => Deleted(t) = {} \/ (r # None /\ r.kind = "webhook")
  /\ r = Gone => (\E i \in Deleted(t) : Deleted(t) = {i}) \/ (Deleted(t) = {} /\ u)

\* A call that read no row to delete will find none, or its read failed.
Calling(k, rs, un) ==
  \/ k = None
  \/ /\ k \in GraphCall
     /\ k.read # None => k.read.tenant = k.tenant
     /\ k.at = "resolve" => k.read = None
     /\ k.at = "load" => k.id \in Object /\ k.read # None
     /\ k.at \in {"api", "subscription"} =>
          /\ k.id \in Object /\ rs[k.id] # None
          /\ k.read = None => k.id \in un \/ ~Matches(rs[k.id], k.at, k.tenant)

GraphInv ==
  /\ objects \in [Object -> GraphRow \cup {None, Gone}]
  /\ announced \in [Object -> Seq(Announcement)]
  /\ DOMAIN mutation = Caller /\ mutation = [c \in Caller |-> mutation[c]]
  /\ \A o \in Object : Announced(objects[o], announced[o], o \in unclear)
  /\ \A c \in Caller : Calling(mutation[c], objects, unclear)

LEMMA GraphStart == GraphQl!Init => GraphInv
  <1> SUFFICES ASSUME GraphQl!Init PROVE GraphInv
    OBVIOUS
  <1>1. Gone # None
    BY AbsenceAssumption DEF AbsenceAssumption
  <1>2. Deleted(<<>>) = {} /\ DOMAIN <<>> = {}
    BY DEF Deleted
  <1>3. \A o \in Object : Announced(objects[o], announced[o], o \in unclear)
    BY <1>1, <1>2 DEF GraphQl!Init, Announced
  <1>4. \A c \in Caller : Calling(mutation[c], objects, unclear)
    BY DEF GraphQl!Init, Calling
  <1> QED BY <1>3, <1>4 DEF GraphQl!Init, GraphInv

LEMMA GraphKept == GraphInv => GraphQl!DeletionsAnnounced
  <1> SUFFICES ASSUME GraphInv, NEW o \in Object
               PROVE  /\ \A i \in DOMAIN announced[o] : announced[o][i].by = announced[o][i].row.tenant
                      /\ objects[o] \in {None, Gone} \/ objects[o].kind = "webhook" \/ GraphQl!Deletions(o) = {}
                      /\ objects[o] = Gone =>
                            \/ \E i \in GraphQl!Deletions(o) : GraphQl!Deletions(o) = {i}
                            \/ GraphQl!Deletions(o) = {} /\ o \in unclear
    BY DEF GraphQl!DeletionsAnnounced
  <1>1. GraphQl!Deletions(o) = Deleted(announced[o])
    BY DEF GraphQl!Deletions, Deleted
  <1>2. Announced(objects[o], announced[o], o \in unclear)
    BY DEF GraphInv
  <1> QED BY <1>1, <1>2 DEF Announced

\* An announcement counts if it is of a deletion.
LEMMA DeletedAppend ==
  ASSUME NEW t \in Seq(Announcement), NEW a \in Announcement, \A i \in DOMAIN t : t[i].by = t[i].row.tenant,
         a.by = a.row.tenant
  PROVE  /\ Append(t, a) \in Seq(Announcement)
         /\ Deleted(Append(t, a)) = IF a.op = "delete" THEN Deleted(t) \cup {Len(t) + 1} ELSE Deleted(t)
         /\ \A i \in DOMAIN Append(t, a) : Append(t, a)[i].by = Append(t, a)[i].row.tenant
  <1>1. /\ Len(t) \in Nat /\ DOMAIN t = 1 .. Len(t)
        /\ DOMAIN Append(t, a) = 1 .. Len(t) + 1
        /\ \A i \in 1 .. Len(t) : Append(t, a)[i] = t[i]
        /\ Append(t, a)[Len(t) + 1] = a
    OBVIOUS
  <1>2. 1 .. Len(t) + 1 = (1 .. Len(t)) \cup {Len(t) + 1}
    BY <1>1
  <1>3. \A i \in DOMAIN Append(t, a) : Append(t, a)[i].by = Append(t, a)[i].row.tenant
    BY <1>1, <1>2
  <1>4. Deleted(Append(t, a)) = IF a.op = "delete" THEN Deleted(t) \cup {Len(t) + 1} ELSE Deleted(t)
    BY <1>1, <1>2 DEF Deleted
  <1> QED BY <1>3, <1>4

\* A row changes, and a call goes on.
LEMMA GraphMoves ==
  ASSUME GraphInv, NEW c \in Caller, NEW k, NEW o \in Object, NEW r, NEW t,
         mutation' = [mutation EXCEPT ![c] = k], objects' = [objects EXCEPT ![o] = r],
         announced' = [announced EXCEPT ![o] = t], unclear \subseteq unclear',
         Calling(k, objects', unclear'), Announced(r, t, o \in unclear'),
         objects[o] # None =>
           r # None /\ \A kind, tenant : Matches(r, kind, tenant) => Matches(objects[o], kind, tenant)
  PROVE  GraphInv'
  <1>1. /\ objects' \in [Object -> GraphRow \cup {None, Gone}] /\ objects'[o] = r
        /\ \A p \in Object \ {o} : objects'[p] = objects[p]
    BY DEF GraphInv, Announced
  <1>2. /\ announced' \in [Object -> Seq(Announcement)] /\ announced'[o] = t
        /\ \A p \in Object \ {o} : announced'[p] = announced[p]
    BY DEF GraphInv, Announced
  <1>3. /\ DOMAIN mutation' = Caller /\ mutation' = [d \in Caller |-> mutation'[d]]
        /\ mutation'[c] = k /\ \A d \in Caller \ {c} : mutation'[d] = mutation[d]
    BY DEF GraphInv
  <1>4. \A p \in Object : Announced(objects'[p], announced'[p], p \in unclear')
    <2> TAKE p \in Object
    <2>1. CASE p = o
      BY <1>1, <1>2, <2>1
    <2>2. CASE p # o
      <3>1. Announced(objects[p], announced[p], p \in unclear)
        BY DEF GraphInv
      <3>2. objects'[p] = objects[p] /\ announced'[p] = announced[p]
        BY <1>1, <1>2, <2>2
      <3> QED BY <3>1, <3>2 DEF Announced
    <2> QED BY <2>1, <2>2
  <1>5. \A p \in Object : objects[p] # None =>
          objects'[p] # None /\ \A kind, tenant : Matches(objects'[p], kind, tenant) => Matches(objects[p], kind, tenant)
    BY <1>1
  <1>6. \A d \in Caller : Calling(mutation'[d], objects', unclear')
    <2> TAKE d \in Caller
    <2>1. CASE d = c
      BY <1>3, <2>1
    <2>2. CASE d # c
      <3>1. Calling(mutation[d], objects, unclear) /\ mutation'[d] = mutation[d]
        BY <1>3, <2>2 DEF GraphInv
      <3> QED BY <1>5, <3>1 DEF Calling
    <2> QED BY <2>1, <2>2
  <1> QED BY <1>1, <1>2, <1>3, <1>4, <1>6 DEF GraphInv

LEMMA ToldType == \A kind : GraphQl!Told(kind) \in SUBSET {"audit", "event"}
  BY DEF GraphQl!Told

\* One announcement was added for a row.
Added(op, o, before, after) ==
  \E t \in Seq(Announcement) :
    /\ after = [before EXCEPT ![o] = t]
    /\ \A i \in DOMAIN t : t[i].by = t[i].row.tenant
    /\ op = "delete" => Deleted(t) = Deleted(before[o]) \cup {Len(before[o]) + 1}
    /\ op # "delete" => Deleted(t) = Deleted(before[o])

\* What a call announces is about its tenant.
LEMMA AnnouncementMade ==
  ASSUME GraphInv, NEW c \in Caller, mutation[c] # None, NEW o \in Object, NEW a \in GraphRow,
         a.tenant = mutation[c].tenant, NEW op \in {"create", "update", "publish", "delete"},
         GraphQl!Announce(c, op, o, a)
  PROVE  Added(op, o, announced, announced')
  <1> DEFINE n == [op |-> op, to |-> GraphQl!Told(a.kind), by |-> mutation[c].tenant, row |-> a]
             t == Append(announced[o], n)
  <1>1. mutation[c].tenant \in Tenant
    BY DEF GraphInv, Calling, GraphCall
  <1>2. n \in Announcement /\ n.by = n.row.tenant /\ n.op = op
    BY <1>1, ToldType DEF Announcement
  <1>3. announced' = [announced EXCEPT ![o] = t]
    BY DEF GraphQl!Announce, GraphInv
  <1>4. announced[o] \in Seq(Announcement) /\ \A i \in DOMAIN announced[o] : announced[o][i].by = announced[o][i].row.tenant
    BY DEF GraphInv, Announced
  <1> HIDE DEF n
  <1>5. /\ t \in Seq(Announcement)
        /\ op = "delete" => Deleted(t) = Deleted(announced[o]) \cup {Len(announced[o]) + 1}
        /\ op # "delete" => Deleted(t) = Deleted(announced[o])
        /\ \A i \in DOMAIN t : t[i].by = t[i].row.tenant
    BY <1>2, <1>4, DeletedAppend
  <1> HIDE DEF t
  <1> QED BY <1>3, <1>5 DEF Added

\* A call that ends, or rests.
LEMMA NoCalling == \A rs, un : Calling(None, rs, un)
  BY DEF Calling

\* A row is written that is there afterwards, and announced, or the statement fails.
LEMMA RowWritten ==
  ASSUME GraphInv, NEW c \in Caller, mutation[c] # None, NEW o \in Object, NEW r \in GraphRow,
         r.tenant = mutation[c].tenant, NEW op \in {"create", "update", "publish", "delete"},
         op = "delete" => r.kind = "webhook",
         objects[o] = None \/ (objects[o] \in GraphRow /\ objects[o].kind = r.kind /\ objects[o].tenant = r.tenant),
         NEW written, written = [objects EXCEPT ![o] = r],
         \/ objects' = written /\ GraphQl!Announce(c, op, o, r) /\ unclear' = unclear
         \/ GraphQl!Fails(o, written),
         GraphQl!Ends(c)
  PROVE  GraphInv'
  <1>n. {None, Gone} \cap GraphRow = {} /\ Gone # None
    BY AbsenceAssumption DEF AbsenceAssumption, GraphRow, GraphStatus
  <1>1. mutation' = [mutation EXCEPT ![c] = None]
    BY DEF GraphQl!Ends
  <1>2. Announced(objects[o], announced[o], o \in unclear) /\ announced[o] \in Seq(Announcement)
    BY DEF GraphInv
  <1>3. objects[o] # None => r # None /\ \A kind, tenant : Matches(r, kind, tenant) => Matches(objects[o], kind, tenant)
    BY <1>n DEF Matches
  <1>4. Deleted(announced[o]) = {} \/ r.kind = "webhook"
    BY <1>n, <1>2 DEF Announced
  <1>5. CASE objects' = written /\ GraphQl!Announce(c, op, o, r) /\ unclear' = unclear
    <2>a. GraphQl!Announce(c, op, o, r)
      BY <1>5
    <2>b. Added(op, o, announced, announced')
      BY <2>a, AnnouncementMade
    <2>1. PICK t \in Seq(Announcement) :
            /\ announced' = [announced EXCEPT ![o] = t]
            /\ \A i \in DOMAIN t : t[i].by = t[i].row.tenant
            /\ op = "delete" => Deleted(t) = Deleted(announced[o]) \cup {Len(announced[o]) + 1}
            /\ op # "delete" => Deleted(t) = Deleted(announced[o])
      BY <2>b DEF Added
    <2>2. Announced(r, t, o \in unclear')
      BY <1>n, <1>4, <2>1 DEF Announced
    <2>3. Calling(None, objects', unclear')
      BY NoCalling
    <2> QED BY <1>1, <1>3, <1>5, <2>1, <2>2, <2>3, GraphMoves
  <1>6. CASE GraphQl!Fails(o, written)
    <2>1. unclear' = unclear \cup {o} /\ objects' \in {objects, written} /\ announced' = announced
      BY <1>6 DEF GraphQl!Fails
    <2>2. PICK q \in {objects[o], r} : objects' = [objects EXCEPT ![o] = q]
      BY <2>1 DEF GraphInv
    <2>3. announced' = [announced EXCEPT ![o] = announced[o]]
      BY <2>1 DEF GraphInv
    <2>4. Announced(q, announced[o], o \in unclear')
      <3>1. CASE q = objects[o]
        BY <1>2, <2>1, <3>1 DEF Announced
      <3>2. CASE q = r
        BY <1>n, <1>2, <1>4, <3>2 DEF Announced
      <3> QED BY <3>1, <3>2
    <2>5. objects[o] # None => q # None /\ \A kind, tenant : Matches(q, kind, tenant) => Matches(objects[o], kind, tenant)
      BY <1>3
    <2>6. Calling(None, objects', unclear')
      BY NoCalling
    <2> QED BY <1>1, <2>1, <2>2, <2>3, <2>4, <2>5, <2>6, GraphMoves
  <1> QED BY <1>5, <1>6

\* A call goes on without a statement about a row.
LEMMA CallMoves ==
  ASSUME GraphInv, NEW c \in Caller, NEW k, mutation' = [mutation EXCEPT ![c] = k],
         Calling(k, objects, unclear), UNCHANGED <<objects, announced, unclear>>
  PROVE  GraphInv'
  <1>1. /\ DOMAIN mutation' = Caller /\ mutation' = [d \in Caller |-> mutation'[d]]
        /\ mutation'[c] = k /\ \A d \in Caller \ {c} : mutation'[d] = mutation[d]
    BY DEF GraphInv
  <1>2. \A d \in Caller : Calling(mutation'[d], objects', unclear')
    BY <1>1 DEF GraphInv
  <1>3. \A o \in Object : Announced(objects'[o], announced'[o], o \in unclear')
    BY DEF GraphInv
  <1> QED BY <1>1, <1>2, <1>3 DEF GraphInv

LEMMA GraphStep == GraphInv /\ [GraphQl!Next]_GraphQl!vars => GraphInv'
  <1> SUFFICES ASSUME GraphInv, [GraphQl!Next]_GraphQl!vars PROVE GraphInv'
    OBVIOUS
  <1>n. {None, Gone} \cap GraphRow = {} /\ Gone # None
    BY AbsenceAssumption DEF AbsenceAssumption, GraphRow, GraphStatus
  <1>o. \A o \in Object : objects[o] \in GraphRow \cup {None, Gone} /\ Announced(objects[o], announced[o], o \in unclear)
    BY DEF GraphInv
  <1>c. ASSUME NEW c \in Caller, mutation[c] # None
        PROVE  /\ mutation[c] \in GraphCall /\ mutation[c].tenant \in Tenant
               /\ Calling(mutation[c], objects, unclear)
    BY <1>c DEF GraphInv, Calling, GraphCall
  <1>1. ASSUME NEW t \in Tenant, GraphQl!Suspend(t) PROVE GraphInv'
    BY <1>1 DEF GraphQl!Suspend, GraphInv
  <1>2. CASE UNCHANGED GraphQl!vars
    BY <1>2 DEF GraphQl!vars, GraphInv
  <1>3. ASSUME NEW c \in Caller, GraphQl!Enter(c) PROVE GraphInv'
    <2>1. PICK t \in Tenant :
            mutation' = [mutation EXCEPT ![c] = [tenant |-> t, at |-> "resolve", id |-> None, read |-> None]]
      BY <1>3 DEF GraphQl!Enter
    <2>2. UNCHANGED <<objects, announced, unclear>>
      BY <1>3 DEF GraphQl!Enter
    <2> DEFINE k == [tenant |-> t, at |-> "resolve", id |-> None, read |-> None]
    <2>3. k \in GraphCall /\ k.read = None /\ k.at = "resolve"
      BY DEF GraphCall
    <2>4. mutation' = [mutation EXCEPT ![c] = k]
      BY <2>1
    <2> HIDE DEF k
    <2>5. Calling(k, objects, unclear)
      BY <2>3 DEF Calling
    <2> QED BY <2>2, <2>4, <2>5, CallMoves
  <1>4. ASSUME NEW c \in Caller, GraphQl!Read(c) PROVE GraphInv'
    BY <1>4, CallMoves, NoCalling DEF GraphQl!Read, GraphQl!Ends
  \* Rows that are inserted, and what they are announced as.
  <1>5. ASSUME NEW c \in Caller, NEW o \in Object,
               NEW kind \in {"api", "application", "user", "policy", "webhook", "subscription"},
               NEW st \in {"CREATED", "ACTIVE", "undeployed", "active"}, GraphQl!Insert(c, kind, o, st)
        PROVE  GraphInv'
    <2> DEFINE r == [kind |-> kind, tenant |-> mutation[c].tenant, status |-> st]
               written == [objects EXCEPT ![o] = r]
    <2>1. mutation[c] # None /\ objects[o] = None /\ GraphQl!Ends(c)
          /\ \/ objects' = written /\ GraphQl!Announce(c, "create", o, r) /\ unclear' = unclear
             \/ GraphQl!Fails(o, written)
      BY <1>5 DEF GraphQl!Insert, GraphQl!At
    <2>2. r \in GraphRow /\ r.tenant = mutation[c].tenant
      BY <1>c, <2>1 DEF GraphRow, GraphStatus
    <2> HIDE DEF r
    <2>3. written = [objects EXCEPT ![o] = r]
      OBVIOUS
    <2> HIDE DEF written
    <2> QED BY <2>1, <2>2, <2>3, RowWritten
  <1>6. ASSUME NEW c \in Caller, NEW o \in Object,
               \/ GraphQl!CreateAPI(c, o) \/ GraphQl!CreateApplication(c, o) \/ GraphQl!CreateUser(c, o)
               \/ GraphQl!CreateThrottlePolicy(c, o) \/ GraphQl!CreateWebhook(c, o)
        PROVE  GraphInv'
    BY <1>5, <1>6 DEF GraphQl!CreateAPI, GraphQl!CreateApplication, GraphQl!CreateUser,
                      GraphQl!CreateThrottlePolicy, GraphQl!CreateWebhook
  \* A call that finds no row only ends.
  <1>7. ASSUME NEW c \in Caller, GraphQl!Ends(c), UNCHANGED <<objects, announced, unclear>>
        PROVE  GraphInv'
    BY <1>7, CallMoves, NoCalling DEF GraphQl!Ends
  <1>f. ASSUME NEW c \in Caller, mutation[c] # None, NEW o \in Object, NEW kind, GraphQl!Selected(c, kind, o)
        PROVE  objects[o] \in GraphRow /\ objects[o].kind = kind /\ objects[o].tenant = mutation[c].tenant
               /\ Matches(objects[o], kind, mutation[c].tenant)
    BY <1>f, <1>o DEF GraphQl!Selected, Matches
  <1>8. ASSUME NEW c \in Caller, NEW o \in Object, mutation[c] # None, NEW op \in {"update", "publish"},
               NEW st \in GraphStatus,
               GraphQl!SetStatus(c, op, o, st)
        PROVE  GraphInv'
    <2> DEFINE r == [objects[o] EXCEPT !.status = st]
               written == [objects EXCEPT ![o] = r]
    <2>1. GraphQl!Ends(c)
      BY <1>8 DEF GraphQl!SetStatus
    <2>2. CASE GraphQl!Selected(c, "api", o)
      <3>1. objects[o] \in GraphRow /\ objects[o].kind = "api" /\ objects[o].tenant = mutation[c].tenant
        BY <1>8, <1>f, <2>2
      <3>2. \/ objects' = written /\ GraphQl!Announce(c, op, o, r) /\ unclear' = unclear
            \/ GraphQl!Fails(o, written)
        BY <1>8, <2>2 DEF GraphQl!SetStatus
      <3>3. r \in GraphRow /\ r.kind = objects[o].kind /\ r.tenant = objects[o].tenant
        BY <3>1 DEF GraphRow
      <3> HIDE DEF r
      <3>4. written = [objects EXCEPT ![o] = r]
        OBVIOUS
      <3> HIDE DEF written
      <3> QED BY <1>8, <2>1, <3>1, <3>2, <3>3, <3>4, RowWritten
    <2>3. CASE ~GraphQl!Selected(c, "api", o)
      BY <1>7, <1>8, <2>1, <2>3 DEF GraphQl!SetStatus
    <2> QED BY <2>2, <2>3
  <1>9. ASSUME NEW c \in Caller, NEW o \in Object, GraphQl!UpdateAPI(c, o) \/ GraphQl!PublishAPI(c, o)
        PROVE  GraphInv'
    <2>1. mutation[c] # None
      BY <1>9 DEF GraphQl!UpdateAPI, GraphQl!PublishAPI, GraphQl!At
    <2>2. CASE GraphQl!PublishAPI(c, o)
      BY <1>8, <2>1, <2>2 DEF GraphQl!PublishAPI, GraphStatus
    <2>3. CASE GraphQl!UpdateAPI(c, o)
      <3>1. PICK st \in Status \cup (IF GraphQl!Selected(c, "api", o) THEN {objects[o].status} ELSE {}) :
              GraphQl!SetStatus(c, "update", o, st)
        BY <2>3 DEF GraphQl!UpdateAPI
      <3>2. CASE st \in Status
        BY <1>8, <2>1, <3>1, <3>2 DEF GraphStatus
      <3>3. CASE GraphQl!Selected(c, "api", o) /\ st = objects[o].status
        <4>1. st \in GraphStatus
          BY <1>f, <2>1, <3>3 DEF GraphRow
        <4> QED BY <1>8, <2>1, <3>1, <4>1
      <3> QED BY <3>1, <3>2, <3>3
    <2> QED BY <1>9, <2>2, <2>3
  <1>10. ASSUME NEW c \in Caller, NEW o \in Object, GraphQl!DeleteWebhook(c, o) PROVE GraphInv'
    <2> DEFINE r == [objects[o] EXCEPT !.status = "inactive"]
               written == [objects EXCEPT ![o].status = "inactive"]
    <2>1. GraphQl!Ends(c) /\ mutation[c] # None
      BY <1>10 DEF GraphQl!DeleteWebhook, GraphQl!At
    <2>2. CASE GraphQl!Selected(c, "webhook", o)
      <3>1. objects[o] \in GraphRow /\ objects[o].kind = "webhook" /\ objects[o].tenant = mutation[c].tenant
        BY <2>1, <1>f, <2>2
      <3>4. written = [objects EXCEPT ![o] = r] /\ written[o] = r
        BY DEF GraphInv
      <3>2. \/ objects' = written /\ GraphQl!Announce(c, "delete", o, r) /\ unclear' = unclear
            \/ GraphQl!Fails(o, written)
        <4> HIDE DEF r
        <4> QED BY <1>10, <2>2, <3>4 DEF GraphQl!DeleteWebhook
      <3>3. r \in GraphRow /\ r.kind = objects[o].kind /\ r.tenant = objects[o].tenant
        BY <3>1 DEF GraphRow, GraphStatus
      <3> HIDE DEF r, written
      <3> QED BY <2>1, <3>1, <3>2, <3>3, <3>4, RowWritten
    <2>3. CASE ~GraphQl!Selected(c, "webhook", o)
      BY <1>7, <1>10, <2>1, <2>3 DEF GraphQl!DeleteWebhook
    <2> QED BY <2>2, <2>3
  \* A subscription is inserted, and announced after what belongs to it is loaded.
  <1>11. ASSUME NEW c \in Caller, NEW o \in Object, GraphQl!Subscribe(c, o) PROVE GraphInv'
    <2> DEFINE r == [kind |-> "subscription", tenant |-> mutation[c].tenant, status |-> "ACTIVE"]
               written == [objects EXCEPT ![o] = r]
               k == [mutation[c] EXCEPT !.at = "load", !.id = o, !.read = r]
    <2>1. mutation[c] # None /\ objects[o] = None
      BY <1>11 DEF GraphQl!Subscribe, GraphQl!At
    <2>2. r \in GraphRow /\ r.tenant = mutation[c].tenant /\ r.kind = "subscription" /\ r # None /\ r # Gone
      BY <1>c, <1>n, <2>1 DEF GraphRow, GraphStatus
    <2>3. written[o] = r
      BY DEF GraphInv
    <2>4. \/ /\ objects' = written /\ UNCHANGED <<announced, unclear>>
             /\ mutation' = [mutation EXCEPT ![c].at = "load", ![c].id = o, ![c].read = r]
          \/ GraphQl!Fails(o, written) /\ GraphQl!Ends(c)
      BY <1>11, <2>3 DEF GraphQl!Subscribe
    <2> HIDE DEF r
    <2>5. written = [objects EXCEPT ![o] = r]
      OBVIOUS
    <2> HIDE DEF written
    <2>6. CASE GraphQl!Fails(o, written) /\ GraphQl!Ends(c)
      <3>1. "create" \in {"create", "update", "publish", "delete"} /\ "create" # "delete"
        OBVIOUS
      <3> QED BY <2>1, <2>2, <2>5, <2>6, <3>1, RowWritten
    <2>7. CASE /\ objects' = written /\ UNCHANGED <<announced, unclear>>
               /\ mutation' = [mutation EXCEPT ![c].at = "load", ![c].id = o, ![c].read = r]
      <3>1. mutation' = [mutation EXCEPT ![c] = k] /\ announced' = [announced EXCEPT ![o] = announced[o]]
        BY <2>7 DEF GraphInv
      <3>2. k \in GraphCall /\ k.at = "load" /\ k.id = o /\ k.read = r /\ k.tenant = mutation[c].tenant
        BY <1>c, <2>1, <2>2 DEF GraphCall
      <3> HIDE DEF k
      <3>3. Calling(k, objects', unclear')
        BY <2>2, <3>2 DEF Calling
      <3>4. Announced(r, announced[o], o \in unclear')
        BY <1>n, <1>o, <2>1, <2>2 DEF Announced
      <3> QED BY <2>1, <2>5, <2>7, <3>1, <3>3, <3>4, GraphMoves
    <2> QED BY <2>4, <2>6, <2>7
  <1>12. ASSUME NEW c \in Caller, GraphQl!Load(c) PROVE GraphInv'
    <2> DEFINE o == mutation[c].id
               a == mutation[c].read
    <2>1. mutation[c] # None /\ mutation[c].at = "load" /\ UNCHANGED <<objects, unclear>>
          /\ GraphQl!Announce(c, "create", o, a) /\ GraphQl!Ends(c)
      BY <1>12 DEF GraphQl!Load, GraphQl!At
    <2>2. o \in Object /\ a \in GraphRow /\ a.tenant = mutation[c].tenant
      BY <1>c, <2>1 DEF Calling, GraphCall
    <2> HIDE DEF o, a
    <2>3. Added("create", o, announced, announced')
      BY <2>1, <2>2, AnnouncementMade
    <2>4. PICK t \in Seq(Announcement) :
            /\ announced' = [announced EXCEPT ![o] = t]
            /\ \A i \in DOMAIN t : t[i].by = t[i].row.tenant
            /\ Deleted(t) = Deleted(announced[o])
      BY <2>3 DEF Added
    <2>5. Announced(objects[o], t, o \in unclear')
      BY <1>o, <2>1, <2>2, <2>4 DEF Announced
    <2>6. objects' = [objects EXCEPT ![o] = objects[o]]
      BY <2>1 DEF GraphInv
    <2>7. mutation' = [mutation EXCEPT ![c] = None]
      BY <2>1 DEF GraphQl!Ends
    <2>8. Calling(None, objects', unclear')
      BY NoCalling
    <2> QED BY <2>1, <2>2, <2>4, <2>5, <2>6, <2>7, <2>8, GraphMoves
  \* A row is read before it is deleted.
  <1>13. ASSUME NEW c \in Caller, NEW o \in Object, NEW kind \in {"api", "subscription"},
                GraphQl!ReadFirst(c, kind, o)
         PROVE  GraphInv'
    <2>1. mutation[c] # None /\ mutation[c].at = "resolve" /\ objects[o] # None
      BY <1>13 DEF GraphQl!ReadFirst, GraphQl!At
    <2>2. mutation[c].read = None /\ mutation[c] \in GraphCall
      BY <1>c, <2>1 DEF Calling
    <2>3. CASE /\ UNCHANGED <<objects, announced, unclear>>
               /\ mutation' = [mutation EXCEPT ![c].at = kind, ![c].id = o,
                                 ![c].read = IF GraphQl!Selected(c, kind, o) THEN objects[o] ELSE None]
      <3> DEFINE q == IF GraphQl!Selected(c, kind, o) THEN objects[o] ELSE None
                 k == [mutation[c] EXCEPT !.at = kind, !.id = o, !.read = q]
      <3>1. mutation' = [mutation EXCEPT ![c] = k]
        BY <2>3 DEF GraphInv
      <3>2. /\ q \in GraphRow \cup {None}
            /\ q # None => q.tenant = mutation[c].tenant
            /\ q = None => ~Matches(objects[o], kind, mutation[c].tenant)
        BY <1>n, <1>f, <2>1 DEF GraphQl!Selected, Matches
      <3> HIDE DEF q
      <3>3. k \in GraphCall /\ k.at = kind /\ k.id = o /\ k.read = q /\ k.tenant = mutation[c].tenant
        BY <2>2, <3>2 DEF GraphCall
      <3> HIDE DEF k
      <3>4. Calling(k, objects, unclear)
        BY <2>1, <3>2, <3>3 DEF Calling
      <3> QED BY <2>3, <3>1, <3>4, CallMoves
    <2>4. CASE GraphQl!Fails(o, objects) /\ mutation' = [mutation EXCEPT ![c].at = kind, ![c].id = o]
      <3> DEFINE k == [mutation[c] EXCEPT !.at = kind, !.id = o]
      <3>1. mutation' = [mutation EXCEPT ![c] = k]
        BY <2>4 DEF GraphInv
      <3>2. k \in GraphCall /\ k.at = kind /\ k.id = o /\ k.read = None
        BY <2>2 DEF GraphCall
      <3> HIDE DEF k
      <3>3. unclear' = unclear \cup {o} /\ objects' = objects /\ announced' = announced
        BY <2>4 DEF GraphQl!Fails
      <3>4. Calling(k, objects', unclear')
        BY <2>1, <3>2, <3>3 DEF Calling
      <3>5. objects' = [objects EXCEPT ![o] = objects[o]] /\ announced' = [announced EXCEPT ![o] = announced[o]]
        BY <3>3 DEF GraphInv
      <3>6. Announced(objects[o], announced[o], o \in unclear')
        BY <1>o, <3>3 DEF Announced
      <3> QED BY <3>1, <3>3, <3>4, <3>5, <3>6, GraphMoves
    <2> QED BY <1>13, <2>3, <2>4 DEF GraphQl!ReadFirst
  <1>14. ASSUME NEW c \in Caller, GraphQl!Delete(c) PROVE GraphInv'
    <2> DEFINE o == mutation[c].id
               kind == mutation[c].at
               read == mutation[c].read
               gone == [objects EXCEPT ![o] = Gone]
               written == IF GraphQl!Selected(c, kind, o) THEN gone ELSE objects
    <2>1. /\ mutation[c] # None /\ kind \in {"api", "subscription"} /\ GraphQl!Ends(c)
          /\ \/ /\ objects' = written /\ unclear' = unclear
                /\ IF written # objects /\ read # None THEN GraphQl!Announce(c, "delete", o, read)
                                                       ELSE UNCHANGED announced
             \/ GraphQl!Fails(o, written)
      BY <1>14 DEF GraphQl!Delete
    <2>2. /\ o \in Object /\ objects[o] # None /\ read \in GraphRow \cup {None}
          /\ read # None => read.tenant = mutation[c].tenant
          /\ read = None => o \in unclear \/ ~Matches(objects[o], kind, mutation[c].tenant)
      BY <1>c, <2>1 DEF Calling, GraphCall
    <2>3. mutation' = [mutation EXCEPT ![c] = None] /\ Calling(None, objects', unclear')
      BY <2>1, NoCalling DEF GraphQl!Ends
    <2>4. Announced(objects[o], announced[o], o \in unclear)
      BY <1>o, <2>2
    <2>5. CASE ~GraphQl!Selected(c, kind, o)
      <3>1. objects' = objects /\ announced' = announced /\ unclear \subseteq unclear'
        BY <2>1, <2>5 DEF GraphQl!Fails
      <3>2. objects' = [objects EXCEPT ![o] = objects[o]] /\ announced' = [announced EXCEPT ![o] = announced[o]]
        BY <3>1 DEF GraphInv
      <3>3. Announced(objects[o], announced[o], o \in unclear')
        BY <2>4, <3>1 DEF Announced
      <3> HIDE DEF o
      <3> QED BY <2>2, <2>3, <3>1, <3>2, <3>3, GraphMoves
    <2>6. CASE GraphQl!Selected(c, kind, o)
      <3>1. /\ objects[o] \in GraphRow /\ objects[o].kind = kind /\ objects[o] # Gone
            /\ Matches(objects[o], kind, mutation[c].tenant)
        BY <1>f, <1>n, <2>1, <2>2, <2>6
      <3>2. written = gone /\ gone # objects
        <4>1. gone[o] = Gone
          BY <2>2 DEF GraphInv
        <4> QED BY <2>6, <3>1, <4>1
      <3>3. Deleted(announced[o]) = {}
        BY <2>1, <2>4, <3>1 DEF Announced
      <3>4. objects[o] # None => Gone # None /\ \A kd, tn : Matches(Gone, kd, tn) => Matches(objects[o], kd, tn)
        BY <1>n DEF Matches
      <3>5. CASE objects' = gone /\ unclear' = unclear /\ read # None /\ GraphQl!Announce(c, "delete", o, read)
        <4>1. read \in GraphRow /\ read.tenant = mutation[c].tenant
          BY <2>2, <3>5
        <4> HIDE DEF o, read
        <4>2. Added("delete", o, announced, announced')
          BY <2>1, <2>2, <3>5, <4>1, AnnouncementMade
        <4>3. PICK t \in Seq(Announcement) :
                /\ announced' = [announced EXCEPT ![o] = t]
                /\ \A i \in DOMAIN t : t[i].by = t[i].row.tenant
                /\ Deleted(t) = {Len(announced[o]) + 1}
          BY <3>3, <4>2 DEF Added
        <4>4. Announced(Gone, t, o \in unclear')
          BY <1>n, <4>3 DEF Announced
        <4> QED BY <2>2, <2>3, <3>4, <3>5, <4>3, <4>4, GraphMoves
      <3>6. CASE objects' = gone /\ unclear' = unclear /\ read = None /\ UNCHANGED announced
        <4>1. o \in unclear'
          BY <2>2, <3>1, <3>6
        <4>2. Announced(Gone, announced[o], o \in unclear')
          BY <2>4, <3>3, <4>1 DEF Announced
        <4>3. announced' = [announced EXCEPT ![o] = announced[o]]
          BY <3>6 DEF GraphInv
        <4> HIDE DEF o
        <4> QED BY <2>2, <2>3, <3>4, <3>6, <4>2, <4>3, GraphMoves
      <3>7. CASE GraphQl!Fails(o, gone)
        <4>1. unclear' = unclear \cup {o} /\ objects' \in {objects, gone} /\ announced' = announced
          BY <3>7 DEF GraphQl!Fails
        <4>2. PICK q \in {objects[o], Gone} : objects' = [objects EXCEPT ![o] = q]
          BY <4>1 DEF GraphInv
        <4>3. Announced(q, announced[o], o \in unclear')
          BY <2>4, <3>3, <4>1 DEF Announced
        <4>4. announced' = [announced EXCEPT ![o] = announced[o]]
          BY <4>1 DEF GraphInv
        <4>5. objects[o] # None => q # None /\ \A kd, tn : Matches(q, kd, tn) => Matches(objects[o], kd, tn)
          BY <3>4
        <4> HIDE DEF o
        <4> QED BY <2>2, <2>3, <4>1, <4>2, <4>3, <4>4, <4>5, GraphMoves
      <3> QED BY <2>1, <3>2, <3>5, <3>6, <3>7
    <2> QED BY <2>5, <2>6
  <1>15. ASSUME NEW c \in Caller, NEW o \in Object, GraphQl!DeleteAPI(c, o) \/ GraphQl!Unsubscribe(c, o)
         PROVE  GraphInv'
    BY <1>13, <1>15 DEF GraphQl!DeleteAPI, GraphQl!Unsubscribe
  <1> QED BY <1>1, <1>2, <1>3, <1>4, <1>6, <1>9, <1>10, <1>11, <1>12, <1>14, <1>15 DEF GraphQl!Next

-------------------------------------------------------------------------------
(* The key-value store                                                     *)

\* Which records are looked for, and what is in a list of keys.
Sought(r, k, want) == r[k] # None /\ (want = "any" \/ r[k].attribute = want)
Listed(keys) == {keys[i] : i \in 1 .. Len(keys)}

\* A search that was not disturbed has found what matched all the time, or has it
\* still before it; one that asks for one record may end at the first.
Served(k, s, b, r) ==
  /\ s \subseteq {x \in StoredKey : Sought(r, x, k.want)}
  /\ k.at = "fetch" => k.left \in Seq(StoredKey) /\ k.left # <<>>
  /\ k.at = "found" => k.left = <<>>
  /\ ~b /\ (k.at = "fetch" \/ (k.at = "found" /\ k.want # None)) =>
       IF k.first THEN k.got = {} => s \subseteq Listed(k.left)
                  ELSE s \subseteq k.got \cup Listed(k.left)

KvInv ==
  /\ DOMAIN call = Caller /\ call = [c \in Caller |-> call[c]]
  /\ \A c \in Caller : Served(call[c], steady[c], c \in broken, records)

LEMMA NoneListed == Listed(<<>>) = {}
  BY DEF Listed

\* The head of a list, and what is left.
LEMMA HeadAndRest ==
  ASSUME NEW q \in Seq(StoredKey), q # <<>>
  PROVE  /\ Head(q) \in StoredKey /\ Tail(q) \in Seq(StoredKey)
         /\ Listed(q) \subseteq {Head(q)} \cup Listed(Tail(q))
  <1>1. /\ Len(q) \in Nat \ {0} /\ Head(q) = q[1] /\ q[1] \in StoredKey /\ Tail(q) \in Seq(StoredKey)
        /\ Len(Tail(q)) = Len(q) - 1 /\ \A i \in 1 .. Len(q) - 1 : Tail(q)[i] = q[i + 1]
    OBVIOUS
  <1>2. ASSUME NEW i \in 1 .. Len(q), i # 1 PROVE q[i] \in Listed(Tail(q))
    <2>1. i - 1 \in 1 .. Len(q) - 1 /\ (i - 1) + 1 = i
      BY <1>1, <1>2
    <2>2. Tail(q)[i - 1] = q[i]
      BY <1>1, <2>1
    <2> QED BY <1>1, <2>1, <2>2 DEF Listed
  <1> QED BY <1>1, <1>2 DEF Listed

\* A list of the keys of a namespace holds each of them.
LEMMA AllListed ==
  ASSUME NEW S \in SUBSET StoredKey, NEW keys \in KvStore!Bijection(1 .. KvStore!Cardinality(S), S)
  PROVE  keys \in Seq(StoredKey) /\ Listed(keys) = S
  <1>2. IsFiniteSet(S) /\ Cardinality(S) \in Nat
    BY FS_Subset, FS_CardinalityType, InputsAssumption DEF InputsAssumption
  <1>3. \A T : KvStore!Cardinality(T) = Cardinality(T)
    BY DEF KvStore!Cardinality, Cardinality
  <1> DEFINE n == Cardinality(S)
  <1>4. keys \in [1 .. n -> S] /\ \A i, j \in 1 .. n : i # j => keys[i] # keys[j]
    BY <1>3 DEF KvStore!Bijection, KvStore!Injection, KvStore!IsInjective
  <1>5. keys \in Injection(1 .. n, S)
    BY <1>4 DEF Injection, IsInjective
  <1>6. IsFiniteSet(1 .. n) /\ Cardinality(1 .. n) = n
    BY <1>2, FS_Interval
  <1>7. keys \in Surjection(1 .. n, S)
    BY <1>2, <1>5, <1>6, FS_Injection
  <1> HIDE DEF n
  <1>8. n \in Nat
    BY <1>2 DEF n
  <1>9. Len(keys) = n /\ keys \in Seq(StoredKey)
    BY <1>4, <1>8
  <1>10. S = {keys[i] : i \in 1 .. n}
    BY <1>4, <1>7 DEF Surjection
  <1> QED BY <1>9, <1>10 DEF Listed

LEMMA KvStart == KvStore!Init => KvInv
  <1> SUFFICES ASSUME KvStore!Init PROVE KvInv
    OBVIOUS
  <1>1. \A c \in Caller : call[c].at = "idle" /\ steady[c] = {}
    BY DEF KvStore!Init, KvStore!Idle
  <1> QED BY <1>1 DEF KvStore!Init, KvInv, Served

LEMMA KvKept == KvInv => KvStore!FindsSteady
  <1> SUFFICES ASSUME KvInv, NEW c \in Caller, call[c].at = "found", call[c].want # None, c \notin broken
               PROVE  IF call[c].first THEN steady[c] # {} => call[c].got # {}
                                       ELSE steady[c] \subseteq call[c].got
    BY DEF KvStore!FindsSteady
  <1>1. Served(call[c], steady[c], c \in broken, records)
    BY DEF KvInv
  <1>2. Listed(call[c].left) = {}
    BY <1>1, NoneListed DEF Served
  <1> QED BY <1>1, <1>2 DEF Served

\* What still matches is told by the records.
LEMMA Observed ==
  ASSUME KvStore!Observe, NEW c \in Caller
  PROVE  steady'[c] = IF call'[c].at = "idle" THEN {}
                      ELSE IF call[c].at = "idle" THEN {k \in StoredKey : Sought(records, k, call'[c].want)}
                      ELSE {k \in steady[c] : Sought(records', k, call'[c].want)}
  BY DEF KvStore!Observe, KvStore!Matches, Sought

\* No caller moves, whatever is written.
LEMMA KvStays ==
  ASSUME KvInv, KvStore!Observe, UNCHANGED <<call, broken>>
  PROVE  KvInv'
  <1>1. ASSUME NEW d \in Caller PROVE Served(call[d], steady'[d], d \in broken, records')
    <2>1. Served(call[d], steady[d], d \in broken, records)
      BY DEF KvInv
    <2>2. steady'[d] = IF call[d].at = "idle" THEN {} ELSE {x \in steady[d] : Sought(records', x, call[d].want)}
      BY Observed
    <2>3. steady'[d] \subseteq steady[d] \cap {x \in StoredKey : Sought(records', x, call[d].want)}
      BY <2>1, <2>2 DEF Served
    <2> QED BY <2>1, <2>3 DEF Served
  <1> QED BY <1>1 DEF KvInv

\* A caller moves.
LEMMA KvMoves ==
  ASSUME KvInv, KvStore!Observe, NEW c \in Caller, NEW k, call' = [call EXCEPT ![c] = k],
         \A d \in Caller \ {c} : d \in broken' <=> d \in broken,
         Served(k, steady'[c], c \in broken', records')
  PROVE  KvInv'
  <1>1. /\ DOMAIN call' = Caller /\ call' = [d \in Caller |-> call'[d]]
        /\ call'[c] = k /\ \A d \in Caller \ {c} : call'[d] = call[d]
    BY DEF KvInv
  <1>2. ASSUME NEW d \in Caller \ {c} PROVE Served(call'[d], steady'[d], d \in broken', records')
    <2>1. Served(call[d], steady[d], d \in broken, records) /\ call'[d] = call[d]
      BY <1>1 DEF KvInv
    <2>2. steady'[d] = IF call[d].at = "idle" THEN {} ELSE {x \in steady[d] : Sought(records', x, call[d].want)}
      BY <1>1, Observed
    <2>3. d \in broken' <=> d \in broken
      OBVIOUS
    <2>4. steady'[d] \subseteq steady[d] \cap {x \in StoredKey : Sought(records', x, call[d].want)}
      BY <2>1, <2>2 DEF Served
    <2> QED BY <2>1, <2>3, <2>4 DEF Served
  <1>3. \A d \in Caller : Served(call'[d], steady'[d], d \in broken', records')
    BY <1>1, <1>2
  <1> QED BY <1>1, <1>3 DEF KvInv

\* A caller that rests afterwards.
LEMMA KvRests ==
  ASSUME KvInv, KvStore!Observe, NEW c \in Caller, NEW k, call' = [call EXCEPT ![c] = k], k.at = "idle",
         \A d \in Caller \ {c} : d \in broken' <=> d \in broken
  PROVE  KvInv'
  <1>1. call'[c] = k
    BY DEF KvInv
  <1>2. steady'[c] = {}
    BY <1>1, Observed
  <1>3. Served(k, steady'[c], c \in broken', records')
    BY <1>2 DEF Served
  <1> QED BY <1>3, KvMoves

LEMMA KvStep == KvInv /\ [KvStore!Next]_KvStore!vars => KvInv'
  <1> SUFFICES ASSUME KvInv, [KvStore!Next]_KvStore!vars PROVE KvInv'
    OBVIOUS
  <1>1. CASE UNCHANGED KvStore!vars
    BY <1>1 DEF KvStore!vars, KvInv
  <1> SUFFICES ASSUME KvStore!Next PROVE KvInv'
    BY <1>1
  <1>o. KvStore!Observe
    BY DEF KvStore!Next
  <1>c. \A c \in Caller : Served(call[c], steady[c], c \in broken, records)
    BY DEF KvInv
  <1>3. ASSUME NEW c \in Caller, NEW k \in StoredKey, KvStore!Store(c, k) \/ KvStore!Delete(c, k)
        PROVE  KvInv'
    BY <1>o, <1>3, KvStays DEF KvStore!Store, KvStore!Delete
  <1>4. ASSUME NEW c \in Caller, NEW k \in StoredKey, KvStore!Get(c, k) PROVE KvInv'
    <2>1. CASE UNCHANGED call
      BY <1>o, <1>4, <2>1, KvStays DEF KvStore!Get
    <2>2. ASSUME NEW found, call' = [call EXCEPT ![c] = [KvStore!Idle EXCEPT !.at = "found", !.got = found]]
          PROVE  KvInv'
      <3> DEFINE g == [KvStore!Idle EXCEPT !.at = "found", !.got = found]
      <3>1. g.at = "found" /\ g.want = None /\ g.left = <<>>
        BY DEF KvStore!Idle
      <3> HIDE DEF g
      <3>2. call'[c] = g /\ call[c].at = "idle" /\ broken' = broken /\ records' = records
        BY <1>4, <2>2 DEF KvStore!Get, KvInv, g
      <3>3. steady'[c] = {x \in StoredKey : Sought(records, x, g.want)}
        BY <1>o, <3>1, <3>2, Observed
      <3>4. Served(g, steady'[c], c \in broken', records')
        BY <3>1, <3>2, <3>3 DEF Served
      <3>5. call' = [call EXCEPT ![c] = g]
        BY <2>2 DEF g
      <3> QED BY <1>o, <3>2, <3>4, <3>5, KvMoves
    <2> QED BY <1>4, <2>1, <2>2 DEF KvStore!Get
  \* A search begins with all keys that are there, or is disturbed.
  <1>5. ASSUME NEW c \in Caller, NEW want, NEW first, KvStore!List(c, want, first) PROVE KvInv'
    <2> DEFINE there == {x \in StoredKey : records[x] # None}
    <2>p. PICK listed \in SUBSET StoredKey :
            /\ listed = there \/ c \in broken'
            /\ \E keys \in KvStore!Bijection(1 .. KvStore!Cardinality(listed), listed) :
                  call' = [call EXCEPT ![c] = KvStore!Searching(want, keys, {}, first)]
      BY <1>5 DEF KvStore!List
    <2>1. PICK keys \in KvStore!Bijection(1 .. KvStore!Cardinality(listed), listed) :
            call' = [call EXCEPT ![c] = KvStore!Searching(want, keys, {}, first)]
      BY <2>p
    <2>2. keys \in Seq(StoredKey) /\ (c \in broken' \/ Listed(keys) = there)
      BY <2>p, <2>1, AllListed
    <2> DEFINE k == KvStore!Searching(want, keys, {}, first)
    <2>3. /\ k.want = want /\ k.left = keys /\ k.first = first /\ k.got = {}
          /\ k.at = IF keys = <<>> THEN "found" ELSE "fetch"
      BY DEF KvStore!Searching
    <2>7. call' = [call EXCEPT ![c] = k]
      BY <2>1
    <2> HIDE DEF k
    <2>4. /\ call'[c] = k /\ call[c].at = "idle" /\ records' = records
          /\ \A d \in Caller \ {c} : d \in broken' <=> d \in broken
      BY <1>5, <2>7 DEF KvStore!List, KvInv
    <2>5. steady'[c] = {x \in StoredKey : Sought(records, x, want)}
      BY <1>o, <2>3, <2>4, Observed
    <2>6. steady'[c] \subseteq there
      BY <2>5 DEF Sought
    <2> HIDE DEF there
    <2>8. Served(k, steady'[c], c \in broken', records')
      BY <2>2, <2>3, <2>4, <2>5, <2>6 DEF Served
    <2> QED BY <1>o, <2>4, <2>7, <2>8, KvMoves
  \* One key of the list is fetched.
  <1>6. ASSUME NEW c \in Caller, KvStore!Fetch(c) PROVE KvInv'
    <2> DEFINE x == Head(call[c].left)
               k == call'[c]
    <2>1. call[c].at = "fetch" /\ call[c].left \in Seq(StoredKey) /\ call[c].left # <<>> /\ records' = records
      BY <1>c, <1>6 DEF KvStore!Fetch, Served
    <2>2. /\ x \in StoredKey /\ Tail(call[c].left) \in Seq(StoredKey)
          /\ Listed(call[c].left) \subseteq {x} \cup Listed(Tail(call[c].left))
      BY <2>1, HeadAndRest
    <2>3. KvStore!Matches(x, call[c].want) <=> Sought(records, x, call[c].want)
      BY DEF KvStore!Matches, Sought
    <2>4. ASSUME NEW left, NEW got, NEW w,
                 w = KvStore!Searching(call[c].want, left, got, call[c].first),
                 call' = [call EXCEPT ![c] = w], left \in Seq(StoredKey),
                 \A d \in Caller \ {c} : d \in broken' <=> d \in broken,
                 c \in broken => c \in broken',
                 c \notin broken' =>
                   /\ call[c].got \subseteq got
                   /\ IF call[c].first THEN got = {} => steady[c] \cap Listed(call[c].left) \subseteq Listed(left)
                      ELSE steady[c] \cap Listed(call[c].left) \subseteq got \cup Listed(left)
          PROVE  KvInv'
      <3>1. /\ w.want = call[c].want /\ w.left = left /\ w.got = got /\ w.first = call[c].first
            /\ w.at = IF left = <<>> THEN "found" ELSE "fetch"
        BY <2>4 DEF KvStore!Searching
      <3>2. call'[c] = w
        BY <2>4 DEF KvInv
      <3>3. steady'[c] = {y \in steady[c] : Sought(records', y, w.want)}
        BY <1>o, <2>1, <3>1, <3>2, Observed
      <3>4. Served(call[c], steady[c], c \in broken, records)
        BY <1>c
      <3>5. /\ steady'[c] \subseteq steady[c]
            /\ steady'[c] \subseteq {y \in StoredKey : Sought(records', y, w.want)}
        BY <3>3, <3>4 DEF Served
      <3>6. c \notin broken' /\ call[c].first /\ w.got = {} => steady'[c] \subseteq Listed(left)
        BY <2>1, <2>4, <3>1, <3>4, <3>5 DEF Served
      <3>7. c \notin broken' /\ ~call[c].first => steady'[c] \subseteq w.got \cup Listed(left)
        BY <2>1, <2>4, <3>1, <3>4, <3>5 DEF Served
      <3>8. Served(w, steady'[c], c \in broken', records')
        BY <2>4, <3>1, <3>5, <3>6, <3>7 DEF Served
      <3> QED BY <1>o, <2>4, <3>8, KvMoves
    <2>5. steady[c] \subseteq {y \in StoredKey : Sought(records, y, call[c].want)}
      BY <1>c DEF Served
    <2>6. CASE KvStore!Took(c, x, KvStore!Matches(x, call[c].want)) /\ UNCHANGED broken
      <3> DEFINE left == IF KvStore!Matches(x, call[c].want) /\ call[c].first THEN <<>> ELSE Tail(call[c].left)
                 got == IF KvStore!Matches(x, call[c].want) THEN call[c].got \cup {x} ELSE call[c].got
                 w == KvStore!Searching(call[c].want, left, got, call[c].first)
      <3>1. call' = [call EXCEPT ![c] = w]
        BY <2>6 DEF KvStore!Took, KvInv
      <3>2. left \in Seq(StoredKey)
        BY <2>2
      <3>3. call[c].got \subseteq got
        OBVIOUS
      <3>4. CASE KvStore!Matches(x, call[c].want)
        <4>1. x \in got /\ (~call[c].first => left = Tail(call[c].left))
          BY <3>4
        <4> HIDE DEF left, got, w, x
        <4>2. call[c].first => got # {}
          BY <4>1
        <4>3. ~call[c].first => steady[c] \cap Listed(call[c].left) \subseteq got \cup Listed(left)
          BY <2>2, <4>1
        <4>4. w = KvStore!Searching(call[c].want, left, got, call[c].first)
          BY DEF w
        <4> QED BY <2>4, <2>6, <3>1, <3>2, <3>3, <4>2, <4>3, <4>4
      <3>5. CASE ~KvStore!Matches(x, call[c].want)
        <4>1. left = Tail(call[c].left)
          BY <3>5
        <4>2. x \notin steady[c]
          BY <2>3, <2>5, <3>5
        <4>4. w = KvStore!Searching(call[c].want, left, got, call[c].first)
          OBVIOUS
        <4> HIDE DEF left, got, w, x
        <4>3. steady[c] \cap Listed(call[c].left) \subseteq Listed(left)
          BY <2>2, <4>1, <4>2
        <4> QED BY <2>4, <2>6, <3>1, <3>2, <3>3, <4>3, <4>4
      <3> QED BY <3>4, <3>5
    <2>7. ASSUME NEW y, NEW hit \in BOOLEAN, KvStore!Took(c, y, hit), broken' = broken \cup {c}
          PROVE  KvInv'
      <3> DEFINE left == IF hit /\ call[c].first THEN <<>> ELSE Tail(call[c].left)
                 got == IF hit THEN call[c].got \cup {y} ELSE call[c].got
                 w == KvStore!Searching(call[c].want, left, got, call[c].first)
      <3>1. call' = [call EXCEPT ![c] = w]
        BY <2>7 DEF KvStore!Took, KvInv
      <3>2. left \in Seq(StoredKey)
        BY <2>2
      <3>3. w = KvStore!Searching(call[c].want, left, got, call[c].first)
        OBVIOUS
      <3> HIDE DEF left, got, w, x
      <3> QED BY <2>4, <2>7, <3>1, <3>2, <3>3
    <2> QED BY <1>6, <2>6, <2>7 DEF KvStore!Fetch
  <1>7. ASSUME NEW c \in Caller, KvStore!Return(c) \/ KvStore!StoreRevoked(c) PROVE KvInv'
    <2>1. /\ call' = [call EXCEPT ![c] = KvStore!Idle] /\ KvStore!Idle.at = "idle"
          /\ \A d \in Caller \ {c} : d \in broken' <=> d \in broken
      BY <1>7 DEF KvStore!Return, KvStore!StoreRevoked, KvStore!Idle
    <2> QED BY <1>o, <2>1, KvRests
  <1>8. ASSUME NEW c \in Caller, NEW x \in StoredKey, KvStore!GetForRevoke(c, x) PROVE KvInv'
    <2>p. PICK j \in StoredKey, a \in Attribute :
            call' = [call EXCEPT ![c] = [KvStore!Idle EXCEPT !.at = "revoke", !.want = a, !.left = <<j>>]]
      BY <1>8 DEF KvStore!GetForRevoke
    <2> DEFINE k == [KvStore!Idle EXCEPT !.at = "revoke", !.want = a, !.left = <<j>>]
    <2>1. /\ call[c].at = "idle" /\ call' = [call EXCEPT ![c] = k] /\ UNCHANGED <<records, broken>>
      BY <1>8, <2>p DEF KvStore!GetForRevoke
    <2>2. k.at = "revoke"
      BY DEF KvStore!Idle
    <2> HIDE DEF k
    <2>3. call'[c] = k
      BY <2>1 DEF KvInv
    <2>4. steady'[c] = {y \in StoredKey : Sought(records, y, k.want)}
      BY <1>o, <2>1, <2>2, <2>3, Observed
    <2>5. Served(k, steady'[c], c \in broken', records')
      BY <2>1, <2>2, <2>4 DEF Served
    <2> QED BY <1>o, <2>1, <2>5, KvMoves
  \* What the client offers.
  <1>9. ASSUME NEW c \in Caller, KvStore!Records(c) PROVE KvInv'
    BY <1>3, <1>4, <1>9 DEF KvStore!Records
  <1>10. ASSUME NEW c \in Caller, NEW first, KvStore!Search(c, first) PROVE KvInv'
    BY <1>5, <1>10 DEF KvStore!Search
  <1>15. CASE KvStore!MissDeadline
    BY <1>o, <1>15, KvStays DEF KvStore!MissDeadline
  <1>16. CASE ~KvStore!MissDeadline
    <2>11. PICK c \in Caller :
            \/ KvStore!APIs(c) \/ KvStore!Applications(c) \/ KvStore!Subscriptions(c) \/ KvStore!Users(c)
            \/ KvStore!Tokens(c) \/ KvStore!Policies(c) \/ KvStore!Analytics(c)
            \/ KvStore!Fetch(c) \/ KvStore!Return(c) \/ KvStore!StoreRevoked(c)
      BY <1>16 DEF KvStore!Next
    <2>12. CASE KvStore!APIs(c) \/ KvStore!Applications(c)
      BY <1>3, <1>5, <1>9, <1>10, <2>12 DEF KvStore!APIs, KvStore!Applications
    <2>13. CASE KvStore!Subscriptions(c) \/ KvStore!Users(c)
      BY <1>3, <1>9, <1>10, <2>13 DEF KvStore!Subscriptions, KvStore!Users
    <2>14. CASE KvStore!Tokens(c) \/ KvStore!Policies(c) \/ KvStore!Analytics(c)
      BY <1>3, <1>5, <1>8, <1>9, <1>10, <2>14
         DEF KvStore!Tokens, KvStore!Policies, KvStore!Analytics
    <2> QED BY <1>6, <1>7, <2>11, <2>12, <2>13, <2>14
  <1> QED BY <1>15, <1>16

-------------------------------------------------------------------------------
(* The change log                                                          *)

Browsing == [on: BOOLEAN, offset: Nat, known: SUBSET Nat, got: SUBSET Nat, misled: BOOLEAN]

\* Of the entries the client wants to see, those that the pages before the
\* offset held have been seen, unless the client was misled.
LogInv ==
  /\ log \subseteq Nat /\ IsFiniteSet(log)
  /\ clock \in Nat
  /\ stamped \in [Writer -> Nat \cup {None}]
  /\ browse \in Browsing
  /\ browse.known \subseteq log
  /\ ~browse.misled => \A e \in browse.known : Cardinality({f \in log : f > e}) < browse.offset => e \in browse.got

LEMMA LogCount == \A S : Changelog!Cardinality(S) = Cardinality(S)
  BY DEF Changelog!Cardinality, Cardinality

LEMMA LogStart == Changelog!Init => LogInv
  <1>1. IsFiniteSet({})
    BY FS_EmptySet
  <1> QED BY <1>1 DEF Changelog!Init, Changelog!NoBrowse, LogInv, Browsing

LEMMA LogKept == LogInv => Changelog!BrowseComplete
  <1> SUFFICES ASSUME LogInv, browse.offset >= Changelog!Cardinality(log), ~browse.misled, NEW e \in browse.known
               PROVE  e \in browse.got
    BY DEF Changelog!BrowseComplete
  <1> DEFINE above == {f \in log : f > e}
  <1>1. e \in log /\ e \in Nat /\ above \subseteq log \ {e}
    <2>1. e \in log /\ log \subseteq Nat
      BY Zenon DEF LogInv
    <2> QED BY ONLY <2>1
  <1>2. IsFiniteSet(log)
    BY DEF LogInv
  <1>3. Cardinality(above) <= Cardinality(log \ {e}) /\ IsFiniteSet(above) /\ IsFiniteSet(log \ {e})
    BY <1>1, <1>2, FS_Subset, FS_RemoveElement
  <1>4. Cardinality(log \ {e}) = Cardinality(log) - 1
    BY <1>1, <1>2, FS_RemoveElement
  <1>5. Cardinality(above) \in Nat /\ Cardinality(log) \in Nat
    BY <1>2, <1>3, FS_CardinalityType
  <1>6. browse.offset \in Nat /\ browse.offset >= Cardinality(log)
    BY LogCount DEF LogInv, Browsing
  <1>7. Cardinality(above) < browse.offset => e \in browse.got
    BY DEF LogInv
  <1> HIDE DEF above
  <1> QED BY <1>3, <1>4, <1>5, <1>6, <1>7

\* What is asked for is a page of at least one entry.
LEMMA PagesHold == \A limit \in Limit : Changelog!Clamped(limit) \in Nat \ {0}
  BY InputsAssumption DEF InputsAssumption, Changelog!Clamped

LEMMA LogStep == LogInv /\ [Changelog!Next]_Changelog!vars => LogInv'
  <1> SUFFICES ASSUME LogInv, [Changelog!Next]_Changelog!vars PROVE LogInv'
    OBVIOUS
  <1>1. CASE UNCHANGED Changelog!vars
    BY <1>1 DEF Changelog!vars, LogInv
  <1>2. ASSUME NEW w \in Writer, Changelog!LogChange(w) PROVE LogInv'
    BY <1>2 DEF Changelog!LogChange, LogInv
  \* An entry that is inserted moves others down, never up.
  <1>3. ASSUME NEW w \in Writer, Changelog!InsertChangelog(w) PROVE LogInv'
    <2>1. /\ log \subseteq log' /\ log' \subseteq Nat /\ IsFiniteSet(log')
          /\ stamped' \in [Writer -> Nat \cup {None}]
          /\ UNCHANGED <<clock, browse>>
      <3>1. stamped[w] \in Nat
        BY <1>3 DEF Changelog!InsertChangelog, LogInv
      <3>2. IsFiniteSet(log \cup {stamped[w]})
        BY FS_AddElement DEF LogInv
      <3> QED BY <1>3, <3>1, <3>2 DEF Changelog!InsertChangelog, LogInv
    <2>2. ASSUME ~browse.misled, NEW e \in browse.known, Cardinality({f \in log' : f > e}) < browse.offset
          PROVE  e \in browse.got
      <3> DEFINE above == {f \in log : f > e}
                 after == {f \in log' : f > e}
      <3>1. above \in SUBSET after /\ after \in SUBSET log'
        BY <2>1
      <3>2. IsFiniteSet(after) /\ IsFiniteSet(above) /\ Cardinality(above) <= Cardinality(after)
        <4> HIDE DEF above, after
        <4>1. IsFiniteSet(after)
          BY <2>1, <3>1, FS_Subset
        <4> QED BY <3>1, <4>1, FS_Subset
      <3>3. Cardinality(above) \in Nat /\ Cardinality(after) \in Nat /\ browse.offset \in Nat
        BY <3>2, FS_CardinalityType DEF LogInv, Browsing
      <3>4. Cardinality(above) < browse.offset => e \in browse.got
        BY <2>2 DEF LogInv
      <3>5. Cardinality(after) < browse.offset
        BY <2>2
      <3> HIDE DEF above, after
      <3> QED BY <3>2, <3>3, <3>4, <3>5
    <2> QED BY <2>1, <2>2 DEF LogInv
  <1>4. ASSUME NEW limit \in Limit, Changelog!Browse(limit) PROVE LogInv'
    <2> DEFINE b == IF browse.on THEN browse ELSE [Changelog!NoBrowse EXCEPT !.on = TRUE, !.known = log]
               more == Changelog!Clamped(limit)
               page == Changelog!GetChangelogPaginated(limit, b.offset)
    <2>1. /\ b \in Browsing
          /\ b.known \subseteq log
          /\ ~b.misled => \A e \in b.known : Cardinality({f \in log : f > e}) < b.offset => e \in b.got
      <3>1. CASE browse.on
        BY <3>1 DEF LogInv
      <3>2. CASE ~browse.on
        <4>1. b = [on |-> TRUE, offset |-> 0, known |-> log, got |-> {}, misled |-> FALSE]
          BY <3>2 DEF Changelog!NoBrowse
        <4> HIDE DEF b
        <4>2. \A e \in log : Cardinality({f \in log : f > e}) \in Nat
          <5> TAKE e \in log
          <5>1. {f \in log : f > e} \in SUBSET log
            OBVIOUS
          <5> QED BY <5>1, FS_Subset, FS_CardinalityType DEF LogInv
        <4> QED BY <4>1, <4>2 DEF LogInv, Browsing
      <3> QED BY <3>1, <3>2
    <2>2. more \in Nat \ {0}
      BY PagesHold
    <2> DEFINE turn == [b EXCEPT !.offset = @ + more]
    <2>3. /\ browse' \in {[turn EXCEPT !.got = @ \cup page], [turn EXCEPT !.misled = TRUE]}
          /\ UNCHANGED <<log, stamped, clock>>
      BY <1>4 DEF Changelog!Browse
    <2>4. page = {e \in log : Cardinality({f \in log : f > e}) \in b.offset .. b.offset + more - 1}
      <3>1. \A e \in log : Changelog!GetChangelog(e) = Cardinality({f \in log : f > e})
        BY LogCount DEF Changelog!GetChangelog
      <3>2. page = {e \in log : Changelog!GetChangelog(e) \in b.offset .. b.offset + more - 1}
        BY DEF Changelog!GetChangelogPaginated
      <3> HIDE DEF page, b, more
      <3> QED BY <3>1, <3>2
    <2> HIDE DEF b, more, page
    <2>m. CASE browse' = [turn EXCEPT !.misled = TRUE]
      <3>a. b.on \in BOOLEAN /\ b.offset + more \in Nat /\ b.known \in SUBSET Nat /\ b.got \in SUBSET Nat
        BY <2>1, <2>2 DEF Browsing
      <3>b. browse' = [on |-> b.on, offset |-> b.offset + more, known |-> b.known, got |-> b.got, misled |-> TRUE]
        BY <2>1, <2>m DEF Browsing
      <3>1. browse' \in Browsing /\ browse'.known = b.known /\ browse'.misled
        BY ONLY <3>a, <3>b DEF Browsing
      <3> HIDE DEF turn
      <3> QED BY <2>1, <2>3, <3>1 DEF LogInv
    <2>p. CASE browse' = [turn EXCEPT !.got = @ \cup page]
      <3>5. /\ browse' \in Browsing /\ browse'.known = b.known /\ browse'.misled = b.misled
            /\ browse'.offset = b.offset + more /\ browse'.got = b.got \cup page
        <4>1. page \subseteq Nat
          BY <2>4 DEF LogInv
        <4>2. browse' = [on |-> b.on, offset |-> b.offset + more, known |-> b.known, got |-> b.got \cup page, misled |-> b.misled]
          BY <2>1, <2>p DEF Browsing
        <4>3. /\ b.on \in BOOLEAN /\ b.misled \in BOOLEAN /\ b.offset \in Nat /\ b.known \in SUBSET Nat
              /\ b.got \cup page \in SUBSET Nat /\ b.offset + more \in Nat
          <5>1. b.on \in BOOLEAN /\ b.misled \in BOOLEAN /\ b.offset \in Nat
                /\ b.known \in SUBSET Nat /\ b.got \in SUBSET Nat
            BY <2>1 DEF Browsing
          <5>2. more \in Nat
            BY <2>2
          <5>3. b.got \cup page \in SUBSET Nat
            BY ONLY <4>1, <5>1, Zenon
          <5>4. b.offset + more \in Nat
            BY ONLY <5>1, <5>2
          <5> QED BY ONLY <5>1, <5>3, <5>4
        <4>4. browse' \in Browsing
          BY ONLY <4>2, <4>3 DEF Browsing
        <4>5. browse'.known = b.known /\ browse'.misled = b.misled /\ browse'.offset = b.offset + more /\ browse'.got = b.got \cup page
          BY ONLY <4>2
        <4> QED BY <4>4, <4>5
      <3>6. ASSUME ~b.misled, NEW e \in b.known, Cardinality({f \in log : f > e}) < b.offset + more
            PROVE  e \in b.got \cup page
        <4> DEFINE above == {f \in log : f > e}
        <4>1. Cardinality(above) \in Nat
          <5>1. above \in SUBSET log
            OBVIOUS
          <5> QED BY <5>1, FS_Subset, FS_CardinalityType DEF LogInv
        <4>2. Cardinality(above) < b.offset + more /\ b.offset \in Nat
          BY <2>1, <3>6 DEF Browsing
        <4>3. (Cardinality(above) < b.offset) \/ (Cardinality(above) \in b.offset .. b.offset + more - 1)
          <5> HIDE DEF above
          <5> QED BY <2>2, <4>1, <4>2
        <4> QED BY <2>1, <2>4, <3>6, <4>3
      <3>7. ~browse'.misled => \A e \in browse'.known : Cardinality({f \in log' : f > e}) < browse'.offset => e \in browse'.got
        BY <2>3, <3>5, <3>6
      <3> QED BY <2>1, <2>3, <3>5, <3>7 DEF LogInv, Browsing
    <2> QED BY <2>3, <2>m, <2>p
  <1>5. CASE Changelog!BrowseEnds
    BY <1>5 DEF Changelog!BrowseEnds, Changelog!NoBrowse, LogInv, Browsing
  <1> QED BY <1>1, <1>2, <1>3, <1>4, <1>5 DEF Changelog!Next

-------------------------------------------------------------------------------
(* The publisher's tables                                                  *)

Resource == [api: Api, method: Method, path: Path, auth: BOOLEAN]
ApiRow == [status: {"CREATED", "PUBLISHED"}, throttle: {"gold", ""}]
PolicyType == {"api", "application", "subscription", "resource"}
ToldResource == [id: Id, api: Api, method: Method]
ToldPolicy == [id: Policy]

\* What was inserted is there until somebody asks to delete it, if there was no doubt.
Kept(t, rs, rem) ==
  /\ t \in ToldResource
  /\ t.id \in rem \/ (rs[t.id] # None /\ rs[t.id].api = t.api /\ rs[t.id].method = t.method)

StillTold(t, rs, po, rem) ==
  \/ Kept(t, rs, rem)
  \/ t \in ToldPolicy /\ (t.id \in rem \/ po[t.id] # None)

\* What a request has still to do.
Tasked(k, rs, rem) ==
  /\ k.at = "insert" => /\ k.todo \in Seq(Id \X Resource)
                        /\ \A t \in k.made : Kept(t, rs, rem)
  /\ k.at = "update" => k.id \in Id /\ k.row.path \in Path /\ k.row.auth \in BOOLEAN
  /\ k.at = "delete" => k.id \in rem
  /\ k.at \in {"policy", "repolicy"} => k.id \in Policy /\ k.type \in PolicyType
  /\ k.at = "attach" => k.id \in Api /\ k.row \in ApiRow

\* A resource belongs to an API that is there.
Belongs(rs, ap) == \A i \in Id : rs[i] # None => ap[rs[i].api] # None

TablesInv ==
  /\ apis \in [Api -> ApiRow \cup {None}]
  /\ resources \in [Id -> Resource \cup {None}]
  /\ policies \in [Policy -> PolicyType \cup {None}]
  /\ DOMAIN task = Caller /\ task = [c \in Caller |-> task[c]]
  /\ Belongs(resources, apis)
  /\ \A c \in Caller : Tasked(task[c], resources, doubtful)
  /\ \A t \in told : StillTold(t, resources, policies, doubtful)

LEMMA NoRow == None \notin Resource /\ None \notin ApiRow /\ None \notin PolicyType
  BY AbsenceAssumption DEF AbsenceAssumption, Resource, ApiRow, PolicyType

LEMMA TablesStart == Tables!Init => TablesInv
  <1> SUFFICES ASSUME Tables!Init PROVE TablesInv
    OBVIOUS
  <1>1. \A c \in Caller : task[c].at = "idle"
    BY DEF Tables!Init, Tables!Nothing
  <1>2. \A c \in Caller : Tasked(task[c], resources, doubtful)
    BY <1>1 DEF Tasked
  <1>3. Belongs(resources, apis)
    BY DEF Tables!Init, Belongs
  <1> QED BY <1>2, <1>3 DEF Tables!Init, TablesInv

LEMMA TablesKept == TablesInv => Tables!ToldIsThere
  <1> SUFFICES ASSUME TablesInv, NEW t \in told, t.id \notin doubtful
               PROVE  IF "api" \in DOMAIN t
                        THEN /\ Tables!GetResource(t.id, t.api) = "ok" /\ resources[t.id].method = t.method
                             /\ apis[t.api] # None
                        ELSE policies[t.id] # None
    BY DEF Tables!ToldIsThere
  <1>1. StillTold(t, resources, policies, doubtful)
    BY DEF TablesInv
  <1>2. CASE Kept(t, resources, doubtful)
    <2>1. /\ t.id \in Id /\ "api" \in DOMAIN t
          /\ resources[t.id] # None /\ resources[t.id].api = t.api /\ resources[t.id].method = t.method
      BY <1>2 DEF Kept, ToldResource
    <2>2. Tables!GetResource(t.id, t.api) = "ok"
      BY <2>1 DEF Tables!GetResource
    <2>3. apis[t.api] # None
      BY <2>1 DEF TablesInv, Belongs
    <2> QED BY <2>1, <2>2, <2>3
  <1>3. CASE t \in ToldPolicy /\ policies[t.id] # None
    BY <1>3 DEF ToldPolicy
  <1> QED BY <1>1, <1>2, <1>3 DEF StillTold

\* What a statement leaves, and what it says.
LEMMA StatementEnds ==
  ASSUME NEW table, NEW after, NEW allowed \in BOOLEAN, NEW out \in Tables!Outcome(table, after),
         Tables!Executed(table, after, allowed, out[1], out[2])
  PROVE  /\ out[1] = table \/ (allowed /\ out[1] = after)
         /\ out[2] => allowed /\ out[1] = after
  <1>1. out[2] \in BOOLEAN
    BY DEF Tables!Outcome
  <1> QED BY <1>1 DEF Tables!Executed

\* Rows that are not deleted stay, and requests and answers hold what they did.
LEMMA TablesMove ==
  ASSUME TablesInv,
         apis' \in [Api -> ApiRow \cup {None}], resources' \in [Id -> Resource \cup {None}],
         policies' \in [Policy -> PolicyType \cup {None}],
         DOMAIN task' = Caller, task' = [c \in Caller |-> task'[c]],
         Belongs(resources', apis'), doubtful \subseteq doubtful',
         \A i \in Id \ doubtful' : resources[i] # None =>
           resources'[i] # None /\ resources'[i].api = resources[i].api /\ resources'[i].method = resources[i].method,
         \A p \in Policy \ doubtful' : policies[p] # None => policies'[p] # None,
         \A c \in Caller : task'[c] = task[c] \/ Tasked(task'[c], resources', doubtful'),
         \A t \in told' : t \in told \/ StillTold(t, resources', policies', doubtful')
  PROVE  TablesInv'
  <1>1. ASSUME NEW t, Kept(t, resources, doubtful) PROVE Kept(t, resources', doubtful')
    BY <1>1 DEF Kept, ToldResource
  <1>2. \A c \in Caller : Tasked(task'[c], resources', doubtful')
    <2> SUFFICES ASSUME NEW c \in Caller, task'[c] = task[c] PROVE Tasked(task[c], resources', doubtful')
      OBVIOUS
    <2>1. Tasked(task[c], resources, doubtful)
      BY DEF TablesInv
    <2> QED BY <1>1, <2>1 DEF Tasked
  <1>3. \A t \in told' : StillTold(t, resources', policies', doubtful')
    <2> SUFFICES ASSUME NEW t \in told PROVE StillTold(t, resources', policies', doubtful')
      OBVIOUS
    <2>1. StillTold(t, resources, policies, doubtful)
      BY DEF TablesInv
    <2> QED BY <1>1, <2>1 DEF StillTold, ToldPolicy
  <1> QED BY <1>2, <1>3 DEF TablesInv

\* A request goes on, and the tables stay.
LEMMA TaskMoves ==
  ASSUME TablesInv, NEW c \in Caller, NEW k, task' = [task EXCEPT ![c] = k],
         UNCHANGED <<apis, resources, policies>>, doubtful \subseteq doubtful',
         Tasked(k, resources, doubtful'),
         \A t \in told' : t \in told \/ StillTold(t, resources, policies, doubtful')
  PROVE  TablesInv'
  <1>1. /\ DOMAIN task' = Caller /\ task' = [d \in Caller |-> task'[d]]
        /\ \A d \in Caller : task'[d] = task[d] \/ task'[d] = k
    BY DEF TablesInv
  <1>2. \A d \in Caller : task'[d] = task[d] \/ Tasked(task'[d], resources', doubtful')
    BY <1>1
  <1> QED BY <1>1, <1>2, TablesMove DEF TablesInv

\* What a request inserts.
LEMMA RequestsTyped ==
  ASSUME NEW r \in Creation
  PROVE  /\ r.methods \in Seq(Spelling) /\ r.path \in Path /\ r.auth \in BOOLEAN
         /\ \A m \in Spelling : upper[m] \in Method
  BY InputsAssumption DEF InputsAssumption

\* The rows of an import have identifiers of their own.
LEMMA RowsTyped ==
  ASSUME NEW a \in Api, NEW ops \in Seq(Described),
         NEW ids \in Tables!Fresh(Len(ops)), NEW guarded
  PROVE  Tables!Rows(a, ops, ids, guarded) \in Seq(Id \X Resource)
  <1> DEFINE row(k) == [api |-> a, method |-> ops[k].method, path |-> ops[k].path, auth |-> ops[k] \in guarded]
  <1>1. Len(ops) \in Nat /\ DOMAIN ops = 1 .. Len(ops)
    OBVIOUS
  <1>2. \A k \in 1 .. Len(ops) : ids[k] \in Id
    BY DEF Tables!Fresh
  <1>3. ASSUME NEW k \in 1 .. Len(ops) PROVE row(k) \in Resource
    <2>1. ops[k] \in Described
      BY <1>1
    <2>2. (ops[k] \in guarded) \in BOOLEAN
      OBVIOUS
    <2> QED BY <2>1, <2>2 DEF Resource, Described
  <1>4. Tables!Rows(a, ops, ids, guarded) = [k \in 1 .. Len(ops) |-> <<ids[k], row(k)>>]
    BY <1>1 DEF Tables!Rows
  <1> HIDE DEF row
  <1> QED BY <1>1, <1>2, <1>3, <1>4

LEMMA NothingTasked == \A rs, rem : Tasked(Tables!Nothing, rs, rem) /\ Tasked([at |-> "failed"], rs, rem)
  BY DEF Tables!Nothing, Tasked

\* A request changes a table, and ends or goes on.
LEMMA TableWritten ==
  ASSUME TablesInv, NEW c \in Caller, NEW k, task' = [task EXCEPT ![c] = k],
         apis' \in [Api -> ApiRow \cup {None}], resources' \in [Id -> Resource \cup {None}],
         policies' \in [Policy -> PolicyType \cup {None}],
         Belongs(resources', apis'), doubtful \subseteq doubtful',
         \A i \in Id \ doubtful : resources[i] # None =>
           resources'[i] # None /\ resources'[i].api = resources[i].api /\ resources'[i].method = resources[i].method,
         \A p \in Policy \ doubtful : policies[p] # None => policies'[p] # None,
         Tasked(k, resources', doubtful'),
         \A t \in told' : t \in told \/ StillTold(t, resources', policies', doubtful')
  PROVE  TablesInv'
  <1>1. /\ DOMAIN task' = Caller /\ task' = [d \in Caller |-> task'[d]]
        /\ \A d \in Caller : task'[d] = task[d] \/ task'[d] = k
    BY DEF TablesInv
  <1>2. \A d \in Caller : task'[d] = task[d] \/ Tasked(task'[d], resources', doubtful')
    BY <1>1
  <1> QED BY <1>1, <1>2, TablesMove DEF TablesInv

LEMMA TablesElsewhere == ASSUME TablesInv, NEW a \in Api, Tables!Elsewhere(a) PROVE TablesInv'
  <1>1. UNCHANGED <<resources, policies, task, told, doubtful>>
    BY DEF Tables!Elsewhere
  <1>2. /\ apis' \in [Api -> ApiRow \cup {None}]
        /\ \A b \in Api : apis[b] # None => apis'[b] # None \/ (b = a /\ Tables!ListResourcesByAPI(a) = {})
    <2>1. apis \in [Api -> ApiRow \cup {None}]
      BY DEF TablesInv
    <2>2. CASE apis[a] = None /\ apis' = [apis EXCEPT ![a] = [status |-> "CREATED", throttle |-> "gold"]]
      BY <2>1, <2>2, NoRow DEF ApiRow
    <2>3. CASE apis[a] # None /\ apis' = [apis EXCEPT ![a].status = "PUBLISHED"]
      <3>1. [apis[a] EXCEPT !.status = "PUBLISHED"] \in ApiRow
        BY <2>1, <2>3 DEF ApiRow
      <3>2. apis' = [apis EXCEPT ![a] = [apis[a] EXCEPT !.status = "PUBLISHED"]]
        BY <2>1, <2>3
      <3> QED BY <2>1, <3>1, <3>2, NoRow
    <2>4. CASE Tables!ListResourcesByAPI(a) = {} /\ apis' = [apis EXCEPT ![a] = None]
      BY <2>1, <2>4
    <2> QED BY <2>2, <2>3, <2>4 DEF Tables!Elsewhere
  <1>3. Belongs(resources', apis')
    <2> SUFFICES ASSUME NEW i \in Id, resources[i] # None PROVE apis'[resources[i].api] # None
      BY <1>1 DEF Belongs
    <2>1. resources[i].api \in Api /\ apis[resources[i].api] # None
      BY DEF TablesInv, Belongs, Resource
    <2>2. resources[i].api = a => Tables!ListResourcesByAPI(a) # {}
      BY DEF Tables!ListResourcesByAPI
    <2> QED BY <1>2, <2>1, <2>2
  <1> QED BY <1>1, <1>2, <1>3, TablesMove DEF TablesInv

LEMMA TablesCreate ==
  ASSUME TablesInv, NEW c \in Caller, NEW a \in Api, NEW r \in Creation, NEW i \in Id,
         Tables!CreateResource(c, a, r, i)
  PROVE  TablesInv'
  <1> DEFINE methods == Tables!normalizeMethods(r.methods)
             todo == [k \in DOMAIN methods |->
                        <<i, [api |-> a, method |-> methods[k], path |-> r.path, auth |-> r.auth]>>]
  <1>1. methods \in Seq(Method)
    <2>1. Len(r.methods) \in Nat /\ DOMAIN r.methods = 1 .. Len(r.methods)
          /\ \A k \in 1 .. Len(r.methods) : r.methods[k] \in Spelling
      BY RequestsTyped
    <2>2. methods = [k \in 1 .. Len(r.methods) |-> upper[r.methods[k]]]
      BY <2>1 DEF Tables!normalizeMethods
    <2> HIDE DEF methods
    <2> QED BY <2>1, <2>2, RequestsTyped
  <1> HIDE DEF methods
  <1>2. todo \in Seq(Id \X Resource)
    <2>1. DOMAIN methods = 1 .. Len(methods) /\ Len(methods) \in Nat
      BY <1>1
    <2>2. \A k \in 1 .. Len(methods) :
             [api |-> a, method |-> methods[k], path |-> r.path, auth |-> r.auth] \in Resource
      BY <1>1, <2>1, RequestsTyped DEF Resource
    <2> QED BY <2>1, <2>2
  <1>3. /\ task' = [task EXCEPT ![c] = Tables!Inserting(a, todo, FALSE)]
        /\ UNCHANGED <<apis, resources, policies, told, doubtful>>
    BY DEF Tables!CreateResource, Tables!Begin, methods
  <1> HIDE DEF todo
  <1>4. Tasked(Tables!Inserting(a, todo, FALSE), resources, doubtful')
    BY <1>2 DEF Tasked, Tables!Inserting
  <1> QED BY <1>3, <1>4, TaskMoves

LEMMA TablesCreateAPI ==
  ASSUME TablesInv, NEW c \in Caller, NEW a \in Api, NEW todo \in Seq(Id \X Resource), NEW goOn,
         Tables!CreateAPI(c, a, todo, goOn)
  PROVE  TablesInv'
  <1>1. UNCHANGED <<resources, policies, told, doubtful>>
    BY DEF Tables!CreateAPI
  <1> DEFINE after == [apis EXCEPT ![a] = [status |-> "CREATED", throttle |-> ""]]
  <1>2. PICK k \in {Tables!Inserting(a, todo, goOn), [at |-> "failed"]} : task' = [task EXCEPT ![c] = k]
    BY DEF Tables!CreateAPI, Tables!Begin
  <1>3. apis' \in {apis, after}
    BY DEF Tables!CreateAPI, Tables!Outcome
  <1>4. /\ apis' \in [Api -> ApiRow \cup {None}]
        /\ \A b \in Api : apis[b] # None => apis'[b] # None
    <2> DEFINE row == [status |-> "CREATED", throttle |-> ""]
    <2>1. row \in ApiRow
      BY DEF ApiRow
    <2>2. apis' = apis \/ apis' = [apis EXCEPT ![a] = row]
      BY <1>3
    <2> HIDE DEF row
    <2>3. row # None
      BY <2>1, NoRow
    <2> QED BY <2>1, <2>2, <2>3 DEF TablesInv
  <1>5. Belongs(resources', apis')
    BY <1>1, <1>4 DEF TablesInv, Belongs, Resource
  <1>6. Tasked(k, resources', doubtful')
    <2>1. Tasked(Tables!Inserting(a, todo, goOn), resources', doubtful')
      BY DEF Tasked, Tables!Inserting
    <2> QED BY <2>1, NothingTasked
  <1> QED BY <1>1, <1>2, <1>4, <1>5, <1>6, TableWritten DEF TablesInv

LEMMA TablesImport ==
  ASSUME TablesInv, NEW c \in Caller, NEW a \in Api,
         \/ \E document \in Document :
              Tables!ImportFromOpenAPI(c, a, document) \/ Tables!ImportFromSwagger2(c, a, document)
         \/ \E template \in apiTemplates : Tables!CreateFromTemplate(c, a, template)
  PROVE  TablesInv'
  <1>1. ASSUME NEW S \in SUBSET Described, IsFiniteSet(S), Tables!Import(c, a, S) PROVE TablesInv'
    <2>1. PICK ops \in Tables!Bijection(1 .. Tables!Cardinality(S), S) : \E ids \in Tables!Fresh(Len(ops)) :
            Tables!CreateAPI(c, a, Tables!Rows(a, ops, ids, {op \in S : ~Tables!isPublicOperation(op)}), TRUE)
      BY <1>1 DEF Tables!Import
    <2>2. ops \in Seq(Described)
      <3>3. Cardinality(S) \in Nat
        BY <1>1, FS_CardinalityType
      <3>4. Tables!Cardinality(S) = Cardinality(S)
        BY DEF Tables!Cardinality, Cardinality
      <3>5. ops \in [1 .. Cardinality(S) -> S]
        BY <2>1, <3>4 DEF Tables!Bijection, Tables!Injection
      <3>6. ops \in [1 .. Cardinality(S) -> Described]
        BY <3>5
      <3> QED BY <3>3, <3>6
    <2> DEFINE guarded == {op \in S : ~Tables!isPublicOperation(op)}
    <2>3. PICK ids \in Tables!Fresh(Len(ops)) : Tables!CreateAPI(c, a, Tables!Rows(a, ops, ids, guarded), TRUE)
      BY <2>1
    <2> HIDE DEF guarded
    <2>4. Tables!Rows(a, ops, ids, guarded) \in Seq(Id \X Resource)
      BY <2>2, <2>3, RowsTyped
    <2> QED BY <2>3, <2>4, TablesCreateAPI
  <1>2. ASSUME NEW d \in Document
        PROVE  /\ d \in SUBSET Described /\ IsFiniteSet(d)
               /\ Tables!Operations(d) \in SUBSET Described /\ IsFiniteSet(Tables!Operations(d))
    <2>1. d \in SUBSET Described /\ IsFiniteSet(d)
      BY InputsAssumption DEF InputsAssumption
    <2>2. Tables!Operations(d) \in SUBSET d
      BY DEF Tables!Operations
    <2> QED BY <2>1, <2>2, FS_Subset
  <1>3. ASSUME NEW template \in apiTemplates, Tables!CreateFromTemplate(c, a, template) PROVE TablesInv'
    <2>1. template \in Seq(Described)
      BY InputsAssumption DEF InputsAssumption
    <2>2. PICK ids \in Tables!Fresh(Len(template)) : Tables!CreateAPI(c, a, Tables!Rows(a, template, ids, {}), FALSE)
      BY <1>3 DEF Tables!CreateFromTemplate
    <2>3. Tables!Rows(a, template, ids, {}) \in Seq(Id \X Resource)
      BY <2>1, <2>2, RowsTyped
    <2> QED BY <2>2, <2>3, TablesCreateAPI
  <1>4. ASSUME NEW d \in Document, Tables!ImportFromOpenAPI(c, a, d) \/ Tables!ImportFromSwagger2(c, a, d)
        PROVE  TablesInv'
    BY <1>1, <1>2, <1>4 DEF Tables!ImportFromOpenAPI, Tables!ImportFromSwagger2
  <1> QED BY <1>3, <1>4

\* An insertion that takes another's answer for its own is one of them, or none.
LEMMA TablesInsertMisread == ASSUME TablesInv, NEW c \in Caller, Tables!InsertMisread(c) PROVE TablesInv'
  <1> DEFINE i == task[c].todo[1][1]
             row == task[c].todo[1][2]
             k == [task[c] EXCEPT !.todo = Tail(@), !.made = @ \cup {Tables!Made(i, row)}]
  <1>1. /\ task[c].at = "insert" /\ task[c].todo # <<>> /\ UNCHANGED <<apis, policies, told>>
        /\ Tasked(task[c], resources, doubtful) /\ doubtful' = doubtful \cup {i}
        /\ task' = [task EXCEPT ![c] = k]
        /\ resources' = resources \/ (Tables!Fits(i, row) /\ resources' = [resources EXCEPT ![i] = row])
    BY DEF Tables!InsertMisread, TablesInv
  <1>2. i \in Id /\ row \in Resource /\ Tail(task[c].todo) \in Seq(Id \X Resource)
    <2>1. task[c].todo \in Seq(Id \X Resource)
      BY <1>1 DEF Tasked
    <2>2. task[c].todo[1] \in Id \X Resource /\ Tail(task[c].todo) \in Seq(Id \X Resource)
      BY <1>1, <2>1
    <2> QED BY <2>2
  <1>3. k.at = "insert" /\ k.todo = Tail(task[c].todo) /\ k.made = task[c].made \cup {Tables!Made(i, row)}
    <2>1. task[c].at = "insert"
      BY <1>1
    <2> QED BY <2>1
  <1> HIDE DEF k, i, row
  <1>4. Tables!Fits(i, row) => resources[i] = None /\ apis[row.api] # None
    BY DEF Tables!Fits
  <1>5. /\ resources' \in [Id -> Resource \cup {None}]
        /\ \A j \in Id : resources[j] # None => resources'[j] = resources[j]
    BY <1>1, <1>2, <1>4 DEF TablesInv
  <1>6. Belongs(resources', apis')
    <2> SUFFICES ASSUME NEW j \in Id, resources'[j] # None PROVE apis[resources'[j].api] # None
      BY <1>1 DEF Belongs
    <2>1. resources'[j] = resources[j] \/ (Tables!Fits(i, row) /\ resources'[j] = row)
      BY <1>1, <1>2 DEF TablesInv
    <2> QED BY <1>4, <2>1 DEF TablesInv, Belongs
  <1>7. ASSUME NEW t, Kept(t, resources, doubtful) PROVE Kept(t, resources', doubtful')
    BY <1>1, <1>5, <1>7 DEF Kept, ToldResource
  <1>8. Kept(Tables!Made(i, row), resources', doubtful')
    BY <1>1, <1>2 DEF Kept, Tables!Made, ToldResource, Resource
  <1>9. Tasked(k, resources', doubtful')
    BY <1>1, <1>2, <1>3, <1>7, <1>8 DEF Tasked
  <1> QED BY <1>1, <1>5, <1>6, <1>9, TableWritten DEF TablesInv

LEMMA TablesInsert == ASSUME TablesInv, NEW c \in Caller, Tables!InsertOne(c) PROVE TablesInv'
  <1> DEFINE i == task[c].todo[1][1]
             row == task[c].todo[1][2]
             after == [resources EXCEPT ![i] = row]
             rest == [task[c] EXCEPT !.todo = Tail(@)]
             more == [rest EXCEPT !.made = @ \cup {Tables!Made(i, row)}]
  <1>1. PICK out \in Tables!Outcome(resources, after) :
          /\ Tables!Executed(resources, after, Tables!Fits(i, row), out[1], out[2])
          /\ resources' = out[1]
          /\ task' = [task EXCEPT ![c] = IF out[2] THEN more
                                         ELSE IF task[c].goOn THEN rest ELSE [at |-> "failed"]]
    BY DEF Tables!InsertOne
  <1>2. /\ task[c].at = "insert" /\ task[c].todo # <<>> /\ UNCHANGED <<apis, policies, told, doubtful>>
        /\ Tasked(task[c], resources, doubtful)
    BY DEF Tables!InsertOne, TablesInv
  <1>3. i \in Id /\ row \in Resource /\ Tail(task[c].todo) \in Seq(Id \X Resource)
    <2>1. task[c].todo \in Seq(Id \X Resource)
      BY <1>2 DEF Tasked
    <2>2. task[c].todo[1] \in Id \X Resource /\ Tail(task[c].todo) \in Seq(Id \X Resource)
      BY <1>2, <2>1
    <2> QED BY <2>2
  <1>4. Tables!Fits(i, row) \in BOOLEAN
    BY DEF Tables!Fits
  <1> HIDE DEF i, row
  <1>5. /\ resources' = resources \/ (Tables!Fits(i, row) /\ resources' = after)
        /\ out[2] => Tables!Fits(i, row) /\ resources' = after
    <2> HIDE DEF after
    <2> QED BY <1>1, <1>4, StatementEnds
  <1>6. Tables!Fits(i, row) => resources[i] = None /\ apis[row.api] # None
    BY DEF Tables!Fits
  <1>7. /\ resources' \in [Id -> Resource \cup {None}]
        /\ \A j \in Id : resources[j] # None => resources'[j] = resources[j]
        /\ out[2] => resources'[i] = row
    BY <1>3, <1>5, <1>6 DEF TablesInv
  <1>8. Belongs(resources', apis')
    <2> SUFFICES ASSUME NEW j \in Id, resources'[j] # None PROVE apis[resources'[j].api] # None
      BY <1>2 DEF Belongs
    <2>1. resources'[j] = resources[j] \/ (Tables!Fits(i, row) /\ resources'[j] = row)
      BY <1>3, <1>5 DEF TablesInv
    <2> QED BY <1>6, <2>1 DEF TablesInv, Belongs
  <1>9. ASSUME NEW t, Kept(t, resources, doubtful) PROVE Kept(t, resources', doubtful')
    BY <1>2, <1>7, <1>9 DEF Kept, ToldResource
  <1>10. rest.at = "insert" /\ rest.todo = Tail(task[c].todo) /\ rest.made = task[c].made
         /\ more.at = "insert" /\ more.todo = Tail(task[c].todo) /\ more.made = task[c].made \cup {Tables!Made(i, row)}
    <2>a. /\ task[c].at = "insert"
      BY <1>2
    <2> QED BY <2>a
  <1>11. Tasked(rest, resources', doubtful')
    <2> HIDE DEF rest, more
    <2> QED BY <1>2, <1>3, <1>9, <1>10 DEF Tasked
  <1>12. out[2] => Tasked(more, resources', doubtful')
    <2> SUFFICES ASSUME out[2] PROVE Tasked(more, resources', doubtful')
      OBVIOUS
    <2>1. Kept(Tables!Made(i, row), resources', doubtful')
      BY <1>3, <1>7, NoRow DEF Kept, Tables!Made, ToldResource, Resource
    <2> HIDE DEF rest, more
    <2> QED BY <1>2, <1>3, <1>9, <1>10, <2>1 DEF Tasked
  <1> HIDE DEF rest, more, after
  <1>13. PICK k : task' = [task EXCEPT ![c] = k] /\ Tasked(k, resources', doubtful')
    BY <1>1, <1>11, <1>12, NothingTasked
  <1> QED BY <1>2, <1>7, <1>8, <1>13, TableWritten DEF TablesInv

\* A statement on a resource that changes neither its API nor its method, or
\* erases one that was to be deleted.
LEMMA TablesChange ==
  ASSUME TablesInv, NEW c \in Caller, Tables!WriteResource(c) \/ Tables!EraseResource(c) PROVE TablesInv'
  <1> DEFINE i == task[c].id
  <1>1. /\ task' = [task EXCEPT ![c] = Tables!Nothing] /\ UNCHANGED <<apis, policies, told, doubtful>>
        /\ Tasked(task[c], resources, doubtful)
    BY DEF Tables!WriteResource, Tables!EraseResource, Tables!Ends, TablesInv
  <1>2. CASE Tables!WriteResource(c)
    <2> DEFINE row == task[c].row
               after == IF resources[i] = None THEN resources
                        ELSE [resources EXCEPT ![i].path = row.path, ![i].auth = row.auth]
    <2>1. i \in Id /\ row.path \in Path /\ row.auth \in BOOLEAN
      BY <1>1, <1>2 DEF Tables!WriteResource, Tasked
    <2>2. resources' \in {resources, after}
      BY <1>2 DEF Tables!WriteResource, Tables!Outcome
    <2>3. CASE resources' = resources
      BY <1>1, <2>3, TableWritten, NothingTasked DEF TablesInv
    <2>4. CASE resources[i] # None /\ resources' = after
      <3> DEFINE new == [resources[i] EXCEPT !.path = row.path, !.auth = row.auth]
      <3>1. resources[i] \in Resource
        BY <2>1, <2>4 DEF TablesInv
      <3>2. resources' = [resources EXCEPT ![i] = new]
        BY <2>4
      <3>3. new \in Resource /\ new.api = resources[i].api /\ new.method = resources[i].method
        BY <2>1, <3>1 DEF Resource
      <3> HIDE DEF i, new, row, after
      <3>4. new # None
        BY <3>3, NoRow
      <3>5. /\ resources' \in [Id -> Resource \cup {None}]
            /\ \A j \in Id : resources[j] # None =>
                 resources'[j] # None /\ resources'[j].api = resources[j].api /\ resources'[j].method = resources[j].method
            /\ \A j \in Id : resources'[j] # None => resources[j] # None
        BY <2>1, <2>4, <3>2, <3>3, <3>4 DEF TablesInv
      <3>6. Belongs(resources', apis')
        BY <1>1, <3>5 DEF TablesInv, Belongs
      <3> QED BY <1>1, <3>5, <3>6, TableWritten, NothingTasked DEF TablesInv
    <2> QED BY <2>2, <2>3, <2>4
  <1>3. CASE Tables!EraseResource(c)
    <2>1. i \in doubtful
      BY <1>1, <1>3 DEF Tables!EraseResource, Tasked
    <2>2. resources' \in {resources, [resources EXCEPT ![i] = None]}
      BY <1>3 DEF Tables!EraseResource, Tables!Outcome
    <2> HIDE DEF i
    <2>3. /\ resources' \in [Id -> Resource \cup {None}]
          /\ \A j \in Id : resources'[j] = resources[j] \/ (j = i /\ resources'[j] = None)
      BY <2>2 DEF TablesInv
    <2>4. Belongs(resources', apis')
      BY <1>1, <2>3 DEF TablesInv, Belongs
    <2> QED BY <1>1, <2>1, <2>3, <2>4, TableWritten, NothingTasked DEF TablesInv
  <1> QED BY <1>2, <1>3

\* A request finds the resource it is about, and is noted.
LEMMA TablesAsk ==
  ASSUME TablesInv, NEW c \in Caller, NEW a \in Api, NEW i \in Id,
         \/ Tables!DeleteResource(c, i, a) \/ \E r \in Creation : Tables!UpdateResource(c, i, a, r.path)
  PROVE  TablesInv'
  <1>1. CASE Tables!DeleteResource(c, i, a)
    <2> DEFINE k == [at |-> "delete", id |-> i]
    <2>1. /\ task' = [task EXCEPT ![c] = k] /\ doubtful' = doubtful \cup {i}
          /\ UNCHANGED <<apis, resources, policies, told>>
      BY <1>1 DEF Tables!DeleteResource, Tables!Begin
    <2>2. Tasked(k, resources, doubtful')
      BY <2>1 DEF Tasked
    <2> HIDE DEF k
    <2> QED BY <2>1, <2>2, TaskMoves
  <1>2. ASSUME NEW r \in Creation, Tables!UpdateResource(c, i, a, r.path) PROVE TablesInv'
    <2> DEFINE row == IF r.path = "" THEN resources[i] ELSE [resources[i] EXCEPT !.path = r.path]
               k == [at |-> "update", id |-> i, row |-> row]
    <2>1. /\ task' = [task EXCEPT ![c] = k] /\ doubtful' = doubtful
          /\ UNCHANGED <<apis, resources, policies, told>> /\ resources[i] # None
      BY <1>2 DEF Tables!UpdateResource, Tables!Begin, Tables!GetResource
    <2>2. resources[i] \in Resource /\ r.path \in Path
      BY <2>1, RequestsTyped DEF TablesInv
    <2>3. row.path \in Path /\ row.auth \in BOOLEAN
      BY <2>2 DEF Resource
    <2> HIDE DEF row
    <2>4. Tasked(k, resources, doubtful')
      BY <2>3 DEF Tasked
    <2> HIDE DEF k
    <2> QED BY <2>1, <2>4, TaskMoves
  <1> QED BY <1>1, <1>2

\* The types a policy may have.
LEMMA TypesTyped ==
  ASSUME NEW type \in Type, lower[type] \in Tables!validPolicyTypes PROVE lower[type] \in PolicyType
  BY DEF Tables!validPolicyTypes, PolicyType

LEMMA TablesPolicyAsk ==
  ASSUME TablesInv, NEW c \in Caller, NEW p \in Policy,
         \/ Tables!CreatePolicyFromTemplate(c, p)
         \/ \E type \in Type : Tables!CreatePolicy(c, p, type) \/ Tables!UpdatePolicy(c, p, type)
  PROVE  TablesInv'
  <1>1. ASSUME NEW at \in {"policy", "repolicy"}, NEW type \in PolicyType,
               task' = [task EXCEPT ![c] = [at |-> at, id |-> p, type |-> type]],
               UNCHANGED <<apis, resources, policies, told, doubtful>>
        PROVE  TablesInv'
    <2> DEFINE k == [at |-> at, id |-> p, type |-> type]
    <2>1. Tasked(k, resources, doubtful')
      BY DEF Tasked
    <2>2. task' = [task EXCEPT ![c] = k]
      BY <1>1
    <2> HIDE DEF k
    <2> QED BY <1>1, <2>1, <2>2, TaskMoves
  <1>2. ASSUME NEW type \in PolicyType, Tables!Create(c, p, type) PROVE TablesInv'
    BY <1>1, <1>2 DEF Tables!Create, Tables!Begin
  <1>3. CASE Tables!CreatePolicyFromTemplate(c, p)
    BY <1>2, <1>3 DEF Tables!CreatePolicyFromTemplate, Tables!GetPolicyTemplates, PolicyType
  <1>4. ASSUME NEW type \in Type, Tables!CreatePolicy(c, p, type) PROVE TablesInv'
    BY <1>2, <1>4, TypesTyped DEF Tables!CreatePolicy
  <1>5. ASSUME NEW type \in Type, Tables!UpdatePolicy(c, p, type) PROVE TablesInv'
    <2> DEFINE new == IF type = "" THEN policies[p] ELSE lower[type]
    <2>1. /\ policies[p] # None /\ (type # "" => lower[type] \in Tables!validPolicyTypes)
          /\ task' = [task EXCEPT ![c] = [at |-> "repolicy", id |-> p, type |-> new]]
          /\ UNCHANGED <<apis, resources, policies, told, doubtful>>
      BY <1>5 DEF Tables!UpdatePolicy, Tables!Begin
    <2>2. new \in PolicyType
      BY <2>1, TypesTyped DEF TablesInv
    <2> HIDE DEF new
    <2> QED BY <1>1, <2>1, <2>2
  <1> QED BY <1>3, <1>4, <1>5

\* A statement on a policy.
LEMMA TablesPolicyWrite ==
  ASSUME TablesInv, NEW c \in Caller, Tables!InsertPolicy(c) \/ Tables!WritePolicy(c) PROVE TablesInv'
  <1> DEFINE p == task[c].id
             type == task[c].type
             t == [id |-> p]
  <1>1. /\ task' = [task EXCEPT ![c] = Tables!Nothing] /\ UNCHANGED <<apis, resources, doubtful>>
        /\ Tasked(task[c], resources, doubtful) /\ task[c].at \in {"policy", "repolicy"}
    BY DEF Tables!InsertPolicy, Tables!WritePolicy, Tables!Ends, TablesInv
  <1>2. p \in Policy /\ type \in PolicyType
    BY <1>1 DEF Tasked
  <1> HIDE DEF p, type, t
  <1>3. type # None
    BY <1>2, NoRow
  <1>4. CASE Tables!WritePolicy(c)
    <2> DEFINE after == [policies EXCEPT ![p] = IF @ = None THEN None ELSE type]
    <2>1. policies' \in {policies, after} /\ told' = told
      BY <1>4 DEF Tables!WritePolicy, Tables!Outcome, p, type
    <2>2. /\ policies' \in [Policy -> PolicyType \cup {None}]
          /\ \A q \in Policy : policies[q] # None => policies'[q] # None
      BY <1>2, <1>3, <2>1 DEF TablesInv
    <2> QED BY <1>1, <2>1, <2>2, TableWritten, NothingTasked DEF TablesInv
  <1>5. CASE Tables!InsertPolicy(c)
    <2> DEFINE after == [policies EXCEPT ![p] = type]
    <2>1. PICK out \in Tables!Outcome(policies, after) :
            /\ Tables!Executed(policies, after, TRUE, out[1], out[2])
            /\ policies' = out[1] /\ told' = IF out[2] THEN told \cup {t} ELSE told
      BY <1>5 DEF Tables!InsertPolicy, p, type, t
    <2>2. (policies' = policies \/ policies' = after) /\ (out[2] => policies' = after)
      <3> HIDE DEF after
      <3>1. out[2] \in BOOLEAN
        BY <2>1 DEF Tables!Outcome
      <3> QED BY <2>1, <3>1 DEF Tables!Executed
    <2>3. /\ policies' \in [Policy -> PolicyType \cup {None}]
          /\ \A q \in Policy : policies[q] # None => policies'[q] # None
          /\ out[2] => policies'[p] # None
      BY <1>2, <1>3, <2>2 DEF TablesInv
    <2>4. out[2] => StillTold(t, resources', policies', doubtful')
      BY <1>2, <2>3 DEF StillTold, ToldPolicy, t
    <2>5. \A s \in told' : s \in told \/ StillTold(s, resources', policies', doubtful')
      BY <2>1, <2>4
    <2> QED BY <1>1, <2>3, <2>5, TableWritten, NothingTasked DEF TablesInv
  <1> QED BY <1>4, <1>5

LEMMA TablesPolicyMisread ==
  ASSUME TablesInv, NEW c \in Caller, Tables!InsertPolicyMisread(c) PROVE TablesInv'
  <1> DEFINE p == task[c].id
             type == task[c].type
  <1>1. /\ task' = [task EXCEPT ![c] = Tables!Nothing] /\ UNCHANGED <<apis, resources>>
        /\ Tasked(task[c], resources, doubtful) /\ task[c].at = "policy"
        /\ policies' \in {policies, [policies EXCEPT ![p] = type]}
        /\ told' = told \cup {[id |-> p]} /\ doubtful' = doubtful \cup {p}
    BY DEF Tables!InsertPolicyMisread, Tables!Ends, TablesInv
  <1>2. p \in Policy /\ type \in PolicyType
    BY <1>1 DEF Tasked
  <1> HIDE DEF p, type
  <1>3. /\ policies' \in [Policy -> PolicyType \cup {None}]
        /\ \A q \in Policy : policies[q] # None => policies'[q] # None
    BY <1>1, <1>2, NoRow DEF TablesInv
  <1>4. StillTold([id |-> p], resources', policies', doubtful')
    BY <1>1, <1>2 DEF StillTold, ToldPolicy
  <1>5. \A s \in told' : s \in told \/ StillTold(s, resources', policies', doubtful')
    BY <1>1, <1>4
  <1> QED BY <1>1, <1>3, <1>5, TableWritten, NothingTasked DEF TablesInv

LEMMA TablesPolicyGone == ASSUME TablesInv, NEW p \in Policy, Tables!DeletePolicy(p) PROVE TablesInv'
  <1>1. /\ doubtful' = doubtful \cup {p} /\ UNCHANGED <<apis, resources, task, told>>
        /\ policies' \in {policies, [policies EXCEPT ![p] = None]}
    BY DEF Tables!DeletePolicy, Tables!Outcome
  <1>2. /\ policies' \in [Policy -> PolicyType \cup {None}]
        /\ \A q \in Policy \ {p} : policies'[q] = policies[q]
    BY <1>1 DEF TablesInv
  <1> QED BY <1>1, <1>2, TablesMove DEF TablesInv

\* A policy is attached by writing the row of its API.
LEMMA TablesAttach ==
  ASSUME TablesInv, NEW c \in Caller,
         Tables!WriteAPI(c) \/ \E a \in Api, p \in Policy : Tables!AttachPolicy(c, a, p)
  PROVE  TablesInv'
  <1>1. CASE Tables!WriteAPI(c)
    <2> DEFINE a == task[c].id
               row == task[c].row
    <2>1. /\ task' = [task EXCEPT ![c] = Tables!Nothing]
          /\ UNCHANGED <<resources, policies, told, doubtful>>
          /\ apis' \in {apis, [apis EXCEPT ![a] = IF @ = None THEN None ELSE row]}
          /\ Tasked(task[c], resources, doubtful) /\ task[c].at = "attach"
      BY <1>1 DEF Tables!WriteAPI, Tables!Ends, Tables!Outcome, TablesInv
    <2>2. a \in Api /\ row \in ApiRow
      BY <2>1 DEF Tasked
    <2> HIDE DEF a, row
    <2>3. /\ apis' \in [Api -> ApiRow \cup {None}]
          /\ \A b \in Api : apis[b] # None => apis'[b] # None
      BY <2>1, <2>2, NoRow DEF TablesInv
    <2>4. Belongs(resources', apis')
      BY <2>1, <2>3 DEF TablesInv, Belongs, Resource
    <2> QED BY <2>1, <2>3, <2>4, TableWritten, NothingTasked DEF TablesInv
  <1>2. ASSUME NEW a \in Api, NEW p \in Policy, Tables!AttachPolicy(c, a, p) PROVE TablesInv'
    <2> DEFINE row == [apis[a] EXCEPT !.throttle = ""]
               k == [at |-> "attach", id |-> a, row |-> row]
    <2>1. /\ task' = [task EXCEPT ![c] = k] /\ UNCHANGED <<apis, resources, policies, told, doubtful>>
          /\ apis[a] # None
      BY <1>2 DEF Tables!AttachPolicy, Tables!Begin
    <2>2. apis[a] \in ApiRow
      BY <2>1 DEF TablesInv
    <2>3. row \in ApiRow
      BY <2>2 DEF ApiRow
    <2> HIDE DEF row
    <2>4. Tasked(k, resources, doubtful')
      BY <2>3 DEF Tasked
    <2> HIDE DEF k
    <2> QED BY <2>1, <2>4, TaskMoves
  <1> QED BY <1>1, <1>2

\* A request is answered.
LEMMA TablesAnswer ==
  ASSUME TablesInv, NEW c \in Caller, Tables!AnswerCreated(c) \/ Tables!AnswerFailed(c) PROVE TablesInv'
  <1>1. /\ task' = [task EXCEPT ![c] = Tables!Nothing]
        /\ UNCHANGED <<apis, resources, policies, doubtful>>
        /\ told' = told \/ (task[c].at = "insert" /\ told' = told \cup task[c].made)
    BY DEF Tables!AnswerCreated, Tables!AnswerFailed, Tables!Ends
  <1>2. Tasked(task[c], resources, doubtful)
    BY DEF TablesInv
  <1>3. \A t \in told' : t \in told \/ StillTold(t, resources, policies, doubtful')
    BY <1>1, <1>2 DEF Tasked, StillTold
  <1> QED BY <1>1, <1>3, TaskMoves, NothingTasked

LEMMA TablesStep == TablesInv /\ [Tables!Next]_Tables!vars => TablesInv'
  <1> SUFFICES ASSUME TablesInv, [Tables!Next]_Tables!vars PROVE TablesInv'
    OBVIOUS
  <1>1. CASE UNCHANGED Tables!vars
    BY <1>1 DEF Tables!vars, TablesInv
  <1>2. ASSUME NEW a \in Api, Tables!Elsewhere(a) PROVE TablesInv'
    BY <1>2, TablesElsewhere
  <1>3. ASSUME NEW c \in Caller, NEW a \in Api,
               \/ \E r \in Creation, i \in Id : Tables!CreateResource(c, a, r, i)
               \/ \E document \in Document :
                    Tables!ImportFromOpenAPI(c, a, document) \/ Tables!ImportFromSwagger2(c, a, document)
               \/ \E t \in apiTemplates : Tables!CreateFromTemplate(c, a, t)
               \/ \E i \in Id : Tables!DeleteResource(c, i, a)
                                  \/ \E r \in Creation : Tables!UpdateResource(c, i, a, r.path)
               \/ \E p \in Policy : Tables!AttachPolicy(c, a, p)
        PROVE  TablesInv'
    <2>2. CASE \E r \in Creation, i \in Id : Tables!CreateResource(c, a, r, i)
      BY <2>2, TablesCreate
    <2>3. CASE \/ \E document \in Document :
                    Tables!ImportFromOpenAPI(c, a, document) \/ Tables!ImportFromSwagger2(c, a, document)
               \/ \E t \in apiTemplates : Tables!CreateFromTemplate(c, a, t)
      BY <2>3, TablesImport
    <2>4. CASE \E i \in Id : Tables!DeleteResource(c, i, a)
                                  \/ \E r \in Creation : Tables!UpdateResource(c, i, a, r.path)
      BY <2>4, TablesAsk
    <2>5. CASE \E p \in Policy : Tables!AttachPolicy(c, a, p)
      BY <2>5, TablesAttach
    <2> QED BY <1>3, <2>2, <2>3, <2>4, <2>5
  <1>4. ASSUME NEW c \in Caller,
               \/ Tables!InsertOne(c) \/ Tables!AnswerCreated(c) \/ Tables!AnswerFailed(c)
               \/ Tables!WriteResource(c) \/ Tables!EraseResource(c) \/ Tables!InsertPolicy(c)
               \/ Tables!WritePolicy(c) \/ Tables!WriteAPI(c)
               \/ Tables!InsertMisread(c) \/ Tables!InsertPolicyMisread(c)
        PROVE  TablesInv'
    BY <1>4, TablesInsert, TablesInsertMisread, TablesAnswer, TablesChange, TablesPolicyWrite,
       TablesPolicyMisread, TablesAttach
  <1>5. ASSUME NEW c \in Caller, NEW p \in Policy,
               \/ Tables!CreatePolicyFromTemplate(c, p)
               \/ \E type \in Type : Tables!CreatePolicy(c, p, type) \/ Tables!UpdatePolicy(c, p, type)
        PROVE  TablesInv'
    BY <1>5, TablesPolicyAsk
  <1>6. ASSUME NEW p \in Policy, Tables!DeletePolicy(p) PROVE TablesInv'
    BY <1>6, TablesPolicyGone
  <1> QED BY <1>1, <1>2, <1>3, <1>4, <1>5, <1>6 DEF Tables!Next

-------------------------------------------------------------------------------
(* Migrations                                                              *)

Numbered == 1 .. Len(Script)
Sent == {"list", "reply", "recorded"}
Going == [at: {"idle", "list", "send", "reply", "record", "recorded"}, todo: Seq(Numbered),
          stmt: Nat \ {0}, down: BOOLEAN]
Replied == [rows: Seq(Numbered), status: {"ok", "exists", "error"}]

\* The statements of a migration up to a number have been executed.
Through(m, n, dn) == \A i \in Nat : 1 <= i /\ i <= n => <<m, i>> \in dn

\* A process waits for one answer, and has executed what it has got through.
Migrating(r, w, a, dn, un) ==
  /\ r \in Going
  /\ a <=> r.at \in Sent
  /\ a => \E x \in Replied : w = <<x>>
  /\ ~a => w = <<>>
  /\ r.at # "idle" => r.todo # <<>>
  /\ ~r.down /\ r.at \in {"send", "reply", "record"} /\ Head(r.todo) \notin un =>
       /\ r.at \in {"send", "reply"} => Through(Head(r.todo), r.stmt - 1, dn)
       /\ r.at = "reply" /\ Head(w).status \in {"ok", "exists"} => <<Head(r.todo), r.stmt>> \in dn
       /\ r.at = "record" => Through(Head(r.todo), Migrations!Ups(Head(r.todo)), dn)

InTurn ==
  /\ migrated \in Seq(Numbered)
  /\ DOMAIN run = Process /\ run = [p \in Process |-> run[p]]
  /\ DOMAIN locked = Process /\ locked = [p \in Process |-> locked[p]]
  /\ DOMAIN asked = Process /\ asked = [p \in Process |-> asked[p]]
  /\ \A p \in Process : Migrating(run[p], locked[p], asked[p], done, undone)
  /\ \A m \in Migrations!Range(migrated) \ undone : Through(m, Migrations!Ups(m), done)

\* As long as no answer was left behind.
MigrationInv == muddled \/ InTurn

LEMMA UpTo == ASSUME NEW n \in Nat PROVE IsFiniteSet(1 .. n) /\ Cardinality(1 .. n) = n
  <1>1. 1 \in Int /\ n \in Int
    OBVIOUS
  <1>2. IsFiniteSet(1 .. n) /\ Cardinality(1 .. n) = IF 1 > n THEN 0 ELSE n - 1 + 1
    BY <1>1, FS_Interval
  <1> QED BY <1>2

LEMMA ScriptsTyped ==
  Len(Script) \in Nat /\ DOMAIN Script = Numbered /\ Migrations!Migration = Numbered
  BY InputsAssumption DEF InputsAssumption, Numbered, Migrations!Migration

\* A script has a number of statements.
LEMMA Counted == ASSUME NEW m \in Numbered PROVE Migrations!Ups(m) \in Nat
  <1> DEFINE s == Script[m]
             before == {i \in DOMAIN s : \A j \in 1 .. i : s[j] # "down"}
             n == Cardinality(before)
             up == SubSeq(s, 1, n)
             ends == {i \in DOMAIN up : Migrations!EndsStatement(up, i)}
  <1>c. \A S : Migrations!Cardinality(S) = Cardinality(S)
    BY DEF Migrations!Cardinality, Cardinality
  <1>1. s \in Seq(Character)
    BY ScriptsTyped, InputsAssumption DEF InputsAssumption
  <1>2. Migrations!splitUpDown(s).up = up
    BY <1>c DEF Migrations!splitUpDown, Migrations!Leading
  <1> HIDE DEF s
  <1>3. n \in Nat /\ n <= Len(s)
    <2>1. before \in SUBSET (1 .. Len(s)) /\ Len(s) \in Nat
      BY <1>1
    <2> HIDE DEF before
    <2>2. IsFiniteSet(1 .. Len(s)) /\ Cardinality(1 .. Len(s)) = Len(s)
      BY <2>1, UpTo
    <2>3. IsFiniteSet(before) /\ Cardinality(before) <= Cardinality(1 .. Len(s))
      BY <2>1, <2>2, FS_Subset
    <2> QED BY <2>2, <2>3, FS_CardinalityType
  <1> HIDE DEF n
  <1>4. up \in Seq(Character)
    BY <1>1, <1>3
  <1> HIDE DEF up
  <1>5. Cardinality(ends) \in Nat
    <2>1. ends \in SUBSET (1 .. Len(up)) /\ Len(up) \in Nat
      BY <1>4
    <2>2. IsFiniteSet(1 .. Len(up))
      BY <2>1, FS_Interval
    <2> QED BY <2>1, <2>2, FS_Subset, FS_CardinalityType
  <1>6. Migrations!splitStatements(up) = Cardinality(ends) + (IF Migrations!Splitter(up, Len(up)).rest THEN 1 ELSE 0)
    BY <1>c DEF Migrations!splitStatements
  <1> HIDE DEF ends
  <1> QED BY <1>2, <1>5, <1>6 DEF Migrations!Ups, s

LEMMA StoppedIsGoing == Migrations!Stopped \in Going /\ Migrations!Stopped.at = "idle"
  BY DEF Migrations!Stopped, Going

LEMMA Resting ==
  ASSUME NEW r, r = Migrations!Stopped, NEW w, w = <<>>, NEW a, ~a, NEW dn, NEW un
  PROVE  Migrating(r, w, a, dn, un)
  <1>1. r \in Going /\ r.at = "idle"
    BY StoppedIsGoing
  <1> QED BY <1>1 DEF Migrating, Sent

LEMMA MigrationStart == Migrations!Init => MigrationInv
  <1> SUFFICES ASSUME Migrations!Init PROVE InTurn
    BY DEF MigrationInv
  <1>1. \A p \in Process : Migrating(run[p], locked[p], asked[p], done, undone)
    <2> TAKE p \in Process
    <2>1. run[p] = Migrations!Stopped /\ locked[p] = <<>> /\ ~asked[p]
      BY DEF Migrations!Init
    <2> QED BY <2>1, Resting
  <1>2. Migrations!Range(migrated) = {}
    <2>1. migrated = <<>>
      BY DEF Migrations!Init
    <2>2. ASSUME NEW m \in Migrations!Range(migrated) PROVE FALSE
      <3>1. m \in {migrated[i] : i \in DOMAIN migrated}
        BY <2>2 DEF Migrations!Range
      <3>2. PICK i \in DOMAIN migrated : m = migrated[i]
        BY ONLY <3>1
      <3>3. migrated \in Seq(Numbered) /\ Len(migrated) = 0
        BY <2>1
      <3>4. i \in 1 .. Len(migrated)
        BY <3>2, <3>3
      <3>5. i \in 1 .. 0
        BY <3>3, <3>4
      <3> QED BY ONLY <3>5, SMT
    <2> QED BY <2>2
  <1>3. /\ DOMAIN run = Process /\ run = [p \in Process |-> run[p]]
        /\ DOMAIN locked = Process /\ locked = [p \in Process |-> locked[p]]
        /\ DOMAIN asked = Process /\ asked = [p \in Process |-> asked[p]]
    BY DEF Migrations!Init
  <1>4. migrated \in Seq(Numbered)
    BY DEF Migrations!Init
  <1> QED BY <1>1, <1>2, <1>3, <1>4 DEF InTurn

LEMMA MigrationKept == MigrationInv => Migrations!RecordedIsDone
  <1> SUFFICES ASSUME InTurn, NEW m \in Migrations!Range(migrated) \ undone,
                      NEW i \in 1 .. Migrations!Ups(m)
               PROVE  <<m, i>> \in done
    BY DEF MigrationInv, Migrations!RecordedIsDone
  <1>1. m \in Numbered
    BY DEF InTurn, Migrations!Range
  <1>2. Migrations!Ups(m) \in Nat
    BY <1>1, Counted
  <1>3. Through(m, Migrations!Ups(m), done)
    BY DEF InTurn
  <1> QED BY <1>2, <1>3 DEF Through

\* A process goes on, and no statement is undone but of a rollback.
LEMMA MigrationMoves ==
  ASSUME InTurn, NEW p \in Process, NEW r, NEW w, NEW a,
         run' = [run EXCEPT ![p] = r], locked' = [locked EXCEPT ![p] = w], asked' = [asked EXCEPT ![p] = a],
         undone \subseteq undone', \A m, i : m \notin undone' /\ <<m, i>> \in done => <<m, i>> \in done',
         Migrating(r, w, a, done', undone'),
         migrated' \in Seq(Numbered),
         \A m \in Migrations!Range(migrated') \ undone' :
           m \in Migrations!Range(migrated) \/ Through(m, Migrations!Ups(m), done')
  PROVE  InTurn'
  <1>1. /\ DOMAIN run' = Process /\ run' = [q \in Process |-> run'[q]]
        /\ DOMAIN locked' = Process /\ locked' = [q \in Process |-> locked'[q]]
        /\ DOMAIN asked' = Process /\ asked' = [q \in Process |-> asked'[q]]
        /\ run'[p] = r /\ locked'[p] = w /\ asked'[p] = a
        /\ \A q \in Process \ {p} : run'[q] = run[q] /\ locked'[q] = locked[q] /\ asked'[q] = asked[q]
    BY DEF InTurn
  <1>2. ASSUME NEW m, NEW n, m \notin undone', Through(m, n, done) PROVE Through(m, n, done')
    BY <1>2 DEF Through
  <1>3. ASSUME NEW q \in Process \ {p} PROVE Migrating(run'[q], locked'[q], asked'[q], done', undone')
    <2>1. Migrating(run[q], locked[q], asked[q], done, undone)
      BY DEF InTurn
    <2>2. run'[q] = run[q] /\ locked'[q] = locked[q] /\ asked'[q] = asked[q]
      BY <1>1
    <2>3. Migrating(run[q], locked[q], asked[q], done', undone')
      BY <1>2, <2>1 DEF Migrating
    <2> QED BY <2>2, <2>3
  <1>4. \A q \in Process : Migrating(run'[q], locked'[q], asked'[q], done', undone')
    BY <1>1, <1>3
  <1>5. \A m \in Migrations!Range(migrated') \ undone' : Through(m, Migrations!Ups(m), done')
    BY <1>2 DEF InTurn
  <1> QED BY <1>1, <1>4, <1>5 DEF InTurn

LEMMA InOrderTyped ==
  ASSUME NEW S \in SUBSET Numbered, NEW todo \in Migrations!InOrder(S) PROVE todo \in Seq(Numbered)
  <1>1. Cardinality(S) \in Nat
    <2>1. IsFiniteSet(Numbered)
      BY ScriptsTyped, UpTo DEF Numbered
    <2> QED BY <2>1, FS_Subset, FS_CardinalityType
  <1>2. Migrations!Cardinality(S) = Cardinality(S)
    BY DEF Migrations!Cardinality, Cardinality
  <1>3. todo \in [1 .. Cardinality(S) -> S]
    BY <1>2 DEF Migrations!InOrder
  <1>4. todo \in [1 .. Cardinality(S) -> Numbered]
    BY <1>3
  <1> QED BY <1>1, <1>4

LEMMA RollbackTyped ==
  ASSUME NEW q \in Seq(Numbered), NEW n \in Nat PROVE Migrations!Rollback(q, n) \in Seq(Numbered)
  <1> DEFINE k == IF n < Len(q) THEN n ELSE Len(q)
             newest == [i \in 1 .. k |-> q[Len(q) - i + 1]]
             good == {i \in DOMAIN newest : \A j \in 1 .. i : Migrations!Downs(newest[j]) > 0}
             h == Cardinality(good)
  <1>2. k \in Nat /\ k <= Len(q) /\ Len(q) \in Nat
    OBVIOUS
  <1> HIDE DEF k
  <1>3. newest \in Seq(Numbered)
    <2>1. \A i \in 1 .. k : q[Len(q) - i + 1] \in Numbered
      BY <1>2
    <2> QED BY <1>2, <2>1
  <1>4. Migrations!Rollback(q, n) = SubSeq(newest, 1, Migrations!Cardinality(good))
    BY DEF Migrations!Rollback, Migrations!Leading, k
  <1> HIDE DEF newest
  <1>5. h \in Nat /\ h <= Len(newest)
    <2>1. good \in SUBSET (1 .. Len(newest)) /\ Len(newest) \in Nat
      BY <1>3
    <2> HIDE DEF good
    <2>2. IsFiniteSet(1 .. Len(newest)) /\ Cardinality(1 .. Len(newest)) = Len(newest)
      BY <2>1, UpTo
    <2>3. IsFiniteSet(good) /\ Cardinality(good) <= Cardinality(1 .. Len(newest))
      BY <2>1, <2>2, FS_Subset
    <2> QED BY <2>2, <2>3, FS_CardinalityType
  <1>6. Migrations!Cardinality(good) = h
    BY DEF Migrations!Cardinality, Cardinality
  <1> HIDE DEF good, h
  <1>7. SubSeq(newest, 1, h) \in Seq(Numbered)
    BY <1>3, <1>5
  <1> QED BY <1>4, <1>6, <1>7

\* What is recorded afterwards was recorded before, or is added.
LEMMA RecordsTyped ==
  ASSUME migrated \in Seq(Numbered), NEW m \in Numbered
  PROVE  /\ Migrations!Without(m) \in Seq(Numbered)
         /\ Migrations!Range(Migrations!Without(m)) \subseteq Migrations!Range(migrated)
         /\ Migrations!With(m) \in Seq(Numbered)
         /\ Migrations!Range(Migrations!With(m)) \subseteq Migrations!Range(migrated) \cup {m}
  <1>1. /\ Migrations!Without(m) \in Seq(Numbered)
        /\ Migrations!Range(Migrations!Without(m)) \subseteq Migrations!Range(migrated)
    <2>1. CASE m \in Migrations!Range(migrated)
      <3> DEFINE i == CHOOSE i \in DOMAIN migrated : migrated[i] = m
                 front == SubSeq(migrated, 1, i - 1)
                 back == SubSeq(migrated, i + 1, Len(migrated))
      <3>1. i \in 1 .. Len(migrated) /\ Len(migrated) \in Nat
        BY <2>1 DEF Migrations!Range
      <3>2. Migrations!Without(m) = front \o back
        BY <2>1 DEF Migrations!Without
      <3> HIDE DEF i
      <3>3. /\ front \in Seq(Numbered) /\ Len(front) = i - 1
            /\ \A j \in 1 .. i - 1 : front[j] = migrated[j]
        BY <3>1
      <3>4. /\ back \in Seq(Numbered) /\ Len(back) = Len(migrated) - i
            /\ \A j \in 1 .. Len(migrated) - i : back[j] = migrated[i + j]
        BY <3>1
      <3> HIDE DEF front, back
      <3>5. front \o back \in Seq(Numbered)
        BY <3>3, <3>4
      <3>6. ASSUME NEW j \in DOMAIN (front \o back) PROVE (front \o back)[j] \in Migrations!Range(migrated)
        <4>1. CASE j <= i - 1
          <5>1. j \in 1 .. i - 1 /\ (front \o back)[j] = front[j] /\ j \in DOMAIN migrated
            BY <3>1, <3>3, <3>4, <3>6, <4>1
          <5> QED BY <3>3, <5>1 DEF Migrations!Range
        <4>2. CASE ~(j <= i - 1)
          <5>1. /\ j - (i - 1) \in 1 .. Len(migrated) - i
                /\ (front \o back)[j] = back[j - (i - 1)] /\ i + (j - (i - 1)) \in DOMAIN migrated
            BY <3>1, <3>3, <3>4, <3>6, <4>2
          <5> QED BY <3>4, <5>1 DEF Migrations!Range
        <4> QED BY <4>1, <4>2
      <3> QED BY <3>2, <3>5, <3>6 DEF Migrations!Range
    <2>2. CASE m \notin Migrations!Range(migrated)
      BY <2>2 DEF Migrations!Without
    <2> QED BY <2>1, <2>2
  <1>2. /\ Migrations!With(m) \in Seq(Numbered)
        /\ Migrations!Range(Migrations!With(m)) \subseteq Migrations!Range(migrated) \cup {m}
    BY DEF Migrations!With, Migrations!Range
  <1> QED BY <1>1, <1>2

\* A step of a process leaves what is recorded executed.
LEMMA MigrationTurns ==
  ASSUME InTurn, NEW p \in Process,
         \/ \E down \in BOOLEAN, target \in Numbered : Migrations!Begin(p, down, target)
         \/ Migrations!List(p) \/ Migrations!Send(p) \/ Migrations!Receive(p)
         \/ Migrations!Record(p) \/ Migrations!Recorded(p)
         \/ Migrations!MissDeadline(p) \/ Migrations!Crash(p)
  PROVE  muddled' \/ InTurn'
  <1> DEFINE r == run[p]
             w == locked[p]
             m == Head(r.todo)
  <1>1. Migrating(r, w, asked[p], done, undone) /\ r \in Going
    BY DEF InTurn, Migrating
  <1>2. /\ migrated \in Seq(Numbered)
        /\ \A n \in Migrations!Range(migrated) \ undone : Through(n, Migrations!Ups(n), done)
    BY DEF InTurn
  \* Steps that neither write nor record anything.
  <1>3. ASSUME NEW q, NEW v, NEW a, run' = [run EXCEPT ![p] = q], locked' = [locked EXCEPT ![p] = v],
               asked' = [asked EXCEPT ![p] = a], UNCHANGED <<done, undone, migrated>>,
               Migrating(q, v, a, done, undone)
        PROVE  InTurn'
    <2>1. Migrating(q, v, a, done', undone')
      BY <1>3
    <2> QED BY <1>2, <1>3, <2>1, MigrationMoves
  <1>4. CASE Migrations!MissDeadline(p)
    BY <1>4 DEF Migrations!MissDeadline
  <1>5. CASE Migrations!Crash(p)
    <2>1. Migrating(Migrations!Stopped, <<>>, FALSE, done, undone)
      BY Resting
    <2>2. /\ run' = [run EXCEPT ![p] = Migrations!Stopped] /\ locked' = [locked EXCEPT ![p] = <<>>]
          /\ asked' = [asked EXCEPT ![p] = FALSE] /\ UNCHANGED <<done, undone, migrated>>
      BY <1>5 DEF Migrations!Crash
    <2> QED BY <1>3, <2>1, <2>2
  \* A request is sent on an empty connection.
  <1>6. ASSUME r.at \notin Sent, NEW answer \in Replied, Migrations!Ask(p, answer)
        PROVE  locked' = [locked EXCEPT ![p] = <<answer>>] /\ asked' = [asked EXCEPT ![p] = TRUE]
    <2>1. w = <<>>
      BY <1>1, <1>6 DEF Migrating
    <2>2. Append(w, answer) = <<answer>>
      BY <2>1
    <2>3. locked' = [locked EXCEPT ![p] = Append(w, answer)] /\ asked' = [asked EXCEPT ![p] = TRUE]
      BY <1>6 DEF Migrations!Ask, InTurn
    <2> HIDE DEF w
    <2> QED BY <2>2, <2>3
  \* And its answer is read from it.
  <1>7. ASSUME r.at \in Sent, Migrations!Read(p)
        PROVE  /\ locked' = [locked EXCEPT ![p] = <<>>] /\ asked' = [asked EXCEPT ![p] = FALSE]
               /\ Head(w) \in Replied /\ Migrations!Answer(p) = Head(w)
    <2>1. PICK x \in Replied : w = <<x>>
      BY <1>1, <1>7 DEF Migrating
    <2>2. Tail(w) = <<>> /\ Head(w) = x
      BY <2>1
    <2>3. locked' = [locked EXCEPT ![p] = Tail(w)] /\ asked' = [asked EXCEPT ![p] = FALSE]
      BY <1>7 DEF Migrations!Read, InTurn
    <2> HIDE DEF w
    <2>4. Migrations!Answer(p) = Head(w)
      BY DEF Migrations!Answer, w
    <2> QED BY <2>2, <2>3, <2>4
  <1>8. ASSUME NEW down \in BOOLEAN, NEW target \in Numbered, Migrations!Begin(p, down, target) PROVE InTurn'
    <2> DEFINE answer == [rows |-> migrated, status |-> "ok"]
               q == [at |-> "list", todo |-> <<target>>, stmt |-> 1, down |-> down]
    <2>1. answer \in Replied
      BY <1>2 DEF Replied
    <2>2. q \in Going /\ q.at = "list" /\ q.todo # <<>>
      <3>1. <<target>> \in Seq(Numbered) /\ <<target>> # <<>>
        OBVIOUS
      <3> QED BY <3>1 DEF Going
    <2> HIDE DEF answer
    <2>3. /\ r.at = "idle" /\ Migrations!Ask(p, answer) /\ run' = [run EXCEPT ![p] = q]
          /\ UNCHANGED <<done, undone, migrated>>
      BY <1>8 DEF Migrations!Begin, answer
    <2>4. locked' = [locked EXCEPT ![p] = <<answer>>] /\ asked' = [asked EXCEPT ![p] = TRUE]
      BY <1>6, <2>1, <2>3 DEF Sent
    <2> HIDE DEF q
    <2>5. Migrating(q, <<answer>>, TRUE, done, undone)
      BY <2>1, <2>2 DEF Migrating, Sent
    <2> QED BY <1>3, <2>3, <2>4, <2>5
  \* The next migration, if any.
  <1>9. ASSUME NEW todo \in Seq(Numbered), NEW down \in BOOLEAN
        PROVE  LET q == IF todo = <<>> THEN Migrations!Stopped
                        ELSE [at |-> "send", todo |-> todo, stmt |-> 1, down |-> down]
               IN  Migrating(q, <<>>, FALSE, done, undone)
    <2>1. CASE todo = <<>>
      BY <2>1, Resting
    <2>2. CASE todo # <<>>
      <3> DEFINE q == [at |-> "send", todo |-> todo, stmt |-> 1, down |-> down]
      <3>1. q \in Going /\ q.at = "send" /\ q.todo = todo /\ q.stmt = 1
        BY DEF Going
      <3>2. \A n : Through(n, 1 - 1, done)
        BY DEF Through
      <3> HIDE DEF q
      <3>3. Migrating(q, <<>>, FALSE, done, undone)
        BY <2>2, <3>1, <3>2 DEF Migrating, Sent
      <3> QED BY <2>2, <3>3 DEF q
    <2> QED BY <2>1, <2>2
  <1>10. ASSUME NEW todo \in Seq(Numbered), NEW down \in BOOLEAN, r.at \in Sent, Migrations!Read(p),
                \/ Migrations!Proceed(p, todo, down)
                \/ run' = [run EXCEPT ![p] = Migrations!Stopped],
                UNCHANGED <<done, undone, migrated>>
         PROVE  InTurn'
    <2>1. locked' = [locked EXCEPT ![p] = <<>>] /\ asked' = [asked EXCEPT ![p] = FALSE]
      BY <1>7, <1>10
    <2>2. CASE run' = [run EXCEPT ![p] = Migrations!Stopped]
      <3>1. Migrating(Migrations!Stopped, <<>>, FALSE, done, undone)
        BY Resting
      <3> QED BY <1>3, <1>10, <2>1, <2>2, <3>1
    <2>3. CASE Migrations!Proceed(p, todo, down)
      <3> DEFINE q == IF todo = <<>> THEN Migrations!Stopped
                      ELSE [at |-> "send", todo |-> todo, stmt |-> 1, down |-> down]
      <3>1. run' = [run EXCEPT ![p] = q]
        BY <2>3 DEF Migrations!Proceed
      <3>2. Migrating(q, <<>>, FALSE, done, undone)
        BY <1>9
      <3> HIDE DEF q
      <3> QED BY <1>3, <1>10, <2>1, <3>1, <3>2
    <2> QED BY <1>10, <2>2, <2>3
  <1>11. CASE Migrations!List(p)
    <2>1. r.at = "list" /\ r.at \in Sent /\ Migrations!Read(p) /\ UNCHANGED <<done, undone, migrated>>
      BY <1>11 DEF Migrations!List, Sent
    <2>2. Head(w) \in Replied /\ Migrations!Answer(p) = Head(w)
      BY <1>7, <2>1
    <2>3. Head(w).rows \in Seq(Numbered) /\ r.down \in BOOLEAN /\ r.todo \in Seq(Numbered)
      BY <1>1, <2>2 DEF Replied, Going
    <2>4. ASSUME NEW todo \in Migrations!InOrder(Migrations!Pending(Head(w).rows, r.todo[1]))
          PROVE  todo \in Seq(Numbered)
      <3>1. Migrations!Pending(Head(w).rows, r.todo[1]) \in SUBSET Numbered
        BY ScriptsTyped DEF Migrations!Pending
      <3> QED BY <2>4, <3>1, InOrderTyped
    <2>5. CASE Migrations!Answer(p).status = "ok"
      <3>1. PICK todo \in IF r.down THEN {Migrations!Rollback(Head(w).rows, r.todo[1])}
                          ELSE Migrations!InOrder(Migrations!Pending(Head(w).rows, r.todo[1])) :
              Migrations!Proceed(p, todo, r.down)
        BY <1>11, <2>2, <2>5 DEF Migrations!List
      <3>2. CASE ~r.down
        BY <1>10, <2>1, <2>3, <2>4, <3>1, <3>2
      <3>3. CASE r.down /\ r.todo[1] \in Nat
        <4>1. todo \in Seq(Numbered)
          BY <2>3, <3>1, <3>3, RollbackTyped
        <4> QED BY <1>10, <2>1, <2>3, <3>1, <4>1
      <3>4. r.todo[1] \in Nat
        <4>1. r.todo # <<>>
          BY <1>1, <2>1 DEF Migrating
        <4>2. r.todo[1] \in Numbered
          BY <2>3, <4>1
        <4> QED BY <4>2 DEF Numbered
      <3> QED BY <3>2, <3>3, <3>4
    <2>6. CASE Migrations!Answer(p).status # "ok"
      <3>1. <<>> \in Seq(Numbered)
        OBVIOUS
      <3>2. run' = [run EXCEPT ![p] = Migrations!Stopped]
        BY <1>11, <2>6 DEF Migrations!List
      <3> QED BY <1>10, <2>1, <2>3, <3>1, <3>2
    <2> QED BY <2>5, <2>6
  <1>12. CASE Migrations!Recorded(p)
    <2>1. /\ r.at = "recorded" /\ r.at \in Sent /\ Migrations!Read(p) /\ UNCHANGED <<done, undone, migrated>>
          /\ Migrations!Proceed(p, Tail(r.todo), r.down) \/ run' = [run EXCEPT ![p] = Migrations!Stopped]
      BY <1>12 DEF Migrations!Recorded, Sent
    <2>2. r.down \in BOOLEAN /\ Tail(r.todo) \in Seq(Numbered)
      <3>1. r.todo \in Seq(Numbered) /\ r.todo # <<>> /\ r.down \in BOOLEAN
        BY <1>1, <2>1 DEF Migrating, Going
      <3> QED BY <3>1
    <2> QED BY <1>10, <2>1, <2>2
  \* A statement is sent, and executed or refused.
  <1>13. CASE Migrations!Send(p)
    <2> DEFINE i == r.stmt
               q == [r EXCEPT !.at = "reply"]
    <2>1. /\ r.at = "send" /\ run' = [run EXCEPT ![p] = q] /\ migrated' = migrated
          /\ undone' = IF r.down THEN undone \cup {m} ELSE undone
      BY <1>13 DEF Migrations!Send, InTurn
    <2>2. /\ q \in Going /\ q.at = "reply" /\ q.todo = r.todo /\ q.stmt = r.stmt /\ q.down = r.down
          /\ r.todo \in Seq(Numbered) /\ r.todo # <<>> /\ r.stmt \in Nat \ {0} /\ r.down \in BOOLEAN
      BY <1>1, <2>1 DEF Going, Migrating
    <2>3. m \in Numbered
      BY <2>2
    <2>4. PICK s \in {"ok", "exists", "error"} :
            /\ Migrations!Ask(p, Migrations!Reply(s))
            /\ \/ s = "ok" /\ r.down /\ done' = done \ {<<m, j>> : j \in 1 .. Migrations!Ups(m)}
               \/ s = "ok" /\ ~r.down /\ done' = done \cup {<<m, i>>}
               \/ s = "exists" /\ <<m, i>> \in done /\ ~r.down /\ done' = done
               \/ s = "error" /\ done' = done
      BY <1>13, <2>2 DEF Migrations!Send
    <2> DEFINE answer == Migrations!Reply(s)
    <2>5. answer \in Replied /\ answer.status = s /\ Head(<<answer>>) = answer
      BY DEF Migrations!Reply, Replied
    <2> HIDE DEF answer, q, i, m
    <2>6. locked' = [locked EXCEPT ![p] = <<answer>>] /\ asked' = [asked EXCEPT ![p] = TRUE]
      BY <1>6, <2>1, <2>4, <2>5 DEF answer, Sent
    <2>7. \A n, j : n \notin undone' /\ <<n, j>> \in done => <<n, j>> \in done'
      <3> SUFFICES ASSUME NEW n, NEW j, n \notin undone', <<n, j>> \in done, r.down,
                          done' = done \ {<<m, k>> : k \in 1 .. Migrations!Ups(m)}
                   PROVE  <<n, j>> \in done'
        BY <2>4
      <3>1. n # m
        BY <2>1
      <3> QED BY <3>1
    <2>8. undone \subseteq undone'
      BY <2>1
    <2>9. ~r.down /\ m \notin undone' =>
            /\ Through(m, r.stmt - 1, done')
            /\ s \in {"ok", "exists"} => <<m, r.stmt>> \in done'
      <3> SUFFICES ASSUME ~r.down, m \notin undone'
                   PROVE  /\ Through(m, r.stmt - 1, done')
                          /\ s \in {"ok", "exists"} => <<m, r.stmt>> \in done'
        OBVIOUS
      <3>1. Through(m, r.stmt - 1, done)
        BY <1>1, <2>1, <2>8 DEF Migrating, m
      <3>2. Through(m, r.stmt - 1, done')
        BY <2>7, <3>1 DEF Through
      <3>3. s \in {"ok", "exists"} => <<m, r.stmt>> \in done'
        BY <2>4 DEF i
      <3> QED BY <3>2, <3>3
    <2>10. Migrating(q, <<answer>>, TRUE, done', undone')
      BY <2>2, <2>5, <2>9 DEF Migrating, Sent, m
    <2>11. \A n \in Migrations!Range(migrated') \ undone' : n \in Migrations!Range(migrated)
      BY <2>1
    <2> QED BY <1>2, <2>1, <2>6, <2>7, <2>8, <2>10, <2>11, MigrationMoves
  \* Its answer is taken for what it is.
  <1>14. CASE Migrations!Receive(p)
    <2> DEFINE n == Migrations!Statements(m, r.down)
               q == IF ~Migrations!Accepted(p) THEN Migrations!Stopped
                    ELSE IF r.stmt < n THEN [r EXCEPT !.at = "send", !.stmt = r.stmt + 1]
                    ELSE [r EXCEPT !.at = "record"]
    <2>1. /\ r.at = "reply" /\ r.at \in Sent /\ Migrations!Read(p) /\ run' = [run EXCEPT ![p] = q]
          /\ UNCHANGED <<done, undone, migrated>>
      <3>1. /\ r.at = "reply" /\ Migrations!Read(p) /\ UNCHANGED <<done, undone, migrated>>
        BY <1>14 DEF Migrations!Receive
      <3>2. run' = [run EXCEPT ![p] = q]
        BY <1>14 DEF Migrations!Receive
      <3> QED BY <3>1, <3>2 DEF Sent
    <2>2. /\ locked' = [locked EXCEPT ![p] = <<>>] /\ asked' = [asked EXCEPT ![p] = FALSE]
          /\ Migrations!Answer(p) = Head(w)
      BY <1>7, <2>1
    <2>3. /\ r.todo \in Seq(Numbered) /\ r.todo # <<>> /\ r.stmt \in Nat \ {0} /\ r.down \in BOOLEAN
          /\ m \in Numbered
      <3>1. /\ r.todo \in Seq(Numbered) /\ r.todo # <<>> /\ r.stmt \in Nat \ {0} /\ r.down \in BOOLEAN
        BY <1>1, <2>1 DEF Going, Migrating
      <3> QED BY <3>1
    <2>4. Migrations!Accepted(p) /\ ~r.down => Head(w).status \in {"ok", "exists"}
      BY <2>2 DEF Migrations!Accepted
    <2>5. Migrations!Accepted(p) /\ ~r.down /\ m \notin undone => Through(m, r.stmt, done)
      <3> SUFFICES ASSUME Migrations!Accepted(p), ~r.down, m \notin undone PROVE Through(m, r.stmt, done)
        OBVIOUS
      <3>1. Through(m, r.stmt - 1, done) /\ <<m, r.stmt>> \in done
        BY <1>1, <2>1, <2>4 DEF Migrating
      <3> HIDE DEF m
      <3> QED BY <2>3, <3>1 DEF Through
    <2>6. ~r.down => n = Migrations!Ups(m)
      BY DEF Migrations!Statements
    <2>7. Migrations!Ups(m) \in Nat
      BY <2>3, Counted
    <2> HIDE DEF n
    <2>8. CASE ~Migrations!Accepted(p)
      <3>1. Migrating(q, <<>>, FALSE, done, undone)
        BY <2>8, Resting
      <3> HIDE DEF q
      <3> QED BY <1>3, <2>1, <2>2, <3>1
    <2>9. CASE Migrations!Accepted(p) /\ r.stmt < n
      <3>1. q = [r EXCEPT !.at = "send", !.stmt = r.stmt + 1]
        BY <2>9
      <3>2. /\ q \in Going /\ q.at = "send" /\ q.todo = r.todo /\ q.down = r.down /\ q.stmt = r.stmt + 1
            /\ q.stmt - 1 = r.stmt
        <4>1. r \in Going
          BY <1>1 DEF Migrating
        <4>2. r.stmt + 1 \in Nat \ {0} /\ r.stmt + 1 - 1 = r.stmt
          BY <2>3
        <4> HIDE DEF q, r
        <4>3. q.at = "send" /\ q.todo = r.todo /\ q.down = r.down /\ q.stmt = r.stmt + 1
          BY ONLY <3>1, <4>1 DEF Going
        <4>4. q \in Going
          <5>1. "send" \in {"idle", "list", "send", "reply", "record", "recorded"}
            OBVIOUS
          <5> QED BY ONLY <3>1, <4>1, <4>2, <5>1 DEF Going
        <4>5. q.stmt - 1 = r.stmt
          BY <2>3, <4>3
        <4> QED BY <4>3, <4>4, <4>5
      <3> HIDE DEF q
      <3>3. Migrating(q, <<>>, FALSE, done, undone)
        BY <2>3, <2>5, <2>9, <3>2 DEF Migrating, Sent
      <3> QED BY <1>3, <2>1, <2>2, <3>3
    <2>10. CASE Migrations!Accepted(p) /\ ~(r.stmt < n)
      <3>1. q = [r EXCEPT !.at = "record"]
        BY <2>10
      <3>2. q \in Going /\ q.at = "record" /\ q.todo = r.todo /\ q.down = r.down
        BY <1>1, <3>1 DEF Going
      <3> HIDE DEF q
      <3>3. ~r.down /\ m \notin undone => Through(m, Migrations!Ups(m), done)
        <4> HIDE DEF m
        <4> QED BY <2>3, <2>5, <2>6, <2>7, <2>10 DEF Through
      <3>4. Migrating(q, <<>>, FALSE, done, undone)
        BY <2>3, <3>2, <3>3 DEF Migrating, Sent
      <3> QED BY <1>3, <2>1, <2>2, <3>4
    <2> QED BY <2>8, <2>9, <2>10
  \* The migration is recorded, or its record is doubtful.
  <1>15. CASE Migrations!Record(p)
    <2> DEFINE q == [r EXCEPT !.at = "recorded"]
    <2>1. /\ r.at = "record" /\ r.at \notin Sent /\ run' = [run EXCEPT ![p] = q]
          /\ UNCHANGED <<done, undone>>
          /\ migrated' \in {migrated, IF r.down THEN Migrations!Without(m) ELSE Migrations!With(m)}
      BY <1>15 DEF Migrations!Record, InTurn, Sent
    <2>2. PICK s \in {"ok", "error"} : Migrations!Ask(p, Migrations!Reply(s))
      BY <1>15 DEF Migrations!Record
    <2>3. q \in Going /\ q.at = "recorded" /\ q.todo = r.todo /\ r.todo # <<>> /\ r.todo \in Seq(Numbered)
      BY <1>1, <2>1 DEF Going, Migrating
    <2>4. m \in Numbered
      BY <2>3
    <2> DEFINE answer == Migrations!Reply(s)
    <2>5. answer \in Replied
      BY DEF Migrations!Reply, Replied
    <2> HIDE DEF answer, q
    <2>6. locked' = [locked EXCEPT ![p] = <<answer>>] /\ asked' = [asked EXCEPT ![p] = TRUE]
      BY <1>6, <2>1, <2>2, <2>5 DEF answer
    <2>7. Migrating(q, <<answer>>, TRUE, done, undone)
      BY <2>3, <2>5 DEF Migrating, Sent
    <2>8. ~r.down /\ m \notin undone => Through(m, Migrations!Ups(m), done)
      BY <1>1, <2>1 DEF Migrating
    <2> HIDE DEF m
    <2>9. /\ migrated' \in Seq(Numbered)
          /\ \A n \in Migrations!Range(migrated') :
               n \in Migrations!Range(migrated) \/ (~r.down /\ n = m)
      BY <1>2, <2>1, <2>4, RecordsTyped
    <2>10. \A n \in Migrations!Range(migrated') \ undone' :
             n \in Migrations!Range(migrated) \/ Through(n, Migrations!Ups(n), done')
      BY <2>1, <2>8, <2>9
    <2>11. Migrating(q, <<answer>>, TRUE, done', undone')
      BY <2>1, <2>7
    <2> QED BY <2>1, <2>6, <2>9, <2>10, <2>11, MigrationMoves
  <1> QED BY <1>4, <1>5, <1>8, <1>11, <1>12, <1>13, <1>14, <1>15

LEMMA MigrationStep == MigrationInv /\ [Migrations!Next]_Migrations!vars => MigrationInv'
  <1> SUFFICES ASSUME MigrationInv, [Migrations!Next]_Migrations!vars PROVE MigrationInv'
    OBVIOUS
  <1>1. CASE UNCHANGED Migrations!vars
    BY <1>1 DEF Migrations!vars, MigrationInv, InTurn
  <1>2. ASSUME NEW p \in Process,
               \/ \E down \in BOOLEAN, target \in Migrations!Migration : Migrations!Begin(p, down, target)
               \/ Migrations!List(p) \/ Migrations!Send(p) \/ Migrations!Receive(p)
               \/ Migrations!Record(p) \/ Migrations!Recorded(p)
               \/ Migrations!MissDeadline(p) \/ Migrations!Crash(p)
        PROVE  MigrationInv'
    <2>1. CASE muddled
      BY <1>2, <2>1 DEF MigrationInv, Migrations!Begin, Migrations!List, Migrations!Send, Migrations!Receive,
         Migrations!Record, Migrations!Recorded, Migrations!MissDeadline, Migrations!Crash
    <2>2. CASE InTurn
      <3>1. Migrations!Migration = Numbered
        BY ScriptsTyped
      <3>2. muddled' \/ InTurn'
        BY <1>2, <2>2, <3>1, MigrationTurns
      <3> QED BY <3>2 DEF MigrationInv
    <2> QED BY <2>1, <2>2 DEF MigrationInv
  <1> QED BY <1>1, <1>2 DEF Migrations!Next

-------------------------------------------------------------------------------
(* The SQL store                                                           *)

Row == [mark: {"a", "b"}, count: Nat]
Statement == [op: {"insert", "update", "delete", "upsert", "unknown", "select"}, keys: SUBSET RowKey,
              mark: {"a", "b"}, tolerate: {"none", "duplicate", "all"}]

\* What is refused is about one row, and what may be refused is told.
Sound(s) ==
  /\ s \in Statement
  /\ s.op = "insert" => \E k \in RowKey : s.keys = {k}
  /\ s.op = "select" => s.keys = {}

\* A counter is incremented by one statement.
Counting(d) == \E u \in Statement : u.op = "upsert" /\ d.todo = <<u>> /\ d.meant = {u}

Executing(d) ==
  /\ d.todo \in Seq(Statement) /\ Len(d.todo) \in {1, 2}
  /\ \A i \in 1 .. Len(d.todo) : Sound(d.todo[i]) /\ d.todo[i].keys \subseteq SqlStore!Touched(d.meant)
  /\ d.meant \in SUBSET Statement
  /\ \A s \in d.meant : s.op = "upsert" => Counting(d)

\* What the statements still to execute make of a row.
After(row, todo, k) ==
  IF Len(todo) = 1 THEN SqlStore!Effect(row, todo[1], k)
  ELSE SqlStore!Effect(SqlStore!Effect(row, todo[1], k), todo[2], k)

On(d, k) == k \in SqlStore!Touched(d.meant)

\* A row without failed or overlapping calls: each call will make of it what it
\* means to, two calls on it only count, and calls that count do not disturb it.
Straight(k, row, made, D) ==
  /\ \A c \in Caller : On(D[c], k) => After(row, D[c].todo, k) = SqlStore!Outcome(made, D[c].meant, k)
  /\ \A c, d \in Caller : c # d /\ On(D[c], k) /\ On(D[d], k) => Counting(D[c]) /\ Counting(D[d])
  /\ (\A c \in Caller : On(D[c], k) => Counting(D[c])) => row = made

SqlInv ==
  /\ rows \in [RowKey -> Row \cup {None}] /\ expect \in [RowKey -> Row \cup {None}]
  /\ doing \in [Caller -> [todo: Seq(Statement), attempt: Nat, meant: SUBSET Statement]]
  /\ \A c \in Caller : doing[c] # SqlStore!Free => Executing(doing[c])
  /\ \A s \in late : Sound(s) /\ s.keys \subseteq unsure
  /\ \A k \in RowKey \ (unsure \cup clashed) : Straight(k, rows[k], expect[k], doing)

LEMMA NotARow == None \notin Row
  BY AbsenceAssumption DEF Row

\* A statement makes a row of a row.
LEMMA EffectTyped ==
  ASSUME NEW row \in Row \cup {None}, NEW s \in Statement, NEW k
  PROVE  SqlStore!Effect(row, s, k) \in Row \cup {None}
  <1>1. s.mark \in {"a", "b"}
    BY DEF Statement
  <1>2. CASE row = None
    BY <1>1, <1>2 DEF SqlStore!Effect, Row
  <1>3. CASE row \in Row
    <2>1. row.mark \in {"a", "b"} /\ row.count \in Nat /\ row.count + 1 \in Nat
      BY <1>3 DEF Row
    <2>2. \A m \in {"a", "b"}, n \in Nat : [mark |-> m, count |-> n] \in Row
      BY DEF Row
    <2>3. row # None
      BY <1>3, NotARow
    <2> QED BY <1>1, <2>1, <2>2, <2>3 DEF SqlStore!Effect
  <1> QED BY <1>2, <1>3

\* A refused statement makes nothing of any row.
LEMMA RefusedIdle ==
  ASSUME NEW T, NEW s, Sound(s), SqlStore!Refused(T, s), NEW k
  PROVE  SqlStore!Effect(T[k], s, k) = T[k]
  <1>1. CASE s.op = "insert"
    <2>1. PICK j \in RowKey : s.keys = {j}
      BY <1>1 DEF Sound
    <2>2. T[j] # None
      BY <1>1, <2>1 DEF SqlStore!Refused
    <2> QED BY <1>1, <2>1, <2>2 DEF SqlStore!Effect
  <1>2. CASE s.op = "unknown"
    BY <1>2 DEF SqlStore!Effect
  <1> QED BY <1>1, <1>2 DEF SqlStore!Refused

\* A statement leaves the rows alone that it is not about.
LEMMA EffectElsewhere ==
  ASSUME NEW row, NEW s, NEW k, k \notin s.keys PROVE SqlStore!Effect(row, s, k) = row
  BY DEF SqlStore!Effect

LEMMA OutcomeElsewhere ==
  ASSUME NEW row, NEW M, NEW k, k \notin SqlStore!Touched(M) PROVE SqlStore!Outcome(row, M, k) = row
  BY DEF SqlStore!Outcome, SqlStore!Touched

LEMMA OutcomeTyped ==
  ASSUME NEW row \in Row \cup {None}, NEW M \in SUBSET Statement, NEW k
  PROVE  SqlStore!Outcome(row, M, k) \in Row \cup {None}
  <1>1. CASE \E s \in M : k \in s.keys
    <2> DEFINE s == CHOOSE s \in M : k \in s.keys
    <2>1. s \in M
      BY <1>1
    <2>2. SqlStore!Outcome(row, M, k) = SqlStore!Effect(row, s, k)
      BY <1>1 DEF SqlStore!Outcome
    <2> HIDE DEF s
    <2> QED BY <2>1, <2>2, EffectTyped
  <1>2. CASE ~(\E s \in M : k \in s.keys)
    BY <1>2 DEF SqlStore!Outcome
  <1> QED BY <1>1, <1>2

\* What a call that counts makes of a row is what it means.
LEMMA CountingMeans ==
  ASSUME NEW d, Counting(d), NEW row, NEW k PROVE After(row, d.todo, k) = SqlStore!Outcome(row, d.meant, k)
  <1>1. PICK u \in Statement : u.op = "upsert" /\ d.todo = <<u>> /\ d.meant = {u}
    BY DEF Counting
  <1>2. After(row, d.todo, k) = SqlStore!Effect(row, u, k)
    <2>1. Len(d.todo) = 1 /\ d.todo[1] = u
      BY <1>1
    <2> QED BY <2>1 DEF After
  <1>3. CASE k \in u.keys
    <2>1. (CHOOSE s \in {u} : k \in s.keys) = u
      BY <1>3
    <2> QED BY <1>1, <1>2, <1>3, <2>1 DEF SqlStore!Outcome
  <1>4. CASE k \notin u.keys
    <2>1. SqlStore!Outcome(row, d.meant, k) = row
      BY <1>1, <1>4 DEF SqlStore!Outcome
    <2> QED BY <1>2, <1>4, <2>1, EffectElsewhere
  <1> QED BY <1>3, <1>4

\* What a caller does elsewhere leaves a row straight, and so does another attempt.
LEMMA StraightElsewhere ==
  ASSUME NEW k, NEW row, NEW made, NEW D, NEW E, Straight(k, row, made, D), NEW c \in Caller,
         \A d \in Caller \ {c} : E[d] = D[d],
         \/ ~On(D[c], k) /\ ~On(E[c], k)
         \/ E[c].todo = D[c].todo /\ E[c].meant = D[c].meant
  PROVE  Straight(k, row, made, E)
  <1>1. CASE ~On(D[c], k) /\ ~On(E[c], k)
    <2>1. \A d \in Caller : On(E[d], k) => E[d] = D[d] /\ On(D[d], k)
      BY <1>1
    <2>2. \A d \in Caller : On(D[d], k) => E[d] = D[d] /\ On(E[d], k)
      BY <1>1
    <2> QED BY <2>1, <2>2 DEF Straight
  <1>2. CASE E[c].todo = D[c].todo /\ E[c].meant = D[c].meant
    <2>1. \A d \in Caller : E[d].todo = D[d].todo /\ E[d].meant = D[d].meant
      BY <1>2
    <2>2. \A d \in Caller : (On(E[d], k) <=> On(D[d], k)) /\ (Counting(E[d]) <=> Counting(D[d]))
      BY <2>1 DEF On, Counting
    <2> QED BY <2>1, <2>2 DEF Straight
  <1> QED BY <1>1, <1>2

LEMMA TwoInARow ==
  ASSUME NEW S, NEW t \in Seq(S), Len(t) = 2 PROVE Len(Tail(t)) = 1 /\ Tail(t)[1] = t[2]
  <1>1. t # <<>> /\ t = <<t[1], t[2]>>
    OBVIOUS
  <1>2. Len(Tail(t)) = 1
    BY <1>1
  <1>3. Tail(<<t[1], t[2]>>) = <<t[2]>>
    OBVIOUS
  <1> QED BY <1>1, <1>2, <1>3

\* The first of two statements is executed.
LEMMA StraightNext ==
  ASSUME NEW k, NEW row, NEW made, NEW D, NEW E, Straight(k, row, made, D), NEW c \in Caller,
         \A d \in Caller \ {c} : E[d] = D[d],
         On(D[c], k), Executing(D[c]), Len(D[c].todo) = 2,
         E[c].todo = Tail(D[c].todo), E[c].meant = D[c].meant
  PROVE  Straight(k, SqlStore!Effect(row, D[c].todo[1], k), made, E)
  <1> DEFINE new == SqlStore!Effect(row, D[c].todo[1], k)
  <1>1. ~Counting(D[c])
    <2> SUFFICES ASSUME Counting(D[c]) PROVE FALSE
      OBVIOUS
    <2>1. PICK u \in Statement : D[c].todo = <<u>>
      BY DEF Counting
    <2>2. Len(D[c].todo) = 1
      BY <2>1
    <2> QED BY <2>2
  <1>2. ~Counting(E[c])
    <2> SUFFICES ASSUME Counting(E[c]) PROVE FALSE
      OBVIOUS
    <2>1. PICK u \in Statement : u.op = "upsert" /\ E[c].meant = {u}
      BY DEF Counting
    <2>2. u \in D[c].meant
      BY <2>1
    <2> QED BY <1>1, <2>1, <2>2 DEF Executing
  <1>3. \A d \in Caller \ {c} : ~On(D[d], k) /\ ~On(E[d], k)
    BY <1>1 DEF Straight
  <1>4. On(E[c], k)
    BY DEF On
  <1>5. After(new, E[c].todo, k) = After(row, D[c].todo, k)
    <2> DEFINE t == D[c].todo
    <2>1. t \in Seq(Statement) /\ Len(t) = 2
      BY DEF Executing
    <2> HIDE DEF t
    <2>2. Len(Tail(t)) = 1 /\ Tail(t)[1] = t[2]
      BY <2>1, TwoInARow
    <2>3. E[c].todo = Tail(t) /\ new = SqlStore!Effect(row, t[1], k)
      BY DEF t
    <2> HIDE DEF new
    <2>4. After(new, Tail(t), k) = SqlStore!Effect(new, t[2], k)
      BY <2>2 DEF After
    <2>5. After(row, t, k) = SqlStore!Effect(SqlStore!Effect(row, t[1], k), t[2], k)
      BY <2>1 DEF After
    <2> QED BY <2>3, <2>4, <2>5 DEF t
  <1> HIDE DEF new
  <1>6. Straight(k, new, made, E)
    BY <1>2, <1>3, <1>4, <1>5 DEF Straight
  <1> QED BY <1>6 DEF new

\* The last one is executed, and the call has ended.
LEMMA StraightEnd ==
  ASSUME NEW k, NEW row, NEW made, NEW D, NEW E, Straight(k, row, made, D), NEW c \in Caller,
         \A d \in Caller \ {c} : E[d] = D[d],
         On(D[c], k), Len(D[c].todo) = 1, E[c] = SqlStore!Free
  PROVE  Straight(k, SqlStore!Effect(row, D[c].todo[1], k), SqlStore!Outcome(made, D[c].meant, k), E)
  <1> DEFINE new == SqlStore!Effect(row, D[c].todo[1], k)
  <1>1. After(row, D[c].todo, k) = new
    BY DEF After
  <1>2. new = SqlStore!Outcome(made, D[c].meant, k)
    BY <1>1 DEF Straight
  <1>3. ~On(E[c], k)
    BY DEF On, SqlStore!Free, SqlStore!Touched
  <1>4. \A d \in Caller \ {c} : On(D[d], k) => Counting(D[d])
    BY DEF Straight
  <1> HIDE DEF new
  <1>5. ASSUME NEW d \in Caller, On(E[d], k) PROVE Counting(E[d])
    BY <1>3, <1>4, <1>5
  <1>6. ASSUME NEW d \in Caller, On(E[d], k) PROVE After(new, E[d].todo, k) = SqlStore!Outcome(new, E[d].meant, k)
    BY <1>5, <1>6, CountingMeans
  <1>7. Straight(k, new, new, E)
    BY <1>5, <1>6 DEF Straight
  <1> QED BY <1>2, <1>7 DEF new

\* A call begins that is about the row, and disturbs no other.
LEMMA StraightBegin ==
  ASSUME NEW k, NEW row, NEW made, NEW D, NEW E, Straight(k, row, made, D), NEW c \in Caller,
         \A d \in Caller \ {c} : E[d] = D[d] /\ (On(D[d], k) => Executing(D[d])),
         D[c] = SqlStore!Free, Executing(E[c]),
         \A d \in Caller \ {c} : \A s \in E[c].meant, t \in D[d].meant :
           k \in s.keys \cap t.keys => ~SqlStore!Disturbs(s, t),
         After(made, E[c].todo, k) = SqlStore!Outcome(made, E[c].meant, k)
  PROVE  Straight(k, row, made, E)
  <1>1. ~On(D[c], k)
    BY DEF On, SqlStore!Free, SqlStore!Touched
  <1>2. ASSUME NEW d \in Caller \ {c}, On(E[c], k), On(D[d], k) PROVE Counting(E[c]) /\ Counting(D[d])
    <2>1. PICK s \in E[c].meant : k \in s.keys
      BY <1>2 DEF On, SqlStore!Touched
    <2>2. PICK t \in D[d].meant : k \in t.keys
      BY <1>2 DEF On, SqlStore!Touched
    <2>3. s.op = "upsert" /\ t.op = "upsert"
      BY <2>1, <2>2 DEF SqlStore!Disturbs
    <2>4. Executing(D[d])
      BY <1>2
    <2> QED BY <2>1, <2>2, <2>3, <2>4 DEF Executing
  <1>3. CASE On(E[c], k)
    <2>1. \A d \in Caller : On(D[d], k) => Counting(D[d])
      BY <1>1, <1>2, <1>3
    <2>2. row = made
      BY <2>1 DEF Straight
    <2>3. \A d \in Caller : On(E[d], k) => After(row, E[d].todo, k) = SqlStore!Outcome(made, E[d].meant, k)
      BY <2>2 DEF Straight
    <2>4. \A d \in Caller \ {c} : On(E[d], k) => Counting(E[d]) /\ Counting(E[c])
      BY <1>2, <1>3
    <2> QED BY <2>2, <2>3, <2>4 DEF Straight
  <1>4. CASE ~On(E[c], k)
    BY <1>1, <1>4, StraightElsewhere
  <1> QED BY <1>3, <1>4

\* The statements of a call make of each row what it means to.
Fit(todo, meant) ==
  /\ todo \in Seq(Statement) /\ meant \in SUBSET Statement
  /\ Executing([todo |-> todo, attempt |-> 0, meant |-> meant])
  /\ \A k \in RowKey : \A row \in Row \cup {None} : After(row, todo, k) = SqlStore!Outcome(row, meant, k)

Starts(c) == \E todo, meant : Fit(todo, meant) /\ SqlStore!Undertake(c, todo, meant)

LEMMA FitOne == ASSUME NEW s, Sound(s) PROVE Fit(<<s>>, {s}) /\ SqlStore!Range(<<s>>) = {s}
  <1> DEFINE d == [todo |-> <<s>>, attempt |-> 0, meant |-> {s}]
  <1>1. s \in Statement
    BY DEF Sound
  <1>2. <<s>> \in Seq(Statement) /\ Len(<<s>>) = 1 /\ <<s>>[1] = s /\ {s} \in SUBSET Statement
    BY <1>1
  <1>3. Executing(d)
    <2>1. d.todo = <<s>> /\ d.meant = {s}
      OBVIOUS
    <2>2. s.keys \subseteq SqlStore!Touched({s})
      BY DEF SqlStore!Touched
    <2>3. s.op = "upsert" => Counting(d)
      BY <1>1, <2>1 DEF Counting
    <2> HIDE DEF d
    <2>4. \A i \in 1 .. Len(d.todo) : d.todo[i] = s
      BY <1>2, <2>1
    <2> QED BY <1>2, <2>1, <2>2, <2>3, <2>4 DEF Executing
  <1>4. ASSUME NEW k \in RowKey, NEW row PROVE After(row, <<s>>, k) = SqlStore!Outcome(row, {s}, k)
    <2>1. After(row, <<s>>, k) = SqlStore!Effect(row, s, k)
      BY <1>2 DEF After
    <2>2. CASE k \in s.keys
      <3>1. (CHOOSE t \in {s} : k \in t.keys) = s
        BY <2>2
      <3> QED BY <2>1, <2>2, <3>1 DEF SqlStore!Outcome
    <2>3. CASE k \notin s.keys
      <3>1. SqlStore!Outcome(row, {s}, k) = row
        BY <2>3 DEF SqlStore!Outcome
      <3> QED BY <2>1, <2>3, <3>1, EffectElsewhere
    <2> QED BY <2>2, <2>3
  <1>5. SqlStore!Range(<<s>>) = {s}
    BY DEF SqlStore!Range
  <1> HIDE DEF d
  <1> QED BY <1>2, <1>3, <1>4, <1>5 DEF Fit, d

\* Two statements about different rows, of which none counts.
LEMMA ExecutingTwo ==
  ASSUME NEW s, NEW t, Sound(s), Sound(t), NEW M \in SUBSET Statement, \A u \in M : u.op # "upsert",
         s.keys \cup t.keys \subseteq SqlStore!Touched(M)
  PROVE  <<s, t>> \in Seq(Statement) /\ Executing([todo |-> <<s, t>>, attempt |-> 0, meant |-> M])
  <1> DEFINE d == [todo |-> <<s, t>>, attempt |-> 0, meant |-> M]
  <1>1. s \in Statement /\ t \in Statement
    BY DEF Sound
  <1>2. <<s, t>> \in Seq(Statement) /\ Len(<<s, t>>) = 2 /\ <<s, t>>[1] = s /\ <<s, t>>[2] = t
    BY <1>1
  <1>3. d.todo = <<s, t>> /\ d.meant = M
    OBVIOUS
  <1> HIDE DEF d
  <1>4. \A i \in 1 .. Len(d.todo) : d.todo[i] = s \/ d.todo[i] = t
    <2> TAKE i \in 1 .. Len(d.todo)
    <2>1. i = 1 \/ i = 2
      BY <1>2, <1>3
    <2> QED BY <1>2, <1>3, <2>1
  <1>5. \A i \in 1 .. Len(d.todo) : Sound(d.todo[i]) /\ d.todo[i].keys \subseteq SqlStore!Touched(M)
    BY <1>4
  <1>6. Executing(d)
    BY <1>2, <1>3, <1>5 DEF Executing
  <1> QED BY <1>2, <1>6 DEF d

LEMMA AfterTwo ==
  ASSUME NEW s, NEW t, NEW row, NEW k
  PROVE  After(row, <<s, t>>, k) = SqlStore!Effect(SqlStore!Effect(row, s, k), t, k)
  <1>1. Len(<<s, t>>) = 2 /\ <<s, t>>[1] = s /\ <<s, t>>[2] = t
    OBVIOUS
  <1> QED BY <1>1 DEF After

\* What a call means to make of a row that one of its statements is about.
LEMMA OutcomeOf ==
  ASSUME NEW M, NEW s \in M, NEW row, NEW k \in s.keys, \A t \in M \ {s} : k \notin t.keys
  PROVE  SqlStore!Outcome(row, M, k) = SqlStore!Effect(row, s, k)
  <1>1. (CHOOSE t \in M : k \in t.keys) = s
    OBVIOUS
  <1> QED BY <1>1 DEF SqlStore!Outcome

LEMMA FitTwo ==
  ASSUME NEW s, NEW t, Sound(s), Sound(t), s.op # "upsert", t.op # "upsert", s.keys \cap t.keys = {}
  PROVE  Fit(<<s, t>>, {s, t}) /\ SqlStore!Range(<<s, t>>) = {s, t}
  <1>1. {s, t} \in SUBSET Statement /\ \A u \in {s, t} : u.op # "upsert"
    BY DEF Sound
  <1>2. s.keys \cup t.keys \subseteq SqlStore!Touched({s, t})
    BY DEF SqlStore!Touched
  <1>3. ASSUME NEW k, NEW row PROVE After(row, <<s, t>>, k) = SqlStore!Outcome(row, {s, t}, k)
    <2>1. CASE k \in s.keys
      <3>1. k \notin t.keys
        BY <2>1
      <3>2. SqlStore!Outcome(row, {s, t}, k) = SqlStore!Effect(row, s, k)
        BY <2>1, <3>1, OutcomeOf
      <3> QED BY <3>1, <3>2, AfterTwo, EffectElsewhere
    <2>2. CASE k \in t.keys
      <3>1. k \notin s.keys
        BY <2>2
      <3>2. SqlStore!Outcome(row, {s, t}, k) = SqlStore!Effect(row, t, k)
        BY <2>2, <3>1, OutcomeOf
      <3> QED BY <3>1, <3>2, AfterTwo, EffectElsewhere
    <2>3. CASE k \notin s.keys /\ k \notin t.keys
      <3>1. SqlStore!Outcome(row, {s, t}, k) = row
        BY <2>3 DEF SqlStore!Outcome
      <3> QED BY <2>3, <3>1, AfterTwo, EffectElsewhere
    <2> QED BY <2>1, <2>2, <2>3
  <1>4. SqlStore!Range(<<s, t>>) = {s, t}
    BY DEF SqlStore!Range
  <1>5. <<s, t>> \in Seq(Statement) /\ Executing([todo |-> <<s, t>>, attempt |-> 0, meant |-> {s, t}])
    BY <1>1, <1>2, ExecutingTwo
  <1> QED BY <1>1, <1>3, <1>4, <1>5 DEF Fit

\* A default is set after the old one is cleared.
LEMMA FitDefault ==
  ASSUME NEW K \in SUBSET RowKey, NEW j \in K,
         NEW s, s = [op |-> "update", keys |-> K, mark |-> "a", tolerate |-> "all"],
         NEW t, t = [op |-> "update", keys |-> {j}, mark |-> "b", tolerate |-> "none"]
  PROVE  Fit(<<s, t>>, {t, [s EXCEPT !.keys = K \ {j}]})
  <1> DEFINE u == [s EXCEPT !.keys = K \ {j}]
  <1>1. Sound(s) /\ Sound(t) /\ s.op = "update" /\ t.op = "update" /\ s.keys = K /\ t.keys = {j}
        /\ s.mark = "a" /\ t.mark = "b"
    BY DEF Sound, Statement
  <1>2. u \in Statement /\ u.op = "update" /\ u.keys = K \ {j} /\ u.mark = "a"
    BY DEF Statement
  <1> HIDE DEF u
  <1>3. {t, u} \in SUBSET Statement /\ \A v \in {t, u} : v.op # "upsert"
    BY <1>1, <1>2 DEF Sound
  <1>4. s.keys \cup t.keys \subseteq SqlStore!Touched({t, u})
    BY <1>1, <1>2 DEF SqlStore!Touched
  <1>5. ASSUME NEW k \in RowKey, NEW row \in Row \cup {None}
        PROVE  After(row, <<s, t>>, k) = SqlStore!Outcome(row, {t, u}, k)
    <2>1. CASE k \in t.keys
      <3>1. k \in s.keys /\ k \in t.keys /\ k \notin u.keys
        BY <1>1, <1>2, <2>1
      <3>2. SqlStore!Outcome(row, {t, u}, k) = SqlStore!Effect(row, t, k)
        <4>1. \A v \in {t, u} \ {t} : k \notin v.keys
          BY <3>1
        <4>2. t \in {t, u}
          OBVIOUS
        <4> QED BY ONLY <3>1, <4>1, <4>2, OutcomeOf
      <3>3. SqlStore!Effect(SqlStore!Effect(row, s, k), t, k) = SqlStore!Effect(row, t, k)
        <4>1. CASE row = None
          BY <1>1, <3>1, <4>1 DEF SqlStore!Effect
        <4>2. CASE row \in Row
          <5>1. row # None /\ row.count \in Nat
            BY <4>2, NotARow DEF Row
          <5>2. SqlStore!Effect(row, s, k) = [mark |-> "a", count |-> row.count]
            BY <1>1, <3>1, <5>1 DEF SqlStore!Effect
          <5>3. [mark |-> "a", count |-> row.count] # None
            BY <5>1, NotARow DEF Row
          <5>4. SqlStore!Effect([mark |-> "a", count |-> row.count], t, k) = [mark |-> "b", count |-> row.count]
            BY <1>1, <3>1, <5>3 DEF SqlStore!Effect
          <5>5. SqlStore!Effect(row, t, k) = [mark |-> "b", count |-> row.count]
            BY <1>1, <3>1, <5>1 DEF SqlStore!Effect
          <5> QED BY <5>2, <5>4, <5>5
        <4> QED BY <4>1, <4>2
      <3>4. After(row, <<s, t>>, k) = SqlStore!Effect(SqlStore!Effect(row, s, k), t, k)
        BY ONLY AfterTwo
      <3> QED BY ONLY <3>2, <3>3, <3>4
    <2>2. CASE k \in s.keys /\ k \notin t.keys
      <3>1. k \in s.keys /\ k \notin t.keys /\ k \in u.keys
        BY <1>1, <1>2, <2>2
      <3>2. SqlStore!Outcome(row, {t, u}, k) = SqlStore!Effect(row, u, k)
        BY <3>1, OutcomeOf
      <3>3. SqlStore!Effect(row, u, k) = SqlStore!Effect(row, s, k)
        BY <1>1, <1>2, <3>1 DEF SqlStore!Effect
      <3> QED BY <3>1, <3>2, <3>3, AfterTwo, EffectElsewhere
    <2>3. CASE k \notin s.keys /\ k \notin t.keys
      <3>1. k \notin s.keys /\ k \notin t.keys /\ k \notin u.keys
        BY <1>1, <1>2, <2>3
      <3>2. SqlStore!Outcome(row, {t, u}, k) = row
        BY <3>1 DEF SqlStore!Outcome
      <3> QED BY <3>1, <3>2, AfterTwo, EffectElsewhere
    <2> QED BY <2>1, <2>2, <2>3
  <1>6. <<s, t>> \in Seq(Statement) /\ Executing([todo |-> <<s, t>>, attempt |-> 0, meant |-> {t, u}])
    BY <1>1, <1>3, <1>4, ExecutingTwo
  <1>7. Fit(<<s, t>>, {t, u})
    BY <1>3, <1>5, <1>6 DEF Fit
  <1> QED BY <1>7 DEF u

LEMMA StartsOne == ASSUME NEW c, NEW s, Sound(s), SqlStore!Begin(c, <<s>>) PROVE Starts(c)
  <1>1. Fit(<<s>>, {s}) /\ SqlStore!Undertake(c, <<s>>, {s})
    BY FitOne DEF SqlStore!Begin
  <1> QED BY <1>1 DEF Starts

LEMMA StartsTwo ==
  ASSUME NEW c, NEW s, NEW t, Sound(s), Sound(t), s.op # "upsert", t.op # "upsert", s.keys \cap t.keys = {},
         SqlStore!Begin(c, <<s, t>>)
  PROVE  Starts(c)
  <1>1. Fit(<<s, t>>, {s, t}) /\ SqlStore!Undertake(c, <<s, t>>, {s, t})
    BY FitTwo DEF SqlStore!Begin
  <1> QED BY <1>1 DEF Starts

\* The statements are sound.
LEMMA Statements ==
  /\ \A k \in RowKey, mark \in {"a", "b"} : Sound(SqlStore!Insert(k, mark)) /\ Sound(SqlStore!Update(k, mark))
  /\ \A k \in RowKey : Sound(SqlStore!Upsert(k)) /\ Sound(SqlStore!Unknown(k)) /\ Sound(SqlStore!Tolerated(k))
  /\ \A K \in SUBSET RowKey : Sound(SqlStore!Erase(K))
  /\ \A tolerate \in {"none", "all"} : Sound(SqlStore!Select(tolerate))
  /\ \A p \in Parent, mark \in {"a", "b"}, tolerate \in {"none", "all"} : Sound(SqlStore!UpdateAll(p, mark, tolerate))
  /\ \A p \in Parent : SqlStore!Children(p) \in SUBSET RowKey
  <1>1. \A p \in Parent : SqlStore!Children(p) \in SUBSET RowKey
    BY DEF SqlStore!Children
  <1>2. \A k \in RowKey : {k} \in SUBSET RowKey
    OBVIOUS
  <1>3. {} \in SUBSET RowKey
    OBVIOUS
  <1>4. ASSUME NEW k \in RowKey, NEW mark \in {"a", "b"}
        PROVE  Sound(SqlStore!Insert(k, mark)) /\ Sound(SqlStore!Update(k, mark))
    BY <1>2 DEF Sound, Statement, SqlStore!Insert, SqlStore!Update
  <1>5. ASSUME NEW k \in RowKey
        PROVE  Sound(SqlStore!Upsert(k)) /\ Sound(SqlStore!Unknown(k)) /\ Sound(SqlStore!Tolerated(k))
    BY <1>2 DEF Sound, Statement, SqlStore!Upsert, SqlStore!Unknown, SqlStore!Tolerated, SqlStore!Insert
  <1>6. ASSUME NEW K \in SUBSET RowKey PROVE Sound(SqlStore!Erase(K))
    BY DEF Sound, Statement, SqlStore!Erase
  <1>7. ASSUME NEW tolerate \in {"none", "all"} PROVE Sound(SqlStore!Select(tolerate))
    BY <1>3 DEF Sound, Statement, SqlStore!Select
  <1>8. ASSUME NEW p \in Parent, NEW mark \in {"a", "b"}, NEW tolerate \in {"none", "all"}
        PROVE  Sound(SqlStore!UpdateAll(p, mark, tolerate))
    BY <1>1 DEF Sound, Statement, SqlStore!UpdateAll
  <1> QED BY <1>1, <1>4, <1>5, <1>6, <1>7, <1>8

LEMMA Kinds ==
  ASSUME NEW c
  PROVE  /\ SqlStore!Create(c) => Starts(c)
         /\ SqlStore!Read(c) => Starts(c)
         /\ SqlStore!Change(c) => Starts(c)
         /\ SqlStore!Delete(c) => Starts(c)
         /\ SqlStore!Page(c) => Starts(c)
         /\ SqlStore!SetDefaultVersion(c) => Starts(c)
         /\ SqlStore!RunMigration(c) => Starts(c)
  <1>1. ASSUME SqlStore!Create(c) PROVE Starts(c)
    <2>1. PICK k \in RowKey, mark \in {"a", "b"} : SqlStore!Begin(c, <<SqlStore!Insert(k, mark)>>)
      BY <1>1 DEF SqlStore!Create, SqlStore!Marks
    <2>2. Sound(SqlStore!Insert(k, mark))
      BY Statements
    <2> QED BY <2>1, <2>2, StartsOne
  <1>2. ASSUME SqlStore!Read(c) PROVE Starts(c)
    <2>1. Sound(SqlStore!Select("none"))
      BY Statements
    <2>2. SqlStore!Begin(c, <<SqlStore!Select("none")>>)
      BY <1>2 DEF SqlStore!Read
    <2> QED BY <2>1, <2>2, StartsOne
  <1>3. ASSUME SqlStore!Change(c) PROVE Starts(c)
    <2>1. PICK k \in RowKey, mark \in {"a", "b"} : SqlStore!Begin(c, <<SqlStore!Update(k, mark)>>)
      BY <1>3 DEF SqlStore!Change, SqlStore!Marks
    <2>2. Sound(SqlStore!Update(k, mark))
      BY Statements
    <2> QED BY <2>1, <2>2, StartsOne
  <1>4. ASSUME SqlStore!Delete(c) PROVE Starts(c)
    <2>1. PICK k \in RowKey : SqlStore!Begin(c, <<SqlStore!Erase({k})>>)
      BY <1>4 DEF SqlStore!Delete
    <2>2. {k} \in SUBSET RowKey
      OBVIOUS
    <2>3. Sound(SqlStore!Erase({k}))
      BY <2>2, Statements
    <2> QED BY <2>1, <2>3, StartsOne
  <1>5. ASSUME SqlStore!Page(c) PROVE Starts(c)
    <2>1. Sound(SqlStore!Select("none")) /\ Sound(SqlStore!Select("all"))
      BY Statements
    <2>2. /\ SqlStore!Select("none").op # "upsert" /\ SqlStore!Select("all").op # "upsert"
          /\ SqlStore!Select("none").keys \cap SqlStore!Select("all").keys = {}
      BY DEF SqlStore!Select
    <2>3. SqlStore!Begin(c, <<SqlStore!Select("none"), SqlStore!Select("all")>>)
      BY <1>5 DEF SqlStore!Page
    <2> QED BY <2>1, <2>2, <2>3, StartsTwo
  <1>6. ASSUME SqlStore!SetDefaultVersion(c) PROVE Starts(c)
    <2>0. PICK p \in Parent : \E k \in SqlStore!Children(p) :
            SqlStore!Undertake(c, SqlStore!SetDefault(p, k),
                               {SqlStore!Update(k, "b"), [SqlStore!UpdateAll(p, "a", "all") EXCEPT !.keys = @ \ {k}]})
      BY <1>6 DEF SqlStore!SetDefaultVersion
    <2> DEFINE s == SqlStore!UpdateAll(p, "a", "all")
               K == SqlStore!Children(p)
    <2>1. PICK k \in K :
            SqlStore!Undertake(c, SqlStore!SetDefault(p, k),
                               {SqlStore!Update(k, "b"), [s EXCEPT !.keys = @ \ {k}]})
      BY <2>0
    <2> DEFINE t == SqlStore!Update(k, "b")
    <2>2. K \in SUBSET RowKey
      BY Statements
    <2>3. /\ s = [op |-> "update", keys |-> K, mark |-> "a", tolerate |-> "all"]
          /\ t = [op |-> "update", keys |-> {k}, mark |-> "b", tolerate |-> "none"]
      BY DEF SqlStore!UpdateAll, SqlStore!Update
    <2>4. SqlStore!SetDefault(p, k) = <<s, t>> /\ [s EXCEPT !.keys = @ \ {k}] = [s EXCEPT !.keys = K \ {k}]
      <3>1. s.keys = K
        BY <2>3
      <3> QED BY <3>1 DEF SqlStore!SetDefault
    <2> HIDE DEF s, t, K
    <2>5. SqlStore!Undertake(c, <<s, t>>, {t, [s EXCEPT !.keys = K \ {k}]})
      BY <2>1, <2>4 DEF t
    <2>6. Fit(<<s, t>>, {t, [s EXCEPT !.keys = K \ {k}]})
      BY <2>2, <2>3, FitDefault
    <2> QED BY <2>5, <2>6 DEF Starts
  <1>7. ASSUME SqlStore!RunMigration(c) PROVE Starts(c)
    <2>1. PICK j, k \in RowKey : j # k /\ SqlStore!Begin(c, <<SqlStore!Tolerated(j), SqlStore!Tolerated(k)>>)
      BY <1>7 DEF SqlStore!RunMigration
    <2>2. Sound(SqlStore!Tolerated(j)) /\ Sound(SqlStore!Tolerated(k))
      BY Statements
    <2>3. /\ SqlStore!Tolerated(j).op # "upsert" /\ SqlStore!Tolerated(k).op # "upsert"
          /\ SqlStore!Tolerated(j).keys \cap SqlStore!Tolerated(k).keys = {}
      BY <2>1 DEF SqlStore!Tolerated, SqlStore!Insert
    <2> QED BY <2>1, <2>2, <2>3, StartsTwo
  <1> QED BY <1>1, <1>2, <1>3, <1>4, <1>5, <1>6, <1>7

\* Whatever a caller begins is such a call.
LEMMA Operations ==
  ASSUME NEW c,
         \/ SqlStore!Tenants(c) \/ SqlStore!Users(c) \/ SqlStore!APIs(c) \/ SqlStore!Resources(c)
         \/ SqlStore!Versions(c) \/ SqlStore!Applications(c) \/ SqlStore!ApplicationKeys(c)
         \/ SqlStore!Subscriptions(c) \/ SqlStore!Clients(c) \/ SqlStore!Tokens(c) \/ SqlStore!APIKeys(c)
         \/ SqlStore!Policies(c) \/ SqlStore!Analytics(c) \/ SqlStore!AuditLog(c) \/ SqlStore!Hooks(c)
         \/ SqlStore!Deliveries(c) \/ SqlStore!Counters(c) \/ SqlStore!Mocks(c) \/ SqlStore!Changelog(c)
         \/ SqlStore!Schemas(c) \/ SqlStore!SchemaMigrations(c)
  PROVE  Starts(c)
  <1>1. CASE SqlStore!Tokens(c)
    <2>1. CASE \E k \in RowKey : SqlStore!Begin(c, <<SqlStore!Insert(k, "a")>>)
      <3>1. PICK k \in RowKey : SqlStore!Begin(c, <<SqlStore!Insert(k, "a")>>)
        BY <2>1
      <3>2. Sound(SqlStore!Insert(k, "a"))
        BY Statements
      <3> QED BY <3>1, <3>2, StartsOne
    <2>2. CASE \E k \in RowKey : SqlStore!Begin(c, <<SqlStore!Update(k, "b")>>)
      <3>1. PICK k \in RowKey : SqlStore!Begin(c, <<SqlStore!Update(k, "b")>>)
        BY <2>2
      <3>2. Sound(SqlStore!Update(k, "b"))
        BY Statements
      <3> QED BY <3>1, <3>2, StartsOne
    <2>3. CASE \E p \in Parent : SqlStore!Begin(c, <<SqlStore!UpdateAll(p, "b", "none")>>)
      <3>1. PICK p \in Parent : SqlStore!Begin(c, <<SqlStore!UpdateAll(p, "b", "none")>>)
        BY <2>3
      <3>2. Sound(SqlStore!UpdateAll(p, "b", "none"))
        BY Statements
      <3> QED BY <3>1, <3>2, StartsOne
    <2>4. CASE SqlStore!Read(c)
      BY <2>4, Kinds
    <2> QED BY <1>1, <2>1, <2>2, <2>3, <2>4 DEF SqlStore!Tokens
  <1>2. ASSUME \E p \in Parent : SqlStore!Begin(c, <<SqlStore!Erase(SqlStore!Children(p))>>) PROVE Starts(c)
    <2>1. PICK p \in Parent : SqlStore!Begin(c, <<SqlStore!Erase(SqlStore!Children(p))>>)
      BY <1>2
    <2>2. Sound(SqlStore!Erase(SqlStore!Children(p)))
      BY Statements
    <2> QED BY <2>1, <2>2, StartsOne
  <1>3. CASE SqlStore!Counters(c)
    <2>1. CASE \E k \in RowKey : SqlStore!Begin(c, <<SqlStore!Upsert(k)>>)
      <3>1. PICK k \in RowKey : SqlStore!Begin(c, <<SqlStore!Upsert(k)>>)
        BY <2>1
      <3>2. Sound(SqlStore!Upsert(k))
        BY Statements
      <3> QED BY <3>1, <3>2, StartsOne
    <2> QED BY <1>2, <1>3, <2>1, Kinds DEF SqlStore!Counters
  <1>4. CASE SqlStore!Mocks(c)
    <2>1. CASE \E k \in RowKey : SqlStore!Begin(c, <<SqlStore!Unknown(k)>>)
      <3>1. PICK k \in RowKey : SqlStore!Begin(c, <<SqlStore!Unknown(k)>>)
        BY <2>1
      <3>2. Sound(SqlStore!Unknown(k))
        BY Statements
      <3> QED BY <3>1, <3>2, StartsOne
    <2> QED BY <1>2, <1>4, <2>1, Kinds DEF SqlStore!Mocks
  <1>5. CASE \/ SqlStore!Tenants(c) \/ SqlStore!Users(c) \/ SqlStore!APIs(c) \/ SqlStore!Resources(c)
             \/ SqlStore!Versions(c) \/ SqlStore!Applications(c) \/ SqlStore!ApplicationKeys(c)
             \/ SqlStore!Subscriptions(c) \/ SqlStore!Clients(c)
    BY <1>5, Kinds
       DEF SqlStore!Tenants, SqlStore!Users, SqlStore!APIs, SqlStore!Resources, SqlStore!Versions,
           SqlStore!Applications, SqlStore!ApplicationKeys, SqlStore!Subscriptions, SqlStore!Clients
  <1>6. CASE \/ SqlStore!APIKeys(c) \/ SqlStore!Policies(c) \/ SqlStore!Analytics(c) \/ SqlStore!AuditLog(c)
             \/ SqlStore!Hooks(c) \/ SqlStore!Deliveries(c) \/ SqlStore!Changelog(c) \/ SqlStore!Schemas(c)
             \/ SqlStore!SchemaMigrations(c)
    BY <1>6, Kinds
       DEF SqlStore!APIKeys, SqlStore!Policies, SqlStore!Analytics, SqlStore!AuditLog, SqlStore!Hooks,
           SqlStore!Deliveries, SqlStore!Changelog, SqlStore!Schemas, SqlStore!SchemaMigrations
  <1> QED BY <1>1, <1>3, <1>4, <1>5, <1>6

Task == [todo: Seq(Statement), attempt: Nat, meant: SUBSET Statement]

LEMMA FreeIsATask == SqlStore!Free \in Task /\ \A k : ~On(SqlStore!Free, k)
  BY DEF Task, SqlStore!Free, On, SqlStore!Touched

\* The rest of the invariant, from what a step does to one caller.
LEMMA SqlMoves ==
  ASSUME SqlInv, NEW c \in Caller, NEW e \in Task, doing' = [doing EXCEPT ![c] = e],
         e # SqlStore!Free => Executing(e),
         rows' \in [RowKey -> Row \cup {None}], expect' \in [RowKey -> Row \cup {None}],
         \A s \in late' : Sound(s) /\ s.keys \subseteq unsure',
         \A E : E[c] = e /\ (\A d \in Caller \ {c} : E[d] = doing[d]) =>
           \A k \in RowKey \ (unsure' \cup clashed') : Straight(k, rows'[k], expect'[k], E)
  PROVE  SqlInv'
  <1>1. doing \in [Caller -> Task]
    BY DEF SqlInv, Task
  <1>2. doing' \in [Caller -> Task] /\ doing'[c] = e /\ \A d \in Caller \ {c} : doing'[d] = doing[d]
    BY <1>1
  <1>3. \A d \in Caller : doing'[d] # SqlStore!Free => Executing(doing'[d])
    BY <1>2 DEF SqlInv
  <1>4. \A k \in RowKey \ (unsure' \cup clashed') : Straight(k, rows'[k], expect'[k], doing')
    BY <1>2
  <1> QED BY <1>2, <1>3, <1>4 DEF SqlInv, Task

LEMMA FirstOfSome ==
  ASSUME NEW S, NEW t \in Seq(S), Len(t) \in {1, 2} PROVE 1 \in 1 .. Len(t) /\ Head(t) = t[1] /\ t # <<>>
  OBVIOUS

LEMMA SqlTyped ==
  ASSUME SqlInv, NEW c \in Caller, doing[c] # SqlStore!Free
  PROVE  /\ doing[c] \in Task /\ Executing(doing[c])
         /\ doing[c].todo \in Seq(Statement) /\ Len(doing[c].todo) \in {1, 2}
         /\ Head(doing[c].todo) = doing[c].todo[1]
         /\ Sound(doing[c].todo[1]) /\ doing[c].todo[1].keys \subseteq SqlStore!Touched(doing[c].meant)
         /\ doing[c].attempt \in Nat /\ doing[c].meant \in SUBSET Statement
  <1>1. doing[c] \in Task /\ Executing(doing[c])
    BY DEF SqlInv, Task
  <1>2. doing[c].todo \in Seq(Statement) /\ doing[c].attempt \in Nat /\ doing[c].meant \in SUBSET Statement
    BY <1>1 DEF Task
  <1>3. Len(doing[c].todo) \in {1, 2}
    BY <1>1 DEF Executing
  <1>4. 1 \in 1 .. Len(doing[c].todo) /\ Head(doing[c].todo) = doing[c].todo[1]
    BY <1>2, <1>3, FirstOfSome
  <1>5. Sound(doing[c].todo[1]) /\ doing[c].todo[1].keys \subseteq SqlStore!Touched(doing[c].meant)
    BY <1>1, <1>4 DEF Executing
  <1> QED BY <1>1, <1>2, <1>3, <1>4, <1>5

\* A call has done with a statement, of which the rows show the effect.
LEMMA SqlProceed ==
  ASSUME SqlInv, NEW c \in Caller, doing[c] # SqlStore!Free, SqlStore!Proceed(c),
         rows' \in [RowKey -> Row \cup {None}], unsure \subseteq unsure', clashed' = clashed,
         \A s \in late' : Sound(s) /\ s.keys \subseteq unsure',
         \A k \in RowKey \ (unsure' \cup clashed') : rows'[k] = SqlStore!Effect(rows[k], doing[c].todo[1], k)
  PROVE  SqlInv'
  <1> DEFINE d == doing[c]
             s == d.todo[1]
             e == IF Len(d.todo) = 2 THEN [todo |-> Tail(d.todo), attempt |-> 0, meant |-> d.meant]
                  ELSE SqlStore!Free
  <1>1. /\ d \in Task /\ Executing(d) /\ d.todo \in Seq(Statement) /\ Len(d.todo) \in {1, 2}
        /\ Sound(s) /\ s.keys \subseteq SqlStore!Touched(d.meant)
        /\ d.attempt \in Nat /\ d.meant \in SUBSET Statement
    BY SqlTyped
  <1>3. doing' = [doing EXCEPT ![c] = e]
    <2>1. CASE Len(d.todo) = 2
      <3>1. Len(d.todo) > 1
        BY <2>1
      <3> QED BY <2>1, <3>1 DEF SqlStore!Proceed
    <2>2. CASE Len(d.todo) = 1
      <3>1. ~(Len(d.todo) > 1)
        BY <2>2
      <3> QED BY <2>2, <3>1 DEF SqlStore!Proceed
    <2> QED BY <1>1, <2>1, <2>2
  <1>4. e \in Task /\ (e # SqlStore!Free => Executing(e))
    <2>1. CASE Len(d.todo) = 2
      <3>1. Tail(d.todo) \in Seq(Statement) /\ Len(Tail(d.todo)) = 1 /\ Tail(d.todo)[1] = d.todo[2]
        <4>1. d.todo # <<>>
          BY <2>1, <1>1
        <4>2. Tail(d.todo) \in Seq(Statement)
          BY <1>1, <4>1
        <4> QED BY <1>1, <2>1, <4>2, TwoInARow
      <3>2. Sound(d.todo[2]) /\ d.todo[2].keys \subseteq SqlStore!Touched(d.meant)
        BY <1>1, <2>1 DEF Executing
      <3>3. \A u \in d.meant : u.op # "upsert"
        <4> SUFFICES ASSUME Counting(d) PROVE FALSE
          BY <1>1 DEF Executing
        <4>1. PICK u \in Statement : d.todo = <<u>>
          BY DEF Counting
        <4>2. Len(d.todo) = 1
          BY <4>1
        <4> QED BY <2>1, <4>2
      <3>4. e.todo = Tail(d.todo) /\ e.meant = d.meant /\ e \in Task
        BY <1>1, <2>1, <3>1 DEF Task
      <3> HIDE DEF e, d
      <3>5. \A i \in 1 .. Len(e.todo) : e.todo[i] = d.todo[2]
        BY <3>1, <3>4
      <3>6. Executing(e)
        BY <1>1, <3>1, <3>2, <3>3, <3>4, <3>5 DEF Executing
      <3> QED BY <3>4, <3>6
    <2>2. CASE Len(d.todo) = 1
      BY <2>2, FreeIsATask
    <2> QED BY <1>1, <2>1, <2>2
  <1>5. /\ Len(d.todo) = 2 => expect' = expect
        /\ Len(d.todo) = 1 => expect' = [k \in RowKey |-> SqlStore!Outcome(expect[k], d.meant, k)]
    <2>1. CASE Len(d.todo) = 2
      <3>1. Len(d.todo) > 1
        BY <2>1
      <3> QED BY <2>1, <3>1 DEF SqlStore!Proceed
    <2>2. CASE Len(d.todo) = 1
      <3>1. ~(Len(d.todo) > 1)
        BY <2>2
      <3>2. expect' = [k \in RowKey |-> SqlStore!Outcome(expect[k], doing[c].meant, k)]
        BY <3>1 DEF SqlStore!Proceed
      <3> QED BY <2>2, <3>2
    <2> QED BY <1>1, <2>1, <2>2
  <1>6. expect' \in [RowKey -> Row \cup {None}]
    <2>1. expect \in [RowKey -> Row \cup {None}]
      BY DEF SqlInv
    <2>2. \A k \in RowKey : SqlStore!Outcome(expect[k], d.meant, k) \in Row \cup {None}
      BY <1>1, <2>1, OutcomeTyped
    <2> HIDE DEF d
    <2> QED BY <1>1, <1>5, <2>1, <2>2
  <1>7. ASSUME NEW E, E[c] = e, \A o \in Caller \ {c} : E[o] = doing[o], NEW k \in RowKey \ (unsure' \cup clashed')
        PROVE  Straight(k, rows'[k], expect'[k], E)
    <2>1. Straight(k, rows[k], expect[k], doing)
      BY DEF SqlInv
    <2>2. rows'[k] = SqlStore!Effect(rows[k], s, k)
      BY <1>7
    <2>3. CASE Len(d.todo) = 2
      <3>1. E[c].todo = Tail(d.todo) /\ E[c].meant = d.meant /\ expect'[k] = expect[k]
        BY <1>5, <1>7, <2>3
      <3>2. CASE On(d, k)
        <4>1. Straight(k, SqlStore!Effect(rows[k], s, k), expect[k], E)
          BY <1>1, <1>7, <2>1, <2>3, <3>1, <3>2, StraightNext
        <4> QED BY <2>2, <3>1, <4>1
      <3>3. CASE ~On(d, k)
        <4>1. rows'[k] = rows[k]
          <5>1. k \notin s.keys
            BY <1>1, <3>3 DEF On
          <5> QED BY <2>2, <5>1, EffectElsewhere
        <4>2. ~On(E[c], k)
          BY <3>1, <3>3 DEF On
        <4>3. Straight(k, rows[k], expect[k], E)
          BY <1>7, <2>1, <3>3, <4>2, StraightElsewhere
        <4> QED BY <3>1, <4>1, <4>3
      <3> QED BY <3>2, <3>3
    <2>4. CASE Len(d.todo) = 1
      <3>1. E[c] = SqlStore!Free /\ expect'[k] = SqlStore!Outcome(expect[k], d.meant, k)
        BY <1>5, <1>7, <2>4
      <3>2. CASE On(d, k)
        <4>1. Straight(k, SqlStore!Effect(rows[k], s, k), SqlStore!Outcome(expect[k], d.meant, k), E)
          BY <1>7, <2>1, <2>4, <3>1, <3>2, StraightEnd
        <4> QED BY <2>2, <3>1, <4>1
      <3>3. CASE ~On(d, k)
        <4>1. rows'[k] = rows[k]
          <5>1. k \notin s.keys
            BY <1>1, <3>3 DEF On
          <5> QED BY <2>2, <5>1, EffectElsewhere
        <4>2. expect'[k] = expect[k]
          BY <3>1, <3>3, OutcomeElsewhere DEF On
        <4>3. ~On(E[c], k)
          BY <3>1, FreeIsATask
        <4>4. Straight(k, rows[k], expect[k], E)
          BY <1>7, <2>1, <3>3, <4>3, StraightElsewhere
        <4> QED BY <4>1, <4>2, <4>4
      <3> QED BY <3>2, <3>3
    <2> QED BY <1>1, <2>3, <2>4
  <1> HIDE DEF e
  <1>8. \A E : E[c] = e /\ (\A o \in Caller \ {c} : E[o] = doing[o]) =>
          \A k \in RowKey \ (unsure' \cup clashed') : Straight(k, rows'[k], expect'[k], E)
    BY <1>7
  <1> QED BY <1>3, <1>4, <1>6, <1>8, SqlMoves

\* A call ends with an error.
LEMMA SqlEnds ==
  ASSUME SqlInv, NEW c \in Caller, doing[c] # SqlStore!Free, doing' = [doing EXCEPT ![c] = SqlStore!Free],
         UNCHANGED <<rows, expect, clashed>>, unsure \cup SqlStore!Touched(doing[c].meant) \subseteq unsure',
         \A s \in late' : Sound(s) /\ s.keys \subseteq unsure'
  PROVE  SqlInv'
  <1>1. rows' \in [RowKey -> Row \cup {None}] /\ expect' \in [RowKey -> Row \cup {None}]
    BY DEF SqlInv
  <1>2. ASSUME NEW E, E[c] = SqlStore!Free, \A d \in Caller \ {c} : E[d] = doing[d],
               NEW k \in RowKey \ (unsure' \cup clashed')
        PROVE  Straight(k, rows'[k], expect'[k], E)
    <2>1. Straight(k, rows[k], expect[k], doing)
      BY DEF SqlInv
    <2>2. ~On(doing[c], k) /\ ~On(E[c], k)
      <3>1. ~On(doing[c], k)
        BY DEF On
      <3> QED BY <1>2, <3>1, FreeIsATask
    <2>3. Straight(k, rows[k], expect[k], E)
      BY <1>2, <2>1, <2>2, StraightElsewhere
    <2> QED BY <2>3
  <1>3. \A E : E[c] = SqlStore!Free /\ (\A d \in Caller \ {c} : E[d] = doing[d]) =>
          \A k \in RowKey \ (unsure' \cup clashed') : Straight(k, rows'[k], expect'[k], E)
    BY <1>2
  <1> QED BY <1>1, <1>3, FreeIsATask, SqlMoves

\* A statement is tried again.
LEMMA SqlRetry ==
  ASSUME SqlInv, NEW c \in Caller, doing[c] # SqlStore!Free,
         doing' = [doing EXCEPT ![c].attempt = @ + 1],
         UNCHANGED <<rows, expect, clashed>>, unsure \subseteq unsure',
         \A s \in late' : Sound(s) /\ s.keys \subseteq unsure'
  PROVE  SqlInv'
  <1> DEFINE d == doing[c]
             e == [d EXCEPT !.attempt = d.attempt + 1]
  <1>1. d \in Task /\ Executing(d)
    BY SqlTyped
  <1>2. e \in Task /\ e.todo = d.todo /\ e.meant = d.meant
    BY <1>1 DEF Task
  <1>3. doing' = [doing EXCEPT ![c] = e]
    OBVIOUS
  <1> HIDE DEF e, d
  <1>4. Executing(e)
    <2>1. Counting(d) => Counting(e)
      BY <1>2 DEF Counting
    <2> QED BY <1>1, <1>2, <2>1 DEF Executing
  <1>5. rows' \in [RowKey -> Row \cup {None}] /\ expect' \in [RowKey -> Row \cup {None}]
    BY DEF SqlInv
  <1>6. ASSUME NEW E, E[c] = e, \A o \in Caller \ {c} : E[o] = doing[o],
               NEW k \in RowKey \ (unsure' \cup clashed')
        PROVE  Straight(k, rows'[k], expect'[k], E)
    <2>1. Straight(k, rows[k], expect[k], doing)
      BY DEF SqlInv
    <2>2. E[c].todo = doing[c].todo /\ E[c].meant = doing[c].meant
      BY <1>2, <1>6 DEF d
    <2>3. Straight(k, rows[k], expect[k], E)
      BY <1>6, <2>1, <2>2, StraightElsewhere
    <2> QED BY <2>3
  <1>7. \A E : E[c] = e /\ (\A o \in Caller \ {c} : E[o] = doing[o]) =>
          \A k \in RowKey \ (unsure' \cup clashed') : Straight(k, rows'[k], expect'[k], E)
    BY <1>6
  <1> QED BY <1>2, <1>3, <1>4, <1>5, <1>7, SqlMoves

\* An attempt fails.
LEMMA SqlAgain ==
  ASSUME SqlInv, NEW c \in Caller, doing[c] # SqlStore!Free, SqlStore!Again(c),
         UNCHANGED <<rows, late, clashed>>
  PROVE  SqlInv'
  <1> DEFINE s == doing[c].todo[1]
  <1>1. /\ Head(doing[c].todo) = s /\ Sound(s) /\ s.keys \subseteq SqlStore!Touched(doing[c].meant)
    BY SqlTyped
  <1>2. rows' \in [RowKey -> Row \cup {None}] /\ rows' = rows
    BY DEF SqlInv
  <1>3. unsure \subseteq unsure' => \A u \in late' : Sound(u) /\ u.keys \subseteq unsure'
    BY DEF SqlInv
  <1>4. CASE doing[c].attempt < maxRetries
    <2>1. doing' = [doing EXCEPT ![c].attempt = @ + 1] /\ UNCHANGED <<expect, unsure>>
      BY <1>4 DEF SqlStore!Again
    <2> QED BY <1>3, <2>1, SqlRetry
  <1>5. CASE /\ ~(doing[c].attempt < maxRetries)
             /\ s.tolerate = "all" \/ (s.tolerate = "duplicate" /\ SqlStore!Refused(rows, s))
    <2>1. SqlStore!Proceed(c) /\ unsure' = IF SqlStore!Refused(rows, s) THEN unsure ELSE unsure \cup s.keys
      BY <1>1, <1>5 DEF SqlStore!Again
    <2>2. ASSUME NEW k \in RowKey \ (unsure' \cup clashed')
          PROVE  rows'[k] = SqlStore!Effect(rows[k], s, k)
      <3>1. CASE SqlStore!Refused(rows, s)
        BY <1>1, <1>2, <3>1, RefusedIdle
      <3>2. CASE ~SqlStore!Refused(rows, s)
        <4>1. k \notin s.keys
          BY <2>1, <3>2
        <4> QED BY <1>2, <4>1, EffectElsewhere
      <3> QED BY <3>1, <3>2
    <2>3. unsure \subseteq unsure'
      BY <2>1
    <2> QED BY <1>2, <1>3, <2>1, <2>2, <2>3, SqlProceed
  <1>6. CASE /\ ~(doing[c].attempt < maxRetries)
             /\ ~(s.tolerate = "all" \/ (s.tolerate = "duplicate" /\ SqlStore!Refused(rows, s)))
    <2>1. /\ doing' = [doing EXCEPT ![c] = SqlStore!Free]
          /\ unsure' = unsure \cup SqlStore!Touched(doing[c].meant) /\ UNCHANGED expect
      BY <1>1, <1>6 DEF SqlStore!Again
    <2> QED BY <1>3, <2>1, SqlEnds
  <1> QED BY <1>4, <1>5, <1>6

\* A call begins.
LEMMA SqlBegins == ASSUME SqlInv, NEW c \in Caller, Starts(c) PROVE SqlInv'
  <1>1. PICK todo, meant : Fit(todo, meant) /\ SqlStore!Undertake(c, todo, meant)
    BY DEF Starts
  <1> DEFINE e == [todo |-> todo, attempt |-> 0, meant |-> meant]
             new == {k \in SqlStore!Touched(meant) : \E other \in Caller \ {c} :
                       \E s \in meant, t \in doing[other].meant :
                          k \in s.keys \cap t.keys /\ SqlStore!Disturbs(s, t)}
  <1>2. /\ doing[c] = SqlStore!Free /\ doing' = [doing EXCEPT ![c] = e] /\ clashed' = clashed \cup new
        /\ UNCHANGED <<rows, late, expect, unsure>>
    BY <1>1 DEF SqlStore!Undertake
  <1>3. Executing(e) /\ e \in Task /\ e.todo = todo /\ e.meant = meant
    BY <1>1 DEF Fit, Task
  <1> HIDE DEF e
  <1>4. /\ rows' \in [RowKey -> Row \cup {None}] /\ expect' \in [RowKey -> Row \cup {None}]
        /\ \A s \in late' : Sound(s) /\ s.keys \subseteq unsure'
    BY <1>2 DEF SqlInv
  <1>5. ASSUME NEW E, E[c] = e, \A o \in Caller \ {c} : E[o] = doing[o],
               NEW k \in RowKey \ (unsure' \cup clashed')
        PROVE  Straight(k, rows'[k], expect'[k], E)
    <2>1. Straight(k, rows[k], expect[k], doing)
      BY <1>2 DEF SqlInv
    <2>2. \A o \in Caller \ {c} : On(doing[o], k) => Executing(doing[o])
      BY FreeIsATask DEF SqlInv
    <2>3. ASSUME NEW o \in Caller \ {c}, NEW s \in meant, NEW t \in doing[o].meant, k \in s.keys \cap t.keys
          PROVE  ~SqlStore!Disturbs(s, t)
      <3>1. k \notin new
        BY <1>2
      <3>2. k \in SqlStore!Touched(meant)
        BY <2>3 DEF SqlStore!Touched
      <3> QED BY <2>3, <3>1, <3>2
    <2> HIDE DEF new
    <2>4. \A o \in Caller \ {c} : \A s \in E[c].meant, t \in doing[o].meant :
            k \in s.keys \cap t.keys => ~SqlStore!Disturbs(s, t)
      BY <1>3, <1>5, <2>3
    <2>5. After(expect[k], E[c].todo, k) = SqlStore!Outcome(expect[k], E[c].meant, k)
      <3>1. expect[k] \in Row \cup {None}
        BY DEF SqlInv
      <3> QED BY <1>1, <1>3, <1>5, <3>1 DEF Fit
    <2>6. Executing(E[c]) /\ \A o \in Caller \ {c} : E[o] = doing[o] /\ (On(doing[o], k) => Executing(doing[o]))
      BY <1>3, <1>5, <2>2
    <2>7. Straight(k, rows[k], expect[k], E)
      BY <1>2, <2>1, <2>4, <2>5, <2>6, StraightBegin
    <2> QED BY <1>2, <2>7
  <1>6. \A E : E[c] = e /\ (\A o \in Caller \ {c} : E[o] = doing[o]) =>
          \A k \in RowKey \ (unsure' \cup clashed') : Straight(k, rows'[k], expect'[k], E)
    BY <1>5
  <1> QED BY <1>2, <1>3, <1>4, <1>6, SqlMoves

LEMMA SqlExecute == ASSUME SqlInv, NEW c \in Caller, SqlStore!Execute(c) PROVE SqlInv'
  <1> DEFINE s == doing[c].todo[1]
  <1>1. /\ doing[c] # SqlStore!Free /\ UNCHANGED <<late, clashed>>
    BY DEF SqlStore!Execute
  <1>2. Head(doing[c].todo) = s /\ Sound(s)
    BY <1>1, SqlTyped
  <1>3. CASE SqlStore!Refused(rows, s)
    <2>1. SqlStore!Again(c) /\ UNCHANGED rows
      BY <1>2, <1>3 DEF SqlStore!Execute
    <2> QED BY <1>1, <2>1, SqlAgain
  <1>4. CASE ~SqlStore!Refused(rows, s)
    <2>1. SqlStore!Proceed(c) /\ rows' = SqlStore!Apply(rows, s) /\ UNCHANGED unsure
      BY <1>2, <1>4 DEF SqlStore!Execute
    <2>2. rows' = [k \in RowKey |-> SqlStore!Effect(rows[k], s, k)]
      BY <2>1 DEF SqlStore!Apply
    <2>3. rows' \in [RowKey -> Row \cup {None}]
      <3>1. rows \in [RowKey -> Row \cup {None}] /\ s \in Statement
        BY <1>2 DEF SqlInv, Sound
      <3>2. \A k \in RowKey : SqlStore!Effect(rows[k], s, k) \in Row \cup {None}
        BY <3>1, EffectTyped
      <3> HIDE DEF s
      <3> QED BY <2>2, <3>2
    <2>4. \A k \in RowKey \ (unsure' \cup clashed') : rows'[k] = SqlStore!Effect(rows[k], s, k)
      BY <2>2
    <2>5. \A u \in late' : Sound(u) /\ u.keys \subseteq unsure'
      BY <1>1, <2>1 DEF SqlInv
    <2> QED BY <1>1, <2>1, <2>3, <2>4, <2>5, SqlProceed
  <1> QED BY <1>3, <1>4

LEMMA SqlFail == ASSUME SqlInv, NEW c \in Caller, SqlStore!Fail(c) PROVE SqlInv'
  <1>1. doing[c] # SqlStore!Free /\ SqlStore!Again(c) /\ UNCHANGED <<rows, late, clashed>>
    BY DEF SqlStore!Fail
  <1> QED BY <1>1, SqlAgain

LEMMA SqlMissDeadline == ASSUME SqlInv, NEW c \in Caller, SqlStore!MissDeadline(c) PROVE SqlInv'
  <1> DEFINE s == doing[c].todo[1]
             again == doing[c].attempt < maxRetries
  <1>1. doing[c] # SqlStore!Free /\ UNCHANGED <<rows, clashed>>
    BY DEF SqlStore!MissDeadline
  <1>2. Head(doing[c].todo) = s /\ Sound(s) /\ s.keys \subseteq SqlStore!Touched(doing[c].meant)
    BY <1>1, SqlTyped
  <1>3. /\ late' = late \cup {s}
        /\ unsure' = unsure \cup IF again THEN s.keys ELSE SqlStore!Touched(doing[c].meant)
    BY <1>2 DEF SqlStore!MissDeadline
  <1>4. unsure \subseteq unsure' /\ s.keys \subseteq unsure'
    BY <1>2, <1>3
  <1>5. \A u \in late' : Sound(u) /\ u.keys \subseteq unsure'
    BY <1>2, <1>3, <1>4 DEF SqlInv
  <1>6. rows' \in [RowKey -> Row \cup {None}]
    BY <1>1 DEF SqlInv
  <1>7. CASE again
    <2>1. doing' = [doing EXCEPT ![c].attempt = @ + 1] /\ UNCHANGED expect
      BY <1>7 DEF SqlStore!MissDeadline
    <2> QED BY <1>1, <1>4, <1>5, <2>1, SqlRetry
  <1>8. CASE ~again /\ s.tolerate = "all"
    <2>1. SqlStore!Proceed(c)
      BY <1>2, <1>8 DEF SqlStore!MissDeadline
    <2>2. ASSUME NEW k \in RowKey \ (unsure' \cup clashed') PROVE rows'[k] = SqlStore!Effect(rows[k], s, k)
      <3>1. k \notin s.keys
        BY <1>4
      <3> QED BY <1>1, <3>1, EffectElsewhere
    <2> QED BY <1>1, <1>4, <1>5, <1>6, <2>1, <2>2, SqlProceed
  <1>9. CASE ~again /\ s.tolerate # "all"
    <2>1. doing' = [doing EXCEPT ![c] = SqlStore!Free] /\ UNCHANGED expect
      BY <1>2, <1>9 DEF SqlStore!MissDeadline
    <2>2. unsure \cup SqlStore!Touched(doing[c].meant) \subseteq unsure'
      BY <1>3, <1>9
    <2> QED BY <1>1, <1>5, <2>1, <2>2, SqlEnds
  <1> QED BY <1>7, <1>8, <1>9

\* An attempt takes another's answer for its own.
LEMMA SqlTakeOther == ASSUME SqlInv, NEW c \in Caller, SqlStore!TakeOther(c) PROVE SqlInv'
  <1> DEFINE s == doing[c].todo[1]
             again == doing[c].attempt < maxRetries
  <1>1. doing[c] # SqlStore!Free /\ UNCHANGED <<rows, clashed>>
    BY DEF SqlStore!TakeOther
  <1>2. Head(doing[c].todo) = s /\ Sound(s) /\ s.keys \subseteq SqlStore!Touched(doing[c].meant)
    BY <1>1, SqlTyped
  <1>3. /\ late' = late \cup {s}
        /\ \/ SqlStore!Proceed(c) /\ unsure' = unsure \cup s.keys
           \/ again /\ doing' = [doing EXCEPT ![c].attempt = @ + 1] /\ UNCHANGED expect
                /\ unsure' = unsure \cup s.keys
           \/ doing' = [doing EXCEPT ![c] = SqlStore!Free] /\ UNCHANGED expect
                /\ unsure' = unsure \cup SqlStore!Touched(doing[c].meant)
    BY <1>2 DEF SqlStore!TakeOther
  <1>4. unsure \subseteq unsure' /\ s.keys \subseteq unsure'
    BY <1>2, <1>3
  <1>5. \A u \in late' : Sound(u) /\ u.keys \subseteq unsure'
    BY <1>2, <1>3, <1>4 DEF SqlInv
  <1>6. rows' \in [RowKey -> Row \cup {None}]
    BY <1>1 DEF SqlInv
  <1>7. CASE SqlStore!Proceed(c)
    <2>1. ASSUME NEW k \in RowKey \ (unsure' \cup clashed') PROVE rows'[k] = SqlStore!Effect(rows[k], s, k)
      <3>1. k \notin s.keys
        BY <1>4
      <3> QED BY <1>1, <3>1, EffectElsewhere
    <2> QED BY <1>1, <1>4, <1>5, <1>6, <1>7, <2>1, SqlProceed
  <1>8. CASE doing' = [doing EXCEPT ![c].attempt = @ + 1] /\ UNCHANGED expect
    BY <1>1, <1>4, <1>5, <1>8, SqlRetry
  <1>9. CASE /\ doing' = [doing EXCEPT ![c] = SqlStore!Free] /\ UNCHANGED expect
             /\ unsure' = unsure \cup SqlStore!Touched(doing[c].meant)
    <2>1. unsure \cup SqlStore!Touched(doing[c].meant) \subseteq unsure'
      BY <1>9
    <2> QED BY <1>1, <1>5, <1>9, <2>1, SqlEnds
  <1> QED BY <1>3, <1>7, <1>8, <1>9

\* What is executed late is about rows nobody is sure of.
LEMMA SqlLate == ASSUME SqlInv, NEW s \in late, SqlStore!ExecuteLate(s) PROVE SqlInv'
  <1>1. late' = late \ {s} /\ rows' = SqlStore!Apply(rows, s) /\ UNCHANGED <<doing, expect, unsure, clashed>>
    BY DEF SqlStore!ExecuteLate
  <1>2. Sound(s) /\ s \in Statement /\ s.keys \subseteq unsure /\ rows \in [RowKey -> Row \cup {None}]
    BY DEF SqlInv, Sound
  <1>3. rows' = [k \in RowKey |-> SqlStore!Effect(rows[k], s, k)]
    BY <1>1 DEF SqlStore!Apply
  <1>4. rows' \in [RowKey -> Row \cup {None}]
    <2>1. \A k \in RowKey : SqlStore!Effect(rows[k], s, k) \in Row \cup {None}
      BY <1>2, EffectTyped
    <2> QED BY <1>3, <2>1
  <1>5. ASSUME NEW k \in RowKey \ (unsure' \cup clashed') PROVE Straight(k, rows'[k], expect'[k], doing')
    <2>1. k \notin s.keys
      BY <1>1, <1>2
    <2>2. rows'[k] = rows[k]
      BY <1>3, <2>1, EffectElsewhere
    <2>3. Straight(k, rows[k], expect[k], doing)
      BY <1>1 DEF SqlInv
    <2> QED BY <1>1, <2>2, <2>3
  <1> QED BY <1>1, <1>4, <1>5 DEF SqlInv

LEMMA SqlStart == SqlStore!Init => SqlInv
  <1> SUFFICES ASSUME SqlStore!Init PROVE SqlInv
    OBVIOUS
  <1>1. rows = [k \in RowKey |-> None] /\ expect = rows /\ late = {}
    BY DEF SqlStore!Init
  <1>2. doing = [c \in Caller |-> SqlStore!Free]
    BY DEF SqlStore!Init
  <1>3. doing \in [Caller -> Task]
    BY <1>2, FreeIsATask
  <1>4. \A k, row : Straight(k, row, row, doing)
    <2>1. \A c \in Caller : \A k : ~On(doing[c], k)
      BY <1>2, FreeIsATask
    <2> QED BY <2>1 DEF Straight
  <1> QED BY <1>1, <1>2, <1>3, <1>4 DEF SqlInv, Task

LEMMA SqlStep == SqlInv /\ [SqlStore!Next]_SqlStore!sqlVars => SqlInv'
  <1> SUFFICES ASSUME SqlInv, [SqlStore!Next]_SqlStore!sqlVars PROVE SqlInv'
    OBVIOUS
  <1>1. CASE SqlStore!Next
    <2>1. CASE \E c \in Caller :
                 \/ SqlStore!Tenants(c) \/ SqlStore!Users(c) \/ SqlStore!APIs(c) \/ SqlStore!Resources(c)
                 \/ SqlStore!Versions(c) \/ SqlStore!Applications(c) \/ SqlStore!ApplicationKeys(c)
                 \/ SqlStore!Subscriptions(c) \/ SqlStore!Clients(c) \/ SqlStore!Tokens(c)
                 \/ SqlStore!APIKeys(c) \/ SqlStore!Policies(c) \/ SqlStore!Analytics(c)
                 \/ SqlStore!AuditLog(c) \/ SqlStore!Hooks(c) \/ SqlStore!Deliveries(c)
                 \/ SqlStore!Counters(c) \/ SqlStore!Mocks(c) \/ SqlStore!Changelog(c)
                 \/ SqlStore!Schemas(c) \/ SqlStore!SchemaMigrations(c)
      <3>1. PICK c \in Caller :
                 \/ SqlStore!Tenants(c) \/ SqlStore!Users(c) \/ SqlStore!APIs(c) \/ SqlStore!Resources(c)
                 \/ SqlStore!Versions(c) \/ SqlStore!Applications(c) \/ SqlStore!ApplicationKeys(c)
                 \/ SqlStore!Subscriptions(c) \/ SqlStore!Clients(c) \/ SqlStore!Tokens(c)
                 \/ SqlStore!APIKeys(c) \/ SqlStore!Policies(c) \/ SqlStore!Analytics(c)
                 \/ SqlStore!AuditLog(c) \/ SqlStore!Hooks(c) \/ SqlStore!Deliveries(c)
                 \/ SqlStore!Counters(c) \/ SqlStore!Mocks(c) \/ SqlStore!Changelog(c)
                 \/ SqlStore!Schemas(c) \/ SqlStore!SchemaMigrations(c)
        BY <2>1
      <3>2. Starts(c)
        BY <3>1, Operations
      <3> QED BY <3>2, SqlBegins
    <2>2. CASE \E c \in Caller : \/ SqlStore!Execute(c) \/ SqlStore!Fail(c)
                                \/ SqlStore!MissDeadline(c) \/ SqlStore!TakeOther(c)
      BY <2>2, SqlExecute, SqlFail, SqlMissDeadline, SqlTakeOther
    <2>3. CASE \E s \in late : SqlStore!ExecuteLate(s)
      BY <2>3, SqlLate
    <2> QED BY <1>1, <2>1, <2>2, <2>3 DEF SqlStore!Next
  <1>2. CASE UNCHANGED SqlStore!sqlVars
    BY <1>2 DEF SqlStore!sqlVars, SqlInv
  <1> QED BY <1>1, <1>2

LEMMA SqlKept == SqlInv => SqlStore!WritesKept
  <1> SUFFICES ASSUME SqlInv, NEW k \in RowKey \ (unsure \cup clashed),
                      \A c \in Caller : k \notin SqlStore!Touched(doing[c].meant)
               PROVE  rows[k] = expect[k]
    BY DEF SqlStore!WritesKept
  <1>1. Straight(k, rows[k], expect[k], doing)
    BY DEF SqlInv
  <1> QED BY <1>1 DEF Straight, On

-------------------------------------------------------------------------------
(* What the runs check of the components, for every value of the constants *)

\* Whatever calls and goroutines are under way when the process is shut down,
\* every audit entry is in the table, in the queue, under way or given up, and a
\* closed logger writes nothing more; no delivery whose goroutine was started
\* outlives the shutdown; the final aggregation has summarised what it read; and
\* the pool and its users account for every connection of the key-value client.
THEOREM ShutdownIsAccounted == ManagementSpec => []ShutdownAccounts
  <1>1. AuditTrail!Spec => []AuditTrail!AuditAccounted
    BY AuditStart, AuditStep, AuditKept, PTL DEF AuditTrail!Spec
  <1>2. Webhooks!Spec => []Webhooks!ShutdownWaits
    BY WebhookStart, WebhookStep, WebhookKept, PTL DEF Webhooks!Spec
  <1>3. Aggregator!AggregatorSpec => []Aggregator!FinalCovers
    BY AggregatorStart, AggregatorStep, AggregatorKept, PTL DEF Aggregator!AggregatorSpec
  <1>4. KvPool!Spec => []KvPool!ConnsAccounted
    BY PoolStart, PoolStep, PoolKept, PTL DEF KvPool!Spec
  <1> QED BY <1>1, <1>2, <1>3, <1>4, Parts, PTL DEF ShutdownAccounts

\* However calls overlap, the deletion of a row is announced at most once; an
\* address gets no more alerts between two cooldowns than checks can overlap and
\* mails were reported as failed although they arrived; and a summary counts
\* events of its API only, with time stamps within the hour it is about, and is
\* the only one of its API and start.
THEOREM ToldOnlyOnce == ManagementSpec => []ToldOnce
  <1>1. GraphQl!Spec => []GraphQl!DeletionsAnnounced
    BY GraphStart, GraphStep, GraphKept, PTL DEF GraphQl!Spec
  <1>2. Alerts!Spec => []Alerts!AlertsBounded
    BY AlertsStart, AlertsStep, AlertsKept, PTL DEF Alerts!Spec
  <1>3. Aggregator!AggregatorSpec => []Aggregator!SummariesTrue
    BY AggregatorStart, AggregatorStep, AggregatorKept, PTL DEF Aggregator!AggregatorSpec
  <1> QED BY <1>1, <1>2, <1>3, Parts, PTL DEF ToldOnce

\* Whatever fails, is repeated, is executed late or takes another's answer: a
\* call whose answers were all its own and came in time has written its row; a
\* recorded migration has been executed; what an insertion with its own answer
\* said was created is there; and a delivery recorded as delivered was
\* acknowledged by its receiver, one recorded as failed never.
THEOREM RowsAreTrue == ManagementSpec => []RowsTrue
  <1>1. SqlStore!Spec => []SqlStore!WritesKept
    BY SqlStart, SqlStep, SqlKept, PTL DEF SqlStore!Spec
  <1>2. Migrations!Spec => []Migrations!RecordedIsDone
    BY MigrationStart, MigrationStep, MigrationKept, PTL DEF Migrations!Spec
  <1>3. Tables!PublisherSpec => []Tables!ToldIsThere
    BY TablesStart, TablesStep, TablesKept, PTL DEF Tables!PublisherSpec
  <1>4. Webhooks!Spec => []Webhooks!RecordsTrue
    BY WebhookStart, WebhookStep, WebhookKept, PTL DEF Webhooks!Spec
  <1> QED BY <1>1, <1>2, <1>3, <1>4, Parts, PTL DEF RowsTrue

\* Whatever is written between the statements of a search or between two pages,
\* and whatever other requests miss their deadlines, a read whose statements all
\* worked and had their own answers finds what was there all the time.
THEOREM ReadsAreComplete == ManagementSpec => []ReadsComplete
  <1>1. KvStore!Spec => []KvStore!FindsSteady
    BY KvStart, KvStep, KvKept, PTL DEF KvStore!Spec
  <1>2. Changelog!LogSpec => []Changelog!BrowseComplete
    BY LogStart, LogStep, LogKept, PTL DEF Changelog!LogSpec
  <1>3. AuditTrail!Spec => []AuditTrail!PagesComplete
    BY AuditStart, AuditStep, AuditKept, PTL DEF AuditTrail!Spec
  <1> QED BY <1>1, <1>2, <1>3, Parts, PTL DEF ReadsComplete
=============================================================================
