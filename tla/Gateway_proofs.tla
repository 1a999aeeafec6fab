----------------------------- MODULE Gateway_proofs -----------------------------
(***************************************************************************)
(* Theorems about the API keys of the key manager, for every set of keys,  *)
(* of overlapping calls, and every number of failed statements, and about  *)
(* the request pipeline, for every set of requests, APIs, keys, and every  *)
(* number of retries.                                                      *)
(***************************************************************************)
EXTENDS Gateway, TLAPS

-------------------------------------------------------------------------------
(* API keys: the inductive invariant says what a call under way knows of   *)
(* the row of its key, although others write that row meanwhile.           *)

USE KeysAssumption, FailuresAssumption DEF KeysAssumption, FailuresAssumption

\* What a call in state s still knows of the row of the key it is about.
Sound(s) ==
  /\ s.at \in {"fetch", "revoke", "replace", "evict", "replaceEvict"} => s.key \in Keys
  /\ s.at \in {"revoke", "replace"} => row[s.key].status # "absent"
  /\ s.at \in {"evict", "replaceEvict"} => row[s.key].status = "revoked"
  /\ s.at = "create" =>
       IF s.key = "none" THEN s.named
       ELSE s.key \in Keys /\ row[s.key].status = "revoked"
  /\ s.at \in {"replace", "replaceEvict", "create"} /\ ~s.named =>
       s.key \in Keys /\ ~row[s.key].named

\* A key without a row has no name either.
AbsentIsBare == \A k \in Keys : row[k].status = "absent" => row[k] = Absent

\* The inductive invariant.
IInv ==
  /\ KeyTypeOK
  /\ AbsentIsBare
  /\ touched \subseteq validated
  /\ \A c \in Calls : Sound(call[c])
  /\ StaleOnlyBy
  /\ ReplacedRevoked
  /\ ScopesLostByUse

\* What every step does to the rows: none disappears, none is active again, and
\* a lost name does not come back.
Later ==
  /\ row' \in [Keys -> Rows]
  /\ \A k \in Keys :
       /\ row'[k].status = "absent" => row'[k] = Absent
       /\ row[k].status # "absent" => row'[k].status # "absent"
       /\ row[k].status = "revoked" => row'[k].status = "revoked"
       /\ row[k].status # "absent" /\ ~row[k].named => ~row'[k].named

-------------------------------------------------------------------------------
(* Rows and calls *)

\* An idle call, and the row of a key that has none.
LEMMA RecordFacts ==
  /\ Idle \in CallStates /\ Idle.at = "idle"
  /\ Absent \in Rows /\ Absent.status = "absent" /\ ~Absent.named
BY DEF Idle, CallStates, Absent, Rows

\* An idle call knows nothing.
LEMMA IdleSound == Sound(Idle)
BY RecordFacts DEF Sound

\* The types of the fields of a row.
LEMMA RowFacts ==
  ASSUME KeyTypeOK, NEW k \in Keys
  PROVE  /\ row[k] \in Rows
         /\ row[k] = [status |-> row[k].status, named |-> row[k].named]
         /\ row[k].status \in {"absent", "active", "revoked"}
         /\ row[k].named \in BOOLEAN
BY DEF KeyTypeOK, Rows

\* What a call knows stays true while others write the rows.
LEMMA SoundStays ==
  ASSUME KeyTypeOK, Later, NEW s \in CallStates, Sound(s)
  PROVE  Sound(s)'
<1>1. s.key \in Keys \cup {"none"}
  BY DEF CallStates
<1>2. ASSUME NEW k \in Keys, row[k].status = "revoked" PROVE row'[k].status = "revoked"
  BY <1>2 DEF Later
<1>3. ASSUME s.at \in {"replace", "replaceEvict", "create"}, ~s.named
      PROVE  s.key \in Keys /\ ~row'[s.key].named
  <2>1. s.key \in Keys /\ ~row[s.key].named /\ row[s.key].status # "absent"
    BY <1>3 DEF Sound
  <2> QED BY <2>1 DEF Later
<1> QED BY <1>1, <1>2, <1>3 DEF Sound, Later

\* A step that leaves the rows alone.
LEMMA SameRows ==
  ASSUME KeyTypeOK, AbsentIsBare, UNCHANGED row
  PROVE  Later
BY DEF Later, KeyTypeOK, AbsentIsBare

\* A step that moves call c to a state that is sound then keeps all calls sound.
LEMMA CallStep ==
  ASSUME IInv, Later, NEW c \in Calls, NEW s \in CallStates, Sound(s)',
         call' = [call EXCEPT ![c] = s]
  PROVE  /\ call' \in [Calls -> CallStates]
         /\ \A d \in Calls : Sound(call[d])'
         /\ \A d \in Calls : d # c => call'[d] = call[d]
         /\ call'[c] = s
<1>1. /\ call' \in [Calls -> CallStates]
      /\ call'[c] = s
      /\ \A d \in Calls : d # c => call'[d] = call[d]
  BY DEF IInv, KeyTypeOK
<1>2. ASSUME NEW d \in Calls PROVE Sound(call[d])'
  <2>1. CASE d = c
    BY <1>1, <2>1 DEF Sound
  <2>2. CASE d # c
    <3>1. call[d] \in CallStates /\ Sound(call[d])
      BY DEF IInv, KeyTypeOK
    <3>2. call'[d] = call[d]
      BY <1>1, <2>2
    <3> DEFINE t == call[d]
    <3>3. \A u \in CallStates : Sound(u) => Sound(u)'
      BY SoundStays DEF IInv
    <3> QED BY <3>1, <3>2, <3>3 DEF Sound
  <2> QED BY <2>1, <2>2
<1> QED BY <1>1, <1>2

\* A step that leaves the calls alone keeps them sound.
LEMMA SameCalls ==
  ASSUME IInv, Later, UNCHANGED call
  PROVE  /\ call' \in [Calls -> CallStates]
         /\ \A d \in Calls : Sound(call[d])'
<1>1. \A u \in CallStates : Sound(u) => Sound(u)'
  BY SoundStays DEF IInv
<1>2. \A d \in Calls : call[d] \in CallStates /\ Sound(call[d])
  BY DEF IInv, KeyTypeOK
<1> QED BY <1>1, <1>2 DEF Sound, IInv, KeyTypeOK

\* A key that another replaces stays revoked.
LEMMA ParentStays ==
  ASSUME IInv, Later, UNCHANGED parent
  PROVE  ReplacedRevoked'
BY DEF IInv, Later, ReplacedRevoked, KeyTypeOK


\* A step that puts no key into the map and revokes none leaves no more stale
\* keys than there were, if it leaves alone the calls that are about to evict one.
LEMMA StaleStays ==
  ASSUME IInv, keys' \subseteq keys,
         unsure \subseteq unsure', overtaken \subseteq overtaken',
         \A k \in Keys : row'[k].status = "revoked" => row[k].status = "revoked",
         \A d \in Calls : call[d].at \in {"evict", "replaceEvict"} => call'[d] = call[d]
  PROVE  StaleOnlyBy'
<1> SUFFICES ASSUME NEW k \in keys', row'[k].status = "revoked"
             PROVE  Evicting(k)' \/ k \in unsure' \/ k \in overtaken'
  BY DEF StaleOnlyBy
<1>1. k \in Keys /\ k \in keys
  BY DEF IInv, KeyTypeOK
<1>2. Evicting(k) \/ k \in unsure \/ k \in overtaken
  BY <1>1 DEF IInv, StaleOnlyBy
<1> QED BY <1>2 DEF Evicting

\* A step that changes no name and gives no key a row loses no scopes.
LEMMA ScopesStay ==
  ASSUME IInv, UNCHANGED parent, validated \subseteq validated',
         \A k \in Keys : /\ row'[k].named = row[k].named
                         /\ row[k] = Absent => row'[k] = Absent
  PROVE  ScopesLostByUse'
BY DEF IInv, ScopesLostByUse, KeyTypeOK

\* A step of call c that leaves rows and map alone, to a state that is sound.
LEMMA CallOnly ==
  ASSUME IInv, NEW c \in Calls, NEW s \in CallStates, Sound(s),
         call' = [call EXCEPT ![c] = s], call[c].at \notin {"evict", "replaceEvict"},
         UNCHANGED <<row, keys, known, overtaken, unsure, parent>>,
         failures' \in 0..MaxFailures,
         touched' \subseteq validated', validated \subseteq validated',
         validated' \subseteq Keys
  PROVE  IInv'
<1>1. Later
  BY SameRows DEF IInv
<1>2. Sound(s)'
  BY <1>1, SoundStays DEF IInv
<1>3. /\ call' \in [Calls -> CallStates]
      /\ \A d \in Calls : Sound(call[d])'
      /\ \A d \in Calls : d # c => call'[d] = call[d]
  BY <1>1, <1>2, CallStep
<1>4. StaleOnlyBy'
  BY <1>3, StaleStays DEF IInv
<1>5. ReplacedRevoked'
  BY <1>1, ParentStays
<1>6. ScopesLostByUse'
  BY ScopesStay
<1> QED BY <1>3, <1>4, <1>5, <1>6 DEF IInv, KeyTypeOK, AbsentIsBare

\* A failed statement is counted.
LEMMA FailsCounted ==
  ASSUME KeyTypeOK, Fails \/ Works
  PROVE  failures' \in 0..MaxFailures
BY DEF KeyTypeOK, Fails, Works

\* The state that Go leads to.
LEMMA GoState ==
  ASSUME KeyTypeOK, NEW c \in Calls, call[c].at # "insert", NEW where, Go(c, where),
         where \in {"evict", "replaceEvict", "create"}
  PROVE  \E s \in CallStates :
           /\ s.at = where /\ s.key = call[c].key /\ s.named = call[c].named
           /\ call' = [call EXCEPT ![c] = s]
<1> DEFINE s == [call[c] EXCEPT !.at = where]
<1>1. /\ call[c] \in CallStates
      /\ DOMAIN call = Calls
  BY DEF KeyTypeOK
<1>2. /\ s \in CallStates
      /\ s.at = where /\ s.key = call[c].key /\ s.named = call[c].named
  BY <1>1 DEF CallStates
<1>3. call' = [call EXCEPT ![c] = s]
  BY <1>1 DEF Go
<1> HIDE DEF s
<1> QED BY <1>2, <1>3

\* The state that Enter leads to.
LEMMA EnterState ==
  ASSUME NEW where \in {"create", "fetch", "revoke", "replace"},
         NEW k \in Keys \cup {"none"}, NEW named \in BOOLEAN
  PROVE  LET s == [at |-> where, key |-> k, named |-> named] IN
           s \in CallStates /\ s.at = where /\ s.key = k /\ s.named = named
BY DEF CallStates

-------------------------------------------------------------------------------
(* The inductive invariant *)

\* Before the first key.
LEMMA InitInv == KeyInit => IInv
BY RecordFacts, IdleSound
   DEF KeyInit, IInv, KeyTypeOK, AbsentIsBare, StaleOnlyBy, ReplacedRevoked, ScopesLostByUse

\* Steps that only begin or end a call.
LEMMA BeginInv ==
  ASSUME IInv, NEW c \in Calls,
         \/ BeginGenerate(c) \/ StatementFails(c) \/ Fetch(c)
         \/ \E k \in Keys :
              ValidateMiss(c, k) \/ BeginRevoke(c, k) \/ BeginRegenerate(c, k)
  PROVE  IInv'
<1> USE DEF history
<1>0. /\ touched \subseteq validated /\ validated \subseteq Keys
      /\ failures \in 0..MaxFailures /\ call[c] \in CallStates
  BY DEF IInv, KeyTypeOK
<1>1. CASE BeginGenerate(c)
  <2> DEFINE s == [at |-> "create", key |-> "none", named |-> TRUE]
  <2>1. s \in CallStates /\ Sound(s)
    BY EnterState DEF Sound
  <2>2. call' = [call EXCEPT ![c] = s]
    BY <1>1 DEF BeginGenerate, Enter
  <2> HIDE DEF s
  <2> QED BY <1>0, <1>1, <2>1, <2>2, CallOnly DEF BeginGenerate, At
<1>2. ASSUME NEW k \in Keys, ValidateMiss(c, k) PROVE IInv'
  <2> DEFINE s == [at |-> "fetch", key |-> k, named |-> FALSE]
  <2>1. s \in CallStates /\ Sound(s)
    BY EnterState DEF Sound
  <2>2. call' = [call EXCEPT ![c] = s]
    BY <1>2 DEF ValidateMiss, Enter
  <2> HIDE DEF s
  <2> QED BY <1>0, <1>2, <2>1, <2>2, CallOnly DEF ValidateMiss, At
<1>3. ASSUME NEW k \in Keys, BeginRevoke(c, k) PROVE IInv'
  <2> DEFINE s == [at |-> "revoke", key |-> k, named |-> FALSE]
  <2>1. s \in CallStates /\ Sound(s)
    BY <1>3, EnterState DEF Sound, BeginRevoke
  <2>2. call' = [call EXCEPT ![c] = s]
    BY <1>3 DEF BeginRevoke, Enter
  <2> HIDE DEF s
  <2> QED BY <1>0, <1>3, <2>1, <2>2, CallOnly DEF BeginRevoke, At
<1>4. ASSUME NEW k \in Keys, BeginRegenerate(c, k) PROVE IInv'
  <2> DEFINE where == IF row[k].status = "active" THEN "replace" ELSE "create"
             s == [at |-> where, key |-> k, named |-> row[k].named]
  <2>1. row[k].status # "absent" /\ row[k].named \in BOOLEAN
    BY <1>4, RowFacts DEF BeginRegenerate, IInv, AbsentIsBare
  <2>2. /\ s \in CallStates
        /\ s.at = where /\ s.key = k /\ s.named = row[k].named
    BY <2>1, EnterState
  <2>3. row[k].status \in {"active", "revoked"}
    BY <2>1, RowFacts DEF IInv
  <2>4. Sound(s)
    BY <2>2, <2>3 DEF Sound
  <2>5. call' = [call EXCEPT ![c] = s]
    BY <1>4 DEF BeginRegenerate, Enter
  <2> HIDE DEF s
  <2> QED BY <1>0, <1>4, <2>2, <2>4, <2>5, CallOnly DEF BeginRegenerate, At
<1>5. CASE StatementFails(c)
  <2>1. failures' \in 0..MaxFailures
    BY <1>5, FailsCounted DEF StatementFails, IInv
  <2> QED BY <1>0, <1>5, <2>1, RecordFacts, IdleSound, CallOnly DEF StatementFails, Leave
<1>6. CASE Fetch(c)
  <2>1. call[c].key \in Keys
    BY <1>6 DEF Fetch, At, IInv, Sound
  <2>2. /\ touched' \subseteq validated' /\ validated \subseteq validated'
        /\ validated' \subseteq Keys
    BY <1>0, <1>6, <2>1 DEF Fetch, Accept
  <2> QED BY <1>0, <1>6, <2>2, RecordFacts, IdleSound, CallOnly DEF Fetch, Leave, At
<1> QED BY <1>1, <1>2, <1>3, <1>4, <1>5, <1>6

\* Steps of no call: a key is accepted from the map, its usage counted or not.
LEMMA UsageInv ==
  ASSUME IInv, NEW k \in Keys,
         (\E c \in Calls : ValidateFromMap(c, k)) \/ Update(k) \/ UpdateFails(k)
  PROVE  IInv'
<1> USE DEF history
<1>0. /\ touched \subseteq validated /\ validated \subseteq Keys
      /\ failures \in 0..MaxFailures
  BY DEF IInv, KeyTypeOK
<1>1. ASSUME NEW c \in Calls, ValidateFromMap(c, k) PROVE IInv'
  <2>1. Later
    BY <1>1, SameRows DEF ValidateFromMap, IInv
  <2>2. /\ call' \in [Calls -> CallStates]
        /\ \A d \in Calls : Sound(call[d])'
    BY <1>1, <2>1, SameCalls DEF ValidateFromMap
  <2>3. StaleOnlyBy'
    BY <1>1, StaleStays DEF ValidateFromMap
  <2>4. ReplacedRevoked'
    BY <1>1, <2>1, ParentStays DEF ValidateFromMap
  <2>5. ScopesLostByUse'
    BY <1>1, ScopesStay DEF ValidateFromMap, Accept
  <2> QED BY <1>0, <1>1, <2>2, <2>3, <2>4, <2>5
          DEF ValidateFromMap, Accept, IInv, KeyTypeOK, AbsentIsBare
<1>2. CASE Update(k)
  <2>1. /\ row' \in [Keys -> Rows]
        /\ \A j \in Keys : /\ row'[j].status = row[j].status
                           /\ row'[j].named = IF j = k THEN FALSE ELSE row[j].named
    BY <1>2, RowFacts DEF Update, IInv, KeyTypeOK, Rows
  <2>2. \A j \in Keys : row'[j] = [status |-> row'[j].status, named |-> row'[j].named]
    BY <2>1 DEF Rows
  <2>3. \A j \in Keys : row[j].status = "absent" => row[j].named = FALSE
    BY DEF IInv, AbsentIsBare, Absent
  <2>4. ASSUME NEW j \in Keys, row'[j].status = "absent" PROVE row'[j] = Absent
    <3>1. row[j].status = "absent"
      BY <2>1, <2>4
    <3>2. row'[j].named = FALSE
      BY <2>1, <2>3, <3>1
    <3> QED BY <2>2, <2>4, <3>2 DEF Absent
  <2>5. Later
    BY <2>1, <2>4 DEF Later
  <2>6. /\ call' \in [Calls -> CallStates]
        /\ \A d \in Calls : Sound(call[d])'
    BY <1>2, <2>5, SameCalls DEF Update
  <2>7. StaleOnlyBy'
    BY <1>2, <2>1, StaleStays DEF Update
  <2>8. ReplacedRevoked'
    BY <1>2, <2>5, ParentStays DEF Update
  <2>9. ScopesLostByUse'
    <3> SUFFICES ASSUME NEW j \in Keys, row'[j] # Absent, ~row'[j].named
                 PROVE  \/ j \in validated'
                        \/ parent'[j] # "none" /\ ~row'[parent'[j]].named
      BY DEF ScopesLostByUse
    <3>1. CASE j = k
      BY <1>0, <1>2, <3>1 DEF Update
    <3>2. CASE j # k
      <4>1. row[j] # Absent /\ ~row[j].named
        BY <1>2, <3>2, <2>1 DEF Update, IInv, KeyTypeOK
      <4>2. j \in validated \/ (parent[j] # "none" /\ ~row[parent[j]].named)
        BY <4>1 DEF IInv, ScopesLostByUse
      <4>3. parent[j] \in Keys \cup {"none"}
        BY DEF IInv, KeyTypeOK
      <4> QED BY <1>2, <2>1, <4>2, <4>3 DEF Update
    <3> QED BY <3>1, <3>2
  <2> QED BY <1>0, <1>2, <2>1, <2>4, <2>6, <2>7, <2>8, <2>9
          DEF Update, IInv, KeyTypeOK, AbsentIsBare
<1>3. CASE UpdateFails(k)
  <2>0. failures' \in 0..MaxFailures
    BY <1>3, FailsCounted DEF UpdateFails, IInv
  <2>1. Later
    BY <1>3, SameRows DEF UpdateFails, IInv
  <2>2. /\ call' \in [Calls -> CallStates]
        /\ \A d \in Calls : Sound(call[d])'
    BY <1>3, <2>1, SameCalls DEF UpdateFails
  <2>3. StaleOnlyBy'
    BY <1>3, StaleStays DEF UpdateFails
  <2>4. ReplacedRevoked'
    BY <1>3, <2>1, ParentStays DEF UpdateFails
  <2>5. ScopesLostByUse'
    BY <1>3, ScopesStay DEF UpdateFails
  <2> QED BY <1>0, <1>3, <2>0, <2>2, <2>3, <2>4, <2>5
          DEF UpdateFails, IInv, KeyTypeOK, AbsentIsBare
<1> QED BY <1>1, <1>2, <1>3

\* A row that is inserted for a key that had none: by call c, or by nobody that the
\* manager remembers.
LEMMA NewRow ==
  ASSUME IInv, NEW k \in Keys, row[k] = Absent, NEW named \in BOOLEAN,
         row' = [row EXCEPT ![k] = [status |-> "active", named |-> named]]
  PROVE  /\ Later
         /\ AbsentIsBare'
         /\ \A j \in Keys : j # k => row'[j] = row[j]
         /\ row'[k].status = "active" /\ row'[k].named = named
<1>1. /\ row' \in [Keys -> Rows]
      /\ \A j \in Keys : j # k => row'[j] = row[j]
      /\ row'[k].status = "active" /\ row'[k].named = named
  BY DEF IInv, KeyTypeOK, Rows
<1> QED BY <1>1, RecordFacts DEF Later, AbsentIsBare, IInv

\* GenerateKey has inserted the row.
LEMMA CreateInv ==
  ASSUME IInv, NEW c \in Calls, NEW k \in Keys, Create(c, k)
  PROVE  IInv'
<1> DEFINE old == call[c].key
<1>1. /\ call[c] \in CallStates /\ call[c].named \in BOOLEAN
      /\ old \in Keys \cup {"none"}
  BY DEF IInv, KeyTypeOK, CallStates
<1>2. /\ Later /\ AbsentIsBare'
      /\ \A j \in Keys : j # k => row'[j] = row[j]
      /\ row'[k].status = "active" /\ row'[k].named = call[c].named
  BY <1>1, NewRow DEF Create
<1>3. /\ old # "none" => old \in Keys /\ row[old].status = "revoked"
      /\ ~call[c].named => old \in Keys /\ ~row[old].named
  BY DEF Create, At, IInv, Sound
<1>4. old # k
  BY <1>3, RecordFacts DEF Create
<1>5. PICK s \in CallStates : /\ Sound(s)'
                              /\ call' = [call EXCEPT ![c] = s]
  <2>1. CASE Enter(c, "insert", k, FALSE)
    <3> DEFINE s == [at |-> "insert", key |-> k, named |-> FALSE]
    <3>1. s \in CallStates /\ Sound(s)'
      BY DEF CallStates, Sound
    <3> QED BY <2>1, <3>1 DEF Enter
  <2>2. CASE Leave(c)
    <3>1. Sound(Idle)'
      BY RecordFacts DEF Sound, Idle
    <3> QED BY <2>2, <3>1, RecordFacts DEF Leave
  <2> QED BY <2>1, <2>2 DEF Create
<1>6. /\ call' \in [Calls -> CallStates]
      /\ \A d \in Calls : Sound(call[d])'
      /\ \A d \in Calls : d # c => call'[d] = call[d]
  BY <1>2, <1>5, CallStep
<1>7. StaleOnlyBy'
  <2>1. \A j \in Keys : row'[j].status = "revoked" => row[j].status = "revoked"
    BY <1>2
  <2> QED BY <1>6, <2>1, StaleStays DEF Create, At
<1>8. /\ parent' \in [Keys -> Keys \cup {"none"}]
      /\ parent'[k] = old
      /\ \A j \in Keys : j # k => parent'[j] = parent[j]
  BY <1>1 DEF Create, IInv, KeyTypeOK
<1>9. \A j \in Keys : parent[j] # "none" =>
        /\ parent[j] \in Keys /\ parent[j] # k
        /\ row[parent[j]].status = "revoked"
  BY RecordFacts DEF Create, IInv, ReplacedRevoked, KeyTypeOK
<1>10. ReplacedRevoked'
  BY <1>2, <1>3, <1>4, <1>8, <1>9 DEF ReplacedRevoked
<1>11. ScopesLostByUse'
  <2> SUFFICES ASSUME NEW j \in Keys, row'[j] # Absent, ~row'[j].named
               PROVE  \/ j \in validated'
                      \/ parent'[j] # "none" /\ ~row'[parent'[j]].named
    BY DEF ScopesLostByUse
  <2>1. CASE j = k
    BY <1>2, <1>3, <1>4, <1>8, <2>1
  <2>2. CASE j # k
    BY <1>2, <1>8, <1>9, <2>2 DEF IInv, ScopesLostByUse, Create
  <2> QED BY <2>1, <2>2
<1>12. failures' \in 0..MaxFailures
  BY FailsCounted DEF Create, IInv
<1> QED BY <1>2, <1>6, <1>7, <1>8, <1>10, <1>11, <1>12 DEF Create, IInv, KeyTypeOK, Later

\* A self-signed key has got its row.
LEMMA JWTInv ==
  ASSUME IInv, NEW c \in Calls, NEW k \in Keys, GenerateJWTAPIKey(c, k)
  PROVE  IInv'
<1> USE DEF history
<1>1. /\ Later /\ AbsentIsBare'
      /\ \A j \in Keys : j # k => row'[j] = row[j]
      /\ row'[k].status = "active" /\ row'[k].named
  <2>1. row[k] = Absent /\ row' = [row EXCEPT ![k] = [status |-> "active", named |-> TRUE]]
    BY DEF GenerateJWTAPIKey
  <2> QED BY <2>1, NewRow
<1>2. /\ call' \in [Calls -> CallStates]
      /\ \A d \in Calls : Sound(call[d])'
  BY <1>1, SameCalls DEF GenerateJWTAPIKey
<1>3. StaleOnlyBy'
  <2>1. \A j \in Keys : row'[j].status = "revoked" => row[j].status = "revoked"
    BY <1>1
  <2> QED BY <2>1, StaleStays DEF GenerateJWTAPIKey
<1>4. ReplacedRevoked'
  BY <1>1, ParentStays DEF GenerateJWTAPIKey
<1>5. ScopesLostByUse'
  <2> SUFFICES ASSUME NEW j \in Keys, row'[j] # Absent, ~row'[j].named
               PROVE  \/ j \in validated'
                      \/ parent'[j] # "none" /\ ~row'[parent'[j]].named
    BY DEF ScopesLostByUse
  <2>1. j # k /\ row'[j] = row[j]
    BY <1>1
  <2>2. parent[j] # "none" => parent[j] \in Keys /\ parent[j] # k
    BY RecordFacts DEF GenerateJWTAPIKey, IInv, ReplacedRevoked, KeyTypeOK
  <2> QED BY <1>1, <2>1, <2>2 DEF IInv, ScopesLostByUse, GenerateJWTAPIKey
<1> QED BY <1>1, <1>2, <1>3, <1>4, <1>5 DEF GenerateJWTAPIKey, IInv, KeyTypeOK, Later

\* The new key is put into the map.
LEMMA InsertInv ==
  ASSUME IInv, NEW c \in Calls, Insert(c)
  PROVE  IInv'
<1> DEFINE k == call[c].key
<1>1. k \in Keys
  BY DEF Insert, At, IInv, KeyTypeOK, CallStates
<1>2. Later
  BY SameRows DEF Insert, IInv
<1>3. /\ call' \in [Calls -> CallStates]
      /\ \A d \in Calls : Sound(call[d])'
      /\ \A d \in Calls : d # c => call'[d] = call[d]
  BY <1>2, RecordFacts, IdleSound, SoundStays, CallStep DEF Insert, Leave, IInv
<1>4. StaleOnlyBy'
  <2> SUFFICES ASSUME NEW j \in keys', row'[j].status = "revoked"
               PROVE  Evicting(j)' \/ j \in unsure' \/ j \in overtaken'
    BY DEF StaleOnlyBy
  <2>1. CASE j = k
    BY <2>1 DEF Insert
  <2>2. CASE j # k
    <3>1. Evicting(j) \/ j \in unsure \/ j \in overtaken
      BY <2>2 DEF Insert, IInv, StaleOnlyBy
    <3> QED BY <1>3, <3>1 DEF Insert, Evicting, At
  <2> QED BY <2>1, <2>2
<1>5. ReplacedRevoked'
  BY <1>2, ParentStays DEF Insert
<1>6. ScopesLostByUse'
  BY ScopesStay DEF Insert
<1> QED BY <1>1, <1>3, <1>4, <1>5, <1>6 DEF Insert, IInv, KeyTypeOK, AbsentIsBare

\* A row that exists is revoked: its name stays.
LEMMA RevokedRow ==
  ASSUME IInv, NEW k \in Keys, row[k].status # "absent", Revoked(k)
  PROVE  /\ Later
         /\ \A j \in Keys : /\ row'[j].named = row[j].named
                            /\ row[j] = Absent => row'[j] = Absent
         /\ \A j \in Keys : j # k => row'[j] = row[j]
         /\ row'[k].status = "revoked"
<1>1. /\ row' \in [Keys -> Rows]
      /\ \A j \in Keys : j # k => row'[j] = row[j]
      /\ row'[k].status = "revoked" /\ row'[k].named = row[k].named
  BY DEF Revoked, IInv, KeyTypeOK, Rows
<1> QED BY <1>1, RecordFacts DEF Later, IInv, AbsentIsBare

\* What is known of a call that is about to revoke.
LEMMA RevokingFacts ==
  ASSUME IInv, NEW c \in Calls, call[c].at \in {"revoke", "replace"}
  PROVE  /\ call[c].key \in Keys
         /\ row[call[c].key].status # "absent"
BY DEF IInv, Sound

\* The row is revoked, and the map comes next.
LEMMA RevokeInv ==
  ASSUME IInv, NEW c \in Calls, Revoke(c)
  PROVE  IInv'
<1> USE DEF history
<1> DEFINE k == call[c].key
           where == IF At(c, "revoke") THEN "evict" ELSE "replaceEvict"
<1>1. k \in Keys /\ row[k].status # "absent" /\ call[c].at \in {"revoke", "replace"}
  BY RevokingFacts DEF Revoke
<1>2. /\ Later
      /\ \A j \in Keys : /\ row'[j].named = row[j].named
                         /\ row[j] = Absent => row'[j] = Absent
      /\ \A j \in Keys : j # k => row'[j] = row[j]
      /\ row'[k].status = "revoked"
  BY <1>1, RevokedRow DEF Revoke
<1>3. PICK s \in CallStates : /\ s.at = where /\ s.key = k /\ s.named = call[c].named
                              /\ call' = [call EXCEPT ![c] = s]
  BY <1>1, GoState DEF Revoke, IInv
<1>4. Sound(s)'
  <2>1. CASE At(c, "revoke")
    BY <1>1, <1>2, <1>3, <2>1 DEF Sound
  <2>2. CASE At(c, "replace")
    <3>1. ~call[c].named => ~row[k].named
      BY <2>2 DEF IInv, Sound, At
    <3> QED BY <1>1, <1>2, <1>3, <2>2, <3>1 DEF Sound, At
  <2> QED BY <1>1, <2>1, <2>2 DEF At
<1>5. /\ call' \in [Calls -> CallStates]
      /\ \A d \in Calls : Sound(call[d])'
      /\ \A d \in Calls : d # c => call'[d] = call[d]
      /\ call'[c] = s
  BY <1>2, <1>3, <1>4, CallStep
<1>6. StaleOnlyBy'
  <2> SUFFICES ASSUME NEW j \in keys', row'[j].status = "revoked"
               PROVE  Evicting(j)' \/ j \in unsure' \/ j \in overtaken'
    BY DEF StaleOnlyBy
  <2>1. CASE j = k
    BY <1>3, <1>5, <2>1 DEF Evicting
  <2>2. CASE j # k
    <3>1. j \in Keys /\ (Evicting(j) \/ j \in unsure \/ j \in overtaken)
      BY <1>2, <2>2 DEF Revoke, IInv, StaleOnlyBy, KeyTypeOK
    <3> QED BY <1>1, <1>5, <3>1 DEF Revoke, Evicting
  <2> QED BY <2>1, <2>2
<1>7. ReplacedRevoked'
  BY <1>2, ParentStays DEF Revoke
<1>8. ScopesLostByUse'
  BY <1>2, ScopesStay DEF Revoke
<1> QED BY <1>2, <1>5, <1>6, <1>7, <1>8 DEF Revoke, Works, IInv, KeyTypeOK, Later, AbsentIsBare

\* The statement that revokes fails: the row may be revoked all the same.
LEMMA RevokeFailsInv ==
  ASSUME IInv, NEW c \in Calls, RevokeFails(c)
  PROVE  IInv'
<1> DEFINE k == call[c].key
<1>1. k \in Keys /\ row[k].status # "absent" /\ call[c].at \in {"revoke", "replace"}
  BY RevokingFacts DEF RevokeFails
<1>2. /\ Later
      /\ \A j \in Keys : /\ row'[j].named = row[j].named
                         /\ row[j] = Absent => row'[j] = Absent
      /\ unsure \subseteq unsure' /\ unsure' \subseteq Keys
      /\ \A j \in Keys : row'[j].status = "revoked" =>
           row[j].status = "revoked" \/ j \in unsure'
  <2>1. CASE UNCHANGED <<row, unsure>>
    BY <2>1, SameRows DEF IInv, KeyTypeOK
  <2>2. CASE Revoked(k) /\ unsure' = unsure \cup {k}
    BY <1>1, <2>2, RevokedRow DEF IInv, KeyTypeOK
  <2> QED BY <2>1, <2>2 DEF RevokeFails
<1>3. /\ call' \in [Calls -> CallStates]
      /\ \A d \in Calls : Sound(call[d])'
      /\ \A d \in Calls : d # c => call'[d] = call[d]
  BY <1>2, RecordFacts, IdleSound, SoundStays, CallStep DEF RevokeFails, Leave, IInv
<1>4. StaleOnlyBy'
  <2> SUFFICES ASSUME NEW j \in keys', row'[j].status = "revoked"
               PROVE  Evicting(j)' \/ j \in unsure' \/ j \in overtaken'
    BY DEF StaleOnlyBy
  <2>1. j \in Keys /\ j \in keys
    BY DEF RevokeFails, IInv, KeyTypeOK
  <2>2. CASE j \in unsure'
    BY <2>2
  <2>3. CASE row[j].status = "revoked"
    <3>1. Evicting(j) \/ j \in unsure \/ j \in overtaken
      BY <2>1, <2>3 DEF IInv, StaleOnlyBy
    <3> QED BY <1>1, <1>2, <1>3, <3>1 DEF RevokeFails, Evicting
  <2> QED BY <1>2, <2>1, <2>2, <2>3
<1>5. ReplacedRevoked'
  BY <1>2, ParentStays DEF RevokeFails
<1>6. ScopesLostByUse'
  BY <1>2, ScopesStay DEF RevokeFails
<1>7. failures' \in 0..MaxFailures
  BY FailsCounted DEF RevokeFails, IInv
<1> QED BY <1>2, <1>3, <1>4, <1>5, <1>6, <1>7
        DEF RevokeFails, IInv, KeyTypeOK, Later, AbsentIsBare

\* The revoked key is removed from the map.
LEMMA EvictInv ==
  ASSUME IInv, NEW c \in Calls, Evict(c)
  PROVE  IInv'
<1> USE DEF history
<1> DEFINE k == call[c].key
<1>1. /\ k \in Keys /\ row[k].status = "revoked"
      /\ call[c].at \in {"evict", "replaceEvict"}
  BY DEF Evict, IInv, Sound
<1>2. Later
  BY SameRows DEF Evict, IInv
<1>3. PICK s \in CallStates : Sound(s) /\ call' = [call EXCEPT ![c] = s]
  <2>1. CASE At(c, "evict")
    BY <2>1, RecordFacts, IdleSound DEF Evict, Leave
  <2>2. CASE ~At(c, "evict")
    <3>1. At(c, "replaceEvict") /\ Go(c, "create")
      BY <1>1, <2>2 DEF Evict, At
    <3>2. PICK s \in CallStates :
            /\ s.at = "create" /\ s.key = k /\ s.named = call[c].named
            /\ call' = [call EXCEPT ![c] = s]
      BY <1>1, <3>1, GoState DEF IInv
    <3>3. ~call[c].named => ~row[k].named
      BY <3>1 DEF IInv, Sound, At
    <3>4. Sound(s)
      BY <1>1, <3>2, <3>3 DEF Sound
    <3> QED BY <3>2, <3>4
  <2> QED BY <2>1, <2>2
<1>4. Sound(s)'
  BY <1>2, <1>3, SoundStays DEF IInv
<1>5. /\ call' \in [Calls -> CallStates]
      /\ \A d \in Calls : Sound(call[d])'
      /\ \A d \in Calls : d # c => call'[d] = call[d]
  BY <1>2, <1>3, <1>4, CallStep
<1>6. StaleOnlyBy'
  <2> SUFFICES ASSUME NEW j \in keys', row'[j].status = "revoked"
               PROVE  Evicting(j)' \/ j \in unsure' \/ j \in overtaken'
    BY DEF StaleOnlyBy
  <2>1. j \in keys /\ j # k
    BY DEF Evict
  <2>2. Evicting(j) \/ j \in unsure \/ j \in overtaken
    BY <2>1 DEF Evict, IInv, StaleOnlyBy
  <2> QED BY <1>5, <2>1, <2>2 DEF Evict, Evicting
<1>7. ReplacedRevoked'
  BY <1>2, ParentStays DEF Evict
<1>8. ScopesLostByUse'
  BY ScopesStay DEF Evict
<1> QED BY <1>5, <1>6, <1>7, <1>8 DEF Evict, IInv, KeyTypeOK, AbsentIsBare

\* The process restarts.
LEMMA RestartInv == ASSUME IInv, Restart PROVE IInv'
<1> USE DEF history
<1>1. Later
  BY SameRows DEF Restart, IInv
<1>2. ReplacedRevoked'
  BY <1>1, ParentStays DEF Restart
<1>3. ScopesLostByUse'
  BY ScopesStay DEF Restart
<1>4. Sound(Idle)'
  BY RecordFacts DEF Sound, Idle
<1>5. \A c \in Calls : Sound(call[c])'
  BY <1>4 DEF Restart, Sound
<1> QED BY <1>2, <1>3, <1>5, RecordFacts
        DEF Restart, IInv, KeyTypeOK, AbsentIsBare, StaleOnlyBy

\* Every step.
LEMMA StepInv == IInv /\ [KeyNext]_keyVars => IInv'
<1> SUFFICES ASSUME IInv, [KeyNext]_keyVars PROVE IInv'
  OBVIOUS
<1>1. ASSUME NEW c \in Calls,
             \/ BeginGenerate(c) \/ Fetch(c) \/ StatementFails(c)
             \/ \E k \in Keys :
                  ValidateMiss(c, k) \/ BeginRevoke(c, k) \/ BeginRegenerate(c, k)
      PROVE  IInv'
  BY <1>1, BeginInv
<1>2. ASSUME NEW c \in Calls, Insert(c) PROVE IInv'
  BY <1>2, InsertInv
<1>3. ASSUME NEW c \in Calls, Revoke(c) PROVE IInv'
  BY <1>3, RevokeInv
<1>4. ASSUME NEW c \in Calls, RevokeFails(c) PROVE IInv'
  BY <1>4, RevokeFailsInv
<1>5. ASSUME NEW c \in Calls, Evict(c) PROVE IInv'
  BY <1>5, EvictInv
<1>6. ASSUME NEW c \in Calls, NEW k \in Keys, Create(c, k) PROVE IInv'
  BY <1>6, CreateInv
<1>7. ASSUME NEW c \in Calls, NEW k \in Keys, GenerateJWTAPIKey(c, k) PROVE IInv'
  BY <1>7, JWTInv
<1>8. ASSUME NEW c \in Calls, NEW k \in Keys, ValidateFromMap(c, k) PROVE IInv'
  BY <1>8, UsageInv
<1>9. ASSUME NEW k \in Keys, Update(k) \/ UpdateFails(k) PROVE IInv'
  BY <1>9, UsageInv
<1>10. CASE Restart
  BY <1>10, RestartInv
<1>11. CASE UNCHANGED keyVars
  <2>1. Later
    BY <1>11, SameRows DEF keyVars, IInv
  <2>2. /\ call' \in [Calls -> CallStates]
        /\ \A d \in Calls : Sound(call[d])'
    BY <1>11, <2>1, SameCalls DEF keyVars
  <2>3. StaleOnlyBy'
    BY <1>11, StaleStays DEF keyVars, history
  <2>4. ReplacedRevoked'
    BY <1>11, <2>1, ParentStays DEF keyVars, history
  <2>5. ScopesLostByUse'
    BY <1>11, ScopesStay DEF keyVars, history
  <2> QED BY <1>11, <2>2, <2>3, <2>4, <2>5
          DEF keyVars, history, IInv, KeyTypeOK, AbsentIsBare
<1> QED BY <1>1, <1>2, <1>3, <1>4, <1>5, <1>6, <1>7, <1>8, <1>9, <1>10, <1>11 DEF KeyNext

-------------------------------------------------------------------------------
(* Theorems *)

\* The invariant holds throughout.
LEMMA Invariant == KeySpec => []IInv
<1> QED BY InitInv, StepInv, PTL DEF KeySpec

\* Every reachable state of the key manager is well typed.
THEOREM TypeCorrect == KeySpec => []KeyTypeOK
<1>1. IInv => KeyTypeOK
  BY DEF IInv
<1> QED BY <1>1, Invariant, PTL

\* The map accepts a revoked key only while its revocation is under way, or was
\* reported as failed, or had overtaken the GenerateKey of the key.
THEOREM StaleBounded == KeySpec => []StaleOnlyBy
<1>1. IInv => StaleOnlyBy
  BY DEF IInv
<1> QED BY <1>1, Invariant, PTL

\* RegenerateKey never leaves two valid keys.
THEOREM ReplacedAreRevoked == KeySpec => []ReplacedRevoked
<1>1. IInv => ReplacedRevoked
  BY DEF IInv
<1> QED BY <1>1, Invariant, PTL

\* Only the goroutine that counts a usage takes name and scopes from a key.
THEOREM ScopesLost == KeySpec => []ScopesLostByUse
<1>1. IInv => ScopesLostByUse
  BY DEF IInv
<1> QED BY <1>1, Invariant, PTL

\* No step makes a revoked key active again.
LEMMA RevokedStep ==
  ASSUME IInv, KeyNext, NEW k \in Keys, row[k].status = "revoked"
  PROVE  row'[k].status = "revoked"
<1> USE DEF history
<1>0. row \in [Keys -> Rows] /\ row[k] # Absent
  BY RecordFacts DEF IInv, KeyTypeOK
<1>1. ASSUME NEW c \in Calls, NEW j \in Keys, Create(c, j) \/ GenerateJWTAPIKey(c, j)
      PROVE  row'[k].status = "revoked"
  BY <1>0, <1>1 DEF Create, GenerateJWTAPIKey
<1>2. ASSUME NEW c \in Calls, Revoke(c) \/ RevokeFails(c)
      PROVE  row'[k].status = "revoked"
  <2>1. call[c].key \in Keys
    BY <1>2, RevokingFacts DEF Revoke, RevokeFails
  <2>2. Revoked(call[c].key) \/ UNCHANGED row
    BY <1>2 DEF Revoke, RevokeFails
  <2> QED BY <1>0, <2>1, <2>2 DEF Revoked, Rows
<1>3. ASSUME NEW j \in Keys, Update(j) PROVE row'[k].status = "revoked"
  BY <1>0, <1>3 DEF Update, Rows
<1>4. CASE UNCHANGED row
  BY <1>4
<1> QED BY <1>1, <1>2, <1>3, <1>4
        DEF KeyNext, BeginGenerate, Insert, Fetch, Evict, StatementFails, ValidateFromMap,
            ValidateMiss, BeginRevoke, BeginRegenerate, UpdateFails, Restart

\* Revocation is final, whatever is still written to count usages.
THEOREM RevokedStays == KeySpec => RevokedForEver
<1>1. IInv /\ [KeyNext]_keyVars =>
        [\A k \in Keys : row[k].status = "revoked" => row'[k].status = "revoked"]_keyVars
  BY RevokedStep
<1> QED BY <1>1, Invariant, PTL DEF KeySpec, RevokedForEver

-------------------------------------------------------------------------------
(* The pipeline does not disturb the key manager, so that what is shown of *)
(* the API keys holds here as well; what a request was found to be         *)
(* entitled to is followed from one middleware to the next.                *)

USE ApisAssumption, RetryAssumption, LimitAssumption, CredentialsAssumption
    DEF ApisAssumption, RetryAssumption, LimitAssumption, CredentialsAssumption, NoApi

Checking == {"auth", "lookup", "subscription"}

Forwarding == {"throttle", "cache", "proxy", "analytics", "fill"}

\* The facts that matter for API a.
About(a) == {<<"valid", NoApi>>, <<"published", a>>, <<"subscribed", a>>}

\* What a request in context q may rely on, h being what held while it was
\* checked.
Entitlement(q, h) ==
  /\ q.at \in {"lookup", "subscription"} \cup Forwarding /\ q.cred \in Keys \cup {"token"} =>
       <<"valid", NoApi>> \in h
  /\ q.at \in {"subscription"} \cup Forwarding /\ q.api # NoApi =>
       /\ <<"published", q.api>> \in h
       /\ q.cred = "anonymous" => q.api \in Anonymously
  /\ q.at \in Forwarding /\ q.api # NoApi /\ q.cred \in Keys =>
       <<"subscribed", q.api>> \in h

\* How often a request in context q has been sent, with and without its body, and
\* counted; what its answer may be.
Accounts(q) ==
  /\ q.at \in {"new", "auth", "lookup", "subscription", "throttle", "cache"} =>
       /\ q.reached = 0 /\ q.whole = 0 /\ q.attempt = 0
       /\ q.events = 0 /\ q.event = "none"
  /\ q.at = "proxy" => q.reached <= q.attempt
  /\ q.at \in {"proxy", "analytics", "fill"} => q.events = 0
  /\ q.whole <= q.reached
  /\ q.reached <= RetryCount + 1
  /\ q.body => q.whole <= 1
  /\ q.body /\ ~BodyLimited => q.reached <= 1
  /\ q.at \in {"new", "auth", "lookup"} => q.api = NoApi
  /\ q.at \in {"analytics", "fill"} /\ q.api = NoApi => q.status = NotFound
  /\ q.at = "fill" => q.event = "pending"
  /\ q.at = "over" =>
       q.events = IF q.event = "stored" /\ q.api # NoApi THEN 1 ELSE 0

\* While a request is checked, what holds now is part of what has held.
Observed ==
  \A r \in Requests :
    /\ req[r].at \in {"auth", "lookup"} => Holding(r) \subseteq held[r]
    /\ req[r].at = "subscription" => Holding(r) \cap About(req[r].api) \subseteq held[r]

\* The inductive invariant.
GInv ==
  /\ IInv
  /\ TypeOK
  /\ Observed
  /\ \A r \in Requests : Entitlement(req[r], held[r]) /\ Accounts(req[r])

-------------------------------------------------------------------------------
(* Contexts *)

\* A goroutine that waits for a request.
LEMMA FreshFacts ==
  /\ Fresh \in Contexts
  /\ Fresh.at = "new"
  /\ \A h : Entitlement(Fresh, h)
  /\ Accounts(Fresh)
BY DEF Fresh, Contexts, Credentials, Statuses, Entitlement, Accounts, Forwarding

\* What holds are facts, before a step and after it.
LEMMA FactsFacts ==
  ASSUME NEW P \in SUBSET Apis, NEW S \in SUBSET Apis
  PROVE  /\ {"published"} \X P \subseteq Facts
         /\ {"subscribed"} \X S \subseteq Facts
         /\ <<"valid", NoApi>> \in Facts
BY DEF Facts

\* What Observe records.
LEMMA ObserveFacts ==
  ASSUME Observe, TypeOK, published' \subseteq Apis, subscribed' \subseteq Apis
  PROVE  /\ held' \in [Requests -> SUBSET Facts]
         /\ Observed'
         /\ \A r \in Requests : req'[r].at \in Checking \cup Forwarding =>
              held[r] \cap About(req'[r].api) \subseteq held'[r]
<1>1. \A r \in Requests : Holding(r)' \subseteq Facts
  <2> DEFINE P == {"published"} \X published'
             S == {"subscribed"} \X subscribed'
  <2>1. P \subseteq Facts /\ S \subseteq Facts /\ <<"valid", NoApi>> \in Facts
    BY FactsFacts
  <2>2. \A r \in Requests :
          Holding(r)' = (IF Valid(req[r].cred)' THEN {<<"valid", NoApi>>} ELSE {})
                          \cup P \cup (IF req'[r].cred \in Keys THEN S ELSE {})
    BY DEF Holding
  <2> HIDE DEF P, S
  <2> QED BY <2>1, <2>2
<1>2. \A r \in Requests : Relevant(r)' = About(req'[r].api)
  BY DEF Relevant, About
<1>3. \A r \in Requests :
        /\ req'[r].at \in {"auth", "lookup"} => held'[r] = held[r] \cup Holding(r)'
        /\ req'[r].at = "subscription" =>
             held'[r] = (held[r] \cup Holding(r)') \cap About(req'[r].api)
        /\ req'[r].at \in Forwarding => held'[r] = held[r] \cap About(req'[r].api)
        /\ req'[r].at \notin Checking \cup Forwarding => held'[r] = {}
  BY <1>2 DEF Observe, Checking, Forwarding
<1>4. \A r \in Requests : held[r] \subseteq Facts
  BY DEF TypeOK
<1>5. ASSUME NEW r \in Requests
      PROVE  held'[r] \subseteq Facts
  <2>1. req'[r].at \in {"auth", "lookup"} \/ req'[r].at = "subscription"
          \/ req'[r].at \in Forwarding \/ req'[r].at \notin Checking \cup Forwarding
    BY DEF Checking
  <2> QED BY <1>1, <1>3, <1>4, <2>1
<1>6. held' \in [Requests -> SUBSET Facts]
  BY <1>5 DEF Observe
<1>7. \A r \in Requests :
        /\ req'[r].at \in {"auth", "lookup"} => Holding(r)' \subseteq held'[r]
        /\ req'[r].at = "subscription" =>
             Holding(r)' \cap About(req'[r].api) \subseteq held'[r]
  BY <1>3
<1>8. \A r \in Requests : req'[r].at \in Checking \cup Forwarding =>
        held[r] \cap About(req'[r].api) \subseteq held'[r]
  BY <1>3 DEF Checking
<1> QED BY <1>6, <1>7, <1>8 DEF Observed, About

\* What entitles a request is among the facts that matter for its API.
LEMMA EntitlementGrows ==
  ASSUME NEW q \in Contexts, NEW h, NEW g, h \cap About(q.api) \subseteq g,
         Entitlement(q, h)
  PROVE  Entitlement(q, g)
BY DEF Entitlement, About

\* It suffices that a step keeps requests entitled by what held before it: Observe
\* only adds to that, and drops what does not matter.
LEMMA ObserveInv ==
  ASSUME GInv, Observe, [KeyNext]_keyVars,
         published' \subseteq Apis, subscribed' \subseteq Apis, token' \in BOOLEAN,
         cached' \in Contents, req' \in [Requests -> Contexts],
         \A s \in Requests : Entitlement(req'[s], held[s]) /\ Accounts(req'[s])
  PROVE  GInv'
<1>1. IInv'
  BY StepInv DEF GInv
<1>2. /\ held' \in [Requests -> SUBSET Facts]
      /\ Observed'
      /\ \A r \in Requests : req'[r].at \in Checking \cup Forwarding =>
           held[r] \cap About(req'[r].api) \subseteq held'[r]
  BY ObserveFacts DEF GInv
<1>3. ASSUME NEW s \in Requests PROVE Entitlement(req'[s], held'[s])
  <2>1. req'[s] \in Contexts /\ Entitlement(req'[s], held[s])
    OBVIOUS
  <2>2. CASE req'[s].at \in Checking \cup Forwarding
    <3>1. held[s] \cap About(req'[s].api) \subseteq held'[s]
      BY <1>2, <2>2
    <3> QED BY <2>1, <3>1, EntitlementGrows
  <2>3. CASE req'[s].at \notin Checking \cup Forwarding
    BY <2>3 DEF Entitlement, Checking, Forwarding
  <2> QED BY <2>2, <2>3
<1>4. TypeOK'
  BY <1>1, <1>2 DEF TypeOK, IInv
<1>5. \A s \in Requests : (Entitlement(req[s], held[s]) /\ Accounts(req[s]))'
  BY <1>3 DEF Entitlement, Accounts
<1> QED BY <1>1, <1>2, <1>4, <1>5 DEF GInv

\* A middleware moves one request, and leaves the tables alone.
LEMMA RequestInv ==
  ASSUME GInv, Observe, UNCHANGED <<keyVars, tables>>, cached' \in Contents,
         NEW r \in Requests, NEW q \in Contexts, req' = [req EXCEPT ![r] = q],
         Entitlement(q, held[r]), Accounts(q)
  PROVE  GInv'
<1>1. /\ req' \in [Requests -> Contexts]
      /\ \A s \in Requests : req'[s] = IF s = r THEN q ELSE req[s]
  BY DEF GInv, TypeOK
<1>2. \A s \in Requests : Entitlement(req'[s], held[s]) /\ Accounts(req'[s])
  BY <1>1 DEF GInv
<1> QED BY <1>1, <1>2, ObserveInv DEF GInv, TypeOK, tables

\* A request is answered.
LEMMA AnsweredInv ==
  ASSUME GInv, Observe, UNCHANGED <<keyVars, tables>>, cached' \in Contents,
         NEW r \in Requests, Answered(r)
  PROVE  GInv'
BY FreshFacts, RequestInv DEF Answered

\* A request goes on to the next middleware.
LEMMA MoveInv ==
  ASSUME GInv, Observe, UNCHANGED <<keyVars, tables, cached>>,
         NEW r \in Requests, NEW where, Move(r, where),
         \/ where = "lookup" /\ InStage(r, "auth")
         \/ where = "subscription" /\ InStage(r, "lookup")
         \/ where = "throttle" /\ InStage(r, "subscription")
         \/ where = "cache" /\ InStage(r, "throttle"),
         Entitlement([req[r] EXCEPT !.at = where], held[r])
  PROVE  GInv'
<1> DEFINE q == [req[r] EXCEPT !.at = where]
<1>1. req[r] \in Contexts /\ Accounts(req[r])
  BY DEF GInv, TypeOK
<1>2. q \in Contexts
  BY <1>1 DEF Contexts
<1>3. /\ q.at = where /\ q.body = req[r].body /\ q.api = req[r].api
      /\ q.attempt = req[r].attempt /\ q.event = req[r].event
      /\ q.reached = req[r].reached /\ q.whole = req[r].whole /\ q.events = req[r].events
  BY <1>1 DEF Contexts
<1>4. Accounts(q)
  BY <1>1, <1>3 DEF Accounts, InStage
<1>5. req' = [req EXCEPT ![r] = q]
  BY DEF Move, GInv, TypeOK
<1>6. cached' \in Contents
  BY DEF GInv, TypeOK
<1>7. Entitlement(q, held[r])
  OBVIOUS
<1> HIDE DEF q
<1> QED BY <1>2, <1>4, <1>5, <1>6, <1>7, RequestInv


-------------------------------------------------------------------------------
(* The middleware *)

\* What is known of a request and of its context.
LEMMA RequestFacts ==
  ASSUME GInv, NEW r \in Requests
  PROVE  /\ req[r] \in Contexts
         /\ req[r].cred \in Credentials /\ req[r].body \in BOOLEAN
         /\ req[r].api \in Apis \cup {NoApi} /\ req[r].attempt \in 0..RetryCount
         /\ req[r].save \in BOOLEAN /\ req[r].status \in Statuses
         /\ req[r].reached \in Nat /\ req[r].whole \in Nat /\ req[r].events \in Nat
         /\ req[r].event \in {"none", "pending", "stored", "lost"}
         /\ Entitlement(req[r], held[r]) /\ Accounts(req[r])
         /\ req[r].at \in {"auth", "lookup"} => Holding(r) \subseteq held[r]
         /\ req[r].at = "subscription" => Holding(r) \cap About(req[r].api) \subseteq held[r]
         /\ cached \in Contents
BY DEF GInv, TypeOK, Contexts, Observed

\* A request arrives.
LEMMA ArriveInv ==
  ASSUME GInv, Observe, NEW r \in Requests, NEW cred \in Credentials, Arrive(r, cred)
  PROVE  GInv'
<1> DEFINE q == [Fresh EXCEPT !.at = "auth", !.cred = cred]
<1>1. /\ Fresh.api = NoApi /\ Fresh.attempt = 0 /\ Fresh.event = "none"
      /\ Fresh.reached = 0 /\ Fresh.whole = 0 /\ Fresh.events = 0
  BY DEF Fresh
<1>2. /\ q \in Contexts
      /\ q.at = "auth" /\ q.cred = cred /\ q.api = Fresh.api
      /\ q.attempt = Fresh.attempt /\ q.event = Fresh.event
      /\ q.reached = Fresh.reached /\ q.whole = Fresh.whole /\ q.events = Fresh.events
  BY FreshFacts DEF Contexts
<1>3. Entitlement(q, held[r]) /\ Accounts(q)
  BY <1>1, <1>2 DEF Entitlement, Accounts, Forwarding
<1>4. req' = [req EXCEPT ![r] = q]
  BY DEF Arrive
<1> HIDE DEF q
<1> QED BY <1>2, <1>3, <1>4, RequestFacts, RequestInv DEF Arrive

\* The fields of a context that moves.
LEMMA MovedFacts ==
  ASSUME NEW q \in Contexts, NEW where
  PROVE  LET m == [q EXCEPT !.at = where] IN
           m.at = where /\ m.cred = q.cred /\ m.api = q.api
BY DEF Contexts

\* A credential that is valid now has held.
LEMMA AuthInv ==
  ASSUME GInv, Observe, NEW r \in Requests, AuthMiddleware(r)
  PROVE  GInv'
<1>1. CASE Answered(r)
  BY <1>1, RequestFacts, AnsweredInv DEF AuthMiddleware
<1>2. CASE Move(r, "lookup") /\ (req[r].cred \in {"anonymous", "preflight"} \/ Valid(req[r].cred))
  <2>1. req[r].cred \in Keys \cup {"token"} => <<"valid", NoApi>> \in held[r]
    BY <1>2, RequestFacts DEF AuthMiddleware, InStage, Checking, Holding
  <2>2. Entitlement([req[r] EXCEPT !.at = "lookup"], held[r])
    BY <2>1, RequestFacts, MovedFacts DEF Entitlement, Forwarding
  <2> QED BY <1>2, <2>2, MoveInv DEF AuthMiddleware
<1> QED BY <1>1, <1>2 DEF AuthMiddleware

\* An API that is published now has held.
LEMMA LookupInv ==
  ASSUME GInv, Observe, NEW r \in Requests, APILookupMiddleware(r)
  PROVE  GInv'
<1>0. req[r].at = "lookup"
  BY DEF APILookupMiddleware, InStage

<1>1. CASE Move(r, "subscription")
  <2>1. req[r].api = NoApi
    BY <1>0, RequestFacts DEF Accounts
  <2> DEFINE q == [req[r] EXCEPT !.at = "subscription"]
  <2>2. q.at = "subscription" /\ q.cred = req[r].cred /\ q.api = req[r].api
    BY RequestFacts DEF Contexts
  <2> HIDE DEF q
  <2>3. Entitlement(q, held[r])
    BY <1>0, <2>1, <2>2, RequestFacts DEF Entitlement, Forwarding
  <2> QED BY <1>1, <2>3, MoveInv DEF APILookupMiddleware, q
<1>2. CASE Answered(r)
  BY <1>2, RequestFacts, AnsweredInv DEF APILookupMiddleware
<1>3. ASSUME NEW a \in published, req[r].cred = "anonymous" => a \in Anonymously,
             req' = [req EXCEPT ![r].at = "subscription", ![r].api = a]
      PROVE  GInv'
  <2> DEFINE q == [req[r] EXCEPT !.at = "subscription", !.api = a]
  <2>1. a \in Apis /\ <<"published", a>> \in held[r]
    BY <1>0, RequestFacts DEF Checking, Holding, GInv, TypeOK
  <2>2. /\ q \in Contexts
        /\ q.at = "subscription" /\ q.api = a /\ q.cred = req[r].cred
        /\ q.attempt = req[r].attempt /\ q.event = req[r].event
        /\ q.reached = req[r].reached /\ q.whole = req[r].whole /\ q.events = req[r].events
    BY <2>1, RequestFacts DEF Contexts
  <2>3. Accounts(q)
    BY <1>0, <2>2, RequestFacts DEF Accounts
  <2>4. Entitlement(q, held[r])
    BY <1>0, <1>3, <2>1, <2>2, RequestFacts DEF Entitlement, Forwarding
  <2>5. req' = [req EXCEPT ![r] = q]
    BY <1>3 DEF GInv, TypeOK
  <2> HIDE DEF q
  <2> QED BY <2>2, <2>3, <2>4, <2>5, RequestFacts, RequestInv DEF APILookupMiddleware
<1> QED BY <1>1, <1>2, <1>3 DEF APILookupMiddleware

\* A subscription that is active now has held.
LEMMA SubscriptionInv ==
  ASSUME GInv, Observe, NEW r \in Requests, SubscriptionMiddleware(r)
  PROVE  GInv'
<1>0. req[r].at = "subscription"
  BY DEF SubscriptionMiddleware, InStage
<1>1. CASE Answered(r)
  BY <1>1, RequestFacts, AnsweredInv DEF SubscriptionMiddleware
<1>2. CASE /\ Move(r, "throttle")
           /\ req[r].cred \in Keys /\ req[r].api # NoApi => req[r].api \in subscribed
  <2>1. req[r].cred \in Keys /\ req[r].api # NoApi => <<"subscribed", req[r].api>> \in held[r]
    BY <1>0, <1>2, RequestFacts DEF Holding, About
  <2>2. Entitlement([req[r] EXCEPT !.at = "throttle"], held[r])
    BY <1>0, <2>1, RequestFacts, MovedFacts DEF Entitlement, Forwarding
  <2> QED BY <1>2, <2>2, MoveInv DEF SubscriptionMiddleware
<1> QED BY <1>1, <1>2 DEF SubscriptionMiddleware

\* Throttling asks for nothing that a request is entitled by.
LEMMA ThrottleInv ==
  ASSUME GInv, Observe, NEW r \in Requests, ThrottleMiddleware(r)
  PROVE  GInv'
<1>0. req[r].at = "throttle"
  BY DEF ThrottleMiddleware, InStage
<1>1. CASE Answered(r)
  BY <1>1, RequestFacts, AnsweredInv DEF ThrottleMiddleware
<1>2. CASE Move(r, "cache")
  <2>1. Entitlement([req[r] EXCEPT !.at = "cache"], held[r])
    BY <1>0, RequestFacts, MovedFacts DEF Entitlement, Forwarding
  <2> QED BY <1>2, <2>1, MoveInv DEF ThrottleMiddleware
<1> QED BY <1>1, <1>2 DEF ThrottleMiddleware

\* The context after a step of the proxy or of what follows it: the same request,
\* a later stage.
LEMMA StageInv ==
  ASSUME GInv, Observe, UNCHANGED <<keyVars, tables, cached>>,
         NEW r \in Requests, NEW q \in Contexts, req' = [req EXCEPT ![r] = q],
         req[r].at \in {"cache", "proxy", "analytics"},
         q.at \in {"proxy", "analytics", "fill"},
         q.at = "proxy" => req[r].at \in {"cache", "proxy"},
         q.cred = req[r].cred, q.api = req[r].api, Accounts(q)
  PROVE  GInv'
<1>1. Entitlement(q, held[r])
  BY RequestFacts DEF Entitlement, Forwarding
<1> QED BY <1>1, RequestFacts, RequestInv

\* The request misses the cache, or does not ask it.
LEMMA CacheInv ==
  ASSUME GInv, Observe, NEW r \in Requests, NEW get \in BOOLEAN, NEW body \in BOOLEAN,
         CacheMiddleware(r, get, body)
  PROVE  GInv'
<1>0. req[r].at = "cache"
  BY DEF CacheMiddleware, InStage
<1>1. CASE Answered(r)
  BY <1>1, RequestFacts, AnsweredInv DEF CacheMiddleware
<1>2. ASSUME NEW save \in BOOLEAN,
             req' = [req EXCEPT ![r].at = "proxy", ![r].body = body, ![r].save = save]
      PROVE  GInv'
  <2> DEFINE q == [req[r] EXCEPT !.at = "proxy", !.body = body, !.save = save]
  <2>1. /\ q \in Contexts
        /\ q.at = "proxy" /\ q.api = req[r].api /\ q.cred = req[r].cred
        /\ q.attempt = req[r].attempt /\ q.event = req[r].event
        /\ q.reached = req[r].reached /\ q.whole = req[r].whole /\ q.events = req[r].events
    BY RequestFacts DEF Contexts
  <2>2. Accounts(q)
    BY <1>0, <2>1, RequestFacts DEF Accounts
  <2>3. req' = [req EXCEPT ![r] = q]
    BY <1>2 DEF GInv, TypeOK
  <2> HIDE DEF q
  <2> QED BY <1>0, <2>1, <2>2, <2>3, StageInv DEF CacheMiddleware
<1>3. \A save \in {FALSE, get /\ cached = {}} : save \in BOOLEAN
  OBVIOUS
<1> QED BY <1>1, <1>2, <1>3 DEF CacheMiddleware

-------------------------------------------------------------------------------
(* The proxy *)

\* Nothing was sent.
LEMMA RefuseInv ==
  ASSUME GInv, Observe, NEW r \in Requests, ProxyRefuses(r)
  PROVE  GInv'
<1>0. req[r].at = "proxy"
  BY DEF ProxyRefuses, InStage
<1>1. PICK status \in Statuses :
        /\ req[r].api = NoApi => status = NotFound
        /\ req' = [req EXCEPT ![r].at = "analytics", ![r].status = status]
  BY DEF ProxyRefuses, Statuses
<1> DEFINE q == [req[r] EXCEPT !.at = "analytics", !.status = status]
<1>2. /\ q \in Contexts
      /\ q.at = "analytics" /\ q.api = req[r].api /\ q.cred = req[r].cred
      /\ q.body = req[r].body /\ q.status = status
      /\ q.reached = req[r].reached /\ q.whole = req[r].whole /\ q.events = req[r].events
  BY RequestFacts DEF Contexts
<1>3. Accounts(q)
  BY <1>0, <1>1, <1>2, RequestFacts DEF Accounts
<1>4. req' = [req EXCEPT ![r] = q]
  BY <1>1 DEF GInv, TypeOK
<1> HIDE DEF q
<1> QED BY <1>0, <1>2, <1>3, <1>4, StageInv DEF ProxyRefuses

\* Every attempt may have reached the backend, the first one with the body; of a
\* request whose body cannot be read again only the first.
LEMMA FailsInv ==
  ASSUME GInv, Observe, NEW r \in Requests, AttemptFails(r)
  PROVE  GInv'
<1>0. req[r].at = "proxy" /\ req[r].api # NoApi
  BY DEF AttemptFails, InStage
<1>1. PICK sent \in IF Sends(r) THEN {0, 1} ELSE {0} :
        req' = [req EXCEPT
          ![r].reached = @ + sent,
          ![r].whole = IF CarriesBody(r) THEN @ + sent ELSE @,
          ![r].attempt = IF @ < RetryCount THEN @ + 1 ELSE 0,
          ![r].at = IF req[r].attempt < RetryCount THEN "proxy" ELSE "analytics",
          ![r].status = IF req[r].attempt < RetryCount THEN @ ELSE Failure]
  BY DEF AttemptFails
<1> DEFINE more == req[r].attempt < RetryCount
           carried == IF CarriesBody(r) THEN sent ELSE 0
           reached == req[r].reached + sent
           whole == IF CarriesBody(r) THEN req[r].whole + sent ELSE req[r].whole
           attempt == IF more THEN req[r].attempt + 1 ELSE 0
           at == IF more THEN "proxy" ELSE "analytics"
           status == IF more THEN req[r].status ELSE Failure
           q == [req[r] EXCEPT !.reached = reached, !.whole = whole,
                               !.attempt = attempt, !.at = at, !.status = status]
<1>2. /\ sent \in {0, 1} /\ carried \in {0, 1} /\ carried <= sent
      /\ sent = 1 => ~req[r].body \/ req[r].attempt = 0 \/ BodyLimited
      /\ carried = 1 => ~req[r].body \/ req[r].attempt = 0
  BY DEF Sends, CarriesBody
<1>3. /\ reached \in Nat /\ whole \in Nat /\ whole = req[r].whole + carried
      /\ attempt \in 0..RetryCount /\ status \in Statuses
      /\ at \in {"proxy", "analytics"}
  BY <1>2, RequestFacts DEF Statuses
<1>4. /\ q \in Contexts
      /\ q.at = at /\ q.attempt = attempt /\ q.reached = reached /\ q.whole = whole
      /\ q.api = req[r].api /\ q.cred = req[r].cred /\ q.body = req[r].body
      /\ q.events = req[r].events
  <2> HIDE DEF reached, whole, attempt, at, status
  <2> QED BY <1>3, RequestFacts DEF Contexts
<1>5. req' = [req EXCEPT ![r] = q]
  BY <1>1 DEF GInv, TypeOK
<1> HIDE DEF q, carried
<1>6. /\ req[r].whole <= req[r].reached /\ req[r].reached <= req[r].attempt
      /\ req[r].body => req[r].whole <= 1
      /\ req[r].body /\ ~BodyLimited => req[r].reached <= 1
      /\ req[r].events = 0
  BY <1>0, RequestFacts DEF Accounts
<1>7. /\ q.whole <= q.reached /\ q.reached <= req[r].attempt + 1
      /\ q.reached <= RetryCount + 1
      /\ q.body => q.whole <= 1
      /\ q.body /\ ~BodyLimited => q.reached <= 1
  BY <1>2, <1>3, <1>4, <1>6, RequestFacts
<1>8. Accounts(q)
  BY <1>0, <1>4, <1>6, <1>7, RequestFacts DEF Accounts
<1> QED BY <1>0, <1>4, <1>5, <1>8, StageInv DEF AttemptFails

\* The backend answered an attempt that was sent.
LEMMA SucceedsInv ==
  ASSUME GInv, Observe, NEW r \in Requests, AttemptSucceeds(r)
  PROVE  GInv'
<1>0. /\ req[r].at = "proxy" /\ req[r].api # NoApi
      /\ ~req[r].body \/ req[r].attempt = 0 \/ BodyLimited
  BY DEF AttemptSucceeds, InStage, Sends
<1>1. PICK status \in Statuses :
        req' = [req EXCEPT ![r].at = "analytics", ![r].status = status,
                           ![r].attempt = 0,
                           ![r].reached = @ + 1,
                           ![r].whole = IF CarriesBody(r) THEN @ + 1 ELSE @,
                           ![r].events = @ + EventsOfProxy]
  BY DEF AttemptSucceeds
<1> DEFINE carried == IF CarriesBody(r) THEN 1 ELSE 0
           q == [req[r] EXCEPT !.at = "analytics", !.status = status,
                               !.attempt = 0,
                               !.reached = @ + 1,
                               !.whole = IF CarriesBody(r) THEN @ + 1 ELSE @,
                               !.events = @ + EventsOfProxy]
<1>2. /\ carried \in {0, 1}
      /\ carried = 1 => ~req[r].body \/ req[r].attempt = 0
  BY DEF CarriesBody
<1>3. /\ req[r].reached + 1 \in Nat /\ req[r].whole + carried \in Nat
      /\ (IF CarriesBody(r) THEN req[r].whole + 1 ELSE req[r].whole)
           = req[r].whole + carried
      /\ req[r].events + EventsOfProxy = req[r].events
      /\ 0 \in 0..RetryCount
  BY RequestFacts DEF EventsOfProxy
<1>4. /\ q \in Contexts
      /\ q.at = "analytics" /\ q.api = req[r].api /\ q.cred = req[r].cred
      /\ q.body = req[r].body
      /\ q.reached = req[r].reached + 1 /\ q.whole = req[r].whole + carried
      /\ q.events = req[r].events
  <2> HIDE DEF carried
  <2> QED BY <1>3, RequestFacts DEF Contexts
<1>5. req' = [req EXCEPT ![r] = q]
  BY <1>1 DEF GInv, TypeOK
<1> HIDE DEF q, carried
<1>6. Accounts(q)
  BY <1>0, <1>2, <1>4, RequestFacts DEF Accounts
<1> QED BY <1>0, <1>4, <1>5, <1>6, StageInv DEF AttemptSucceeds

\* The event is on its way.
LEMMA AnalyticsInv ==
  ASSUME GInv, Observe, NEW r \in Requests, AnalyticsMiddleware(r)
  PROVE  GInv'
<1> DEFINE q == [req[r] EXCEPT !.at = "fill", !.event = "pending",
                               !.reached = 0, !.whole = 0]
<1>0. req[r].at = "analytics"
  BY DEF AnalyticsMiddleware, InStage
<1>1. /\ q \in Contexts
      /\ q.at = "fill" /\ q.api = req[r].api /\ q.cred = req[r].cred
      /\ q.status = req[r].status /\ q.event = "pending"
      /\ q.reached = 0 /\ q.whole = 0 /\ q.events = req[r].events
  BY RequestFacts DEF Contexts
<1>2. Accounts(q)
  BY <1>0, <1>1, RequestFacts DEF Accounts
<1>3. req' = [req EXCEPT ![r] = q]
  BY DEF AnalyticsMiddleware, GInv, TypeOK
<1> HIDE DEF q
<1> QED BY <1>0, <1>1, <1>2, <1>3, StageInv DEF AnalyticsMiddleware

\* The event is stored, or lost.
LEMMA InsertEventInv ==
  ASSUME GInv, Observe, NEW r \in Requests, InsertAnalyticsEvent(r)
  PROVE  GInv'
<1>0. req[r].at = "over" /\ req[r].event = "pending"
  BY DEF InsertAnalyticsEvent, InStage
<1>1. req[r].events = 0
  BY <1>0, RequestFacts DEF Accounts
<1>2. ASSUME NEW event \in {"stored", "lost"}, NEW n \in {0, 1},
             n = IF event = "stored" /\ req[r].api # NoApi THEN 1 ELSE 0,
             req' = [req EXCEPT ![r] = [req[r] EXCEPT !.event = event, !.events = n]]
      PROVE  GInv'
  <2> DEFINE q == [req[r] EXCEPT !.event = event, !.events = n]
  <2>0. n \in Nat /\ event \in {"none", "pending", "stored", "lost"}
    OBVIOUS
  <2>1. /\ q \in Contexts
        /\ q.at = "over" /\ q.api = req[r].api /\ q.event = event /\ q.events = n
        /\ q.body = req[r].body /\ q.reached = req[r].reached /\ q.whole = req[r].whole
    BY <1>0, <2>0, RequestFacts DEF Contexts
  <2>2. Entitlement(q, held[r]) /\ Accounts(q)
    BY <1>0, <1>2, <2>1, RequestFacts DEF Entitlement, Accounts, Forwarding
  <2> HIDE DEF q
  <2>3. req' = [req EXCEPT ![r] = q]
    BY <1>2 DEF q
  <2> QED BY <2>1, <2>2, <2>3, RequestFacts, RequestInv DEF InsertAnalyticsEvent
<1>3. CASE req' = [req EXCEPT ![r].event = "stored",
                              ![r].events = IF req[r].api = NoApi THEN @ ELSE @ + 1]
  <2> DEFINE n == IF req[r].api # NoApi THEN 1 ELSE 0
  <2>1. (IF req[r].api = NoApi THEN req[r].events ELSE req[r].events + 1) = n
    BY <1>1
  <2>2. req' = [req EXCEPT ![r] = [req[r] EXCEPT !.event = "stored", !.events = n]]
    BY <1>3, <2>1 DEF GInv, TypeOK
  <2> QED BY <1>2, <2>2
<1>4. CASE req' = [req EXCEPT ![r].event = "lost"]
  <2>1. [req[r] EXCEPT !.event = "lost"] = [req[r] EXCEPT !.event = "lost", !.events = 0]
    BY <1>1, RequestFacts DEF Contexts
  <2>2. req' = [req EXCEPT ![r] = [req[r] EXCEPT !.event = "lost", !.events = 0]]
    BY <1>4, <2>1 DEF GInv, TypeOK
  <2> QED BY <1>2, <2>2
<1> QED BY <1>3, <1>4 DEF InsertAnalyticsEvent

\* The answer may enter the cache.
LEMMA FillInv ==
  ASSUME GInv, Observe, NEW r \in Requests, Fill(r)
  PROVE  GInv'
<1>0. req[r].at = "fill" /\ req[r].events = 0 /\ req[r].event = "pending"
  BY RequestFacts DEF Fill, InStage, Accounts
<1>1. Answer(r) \in Answers
  BY RequestFacts DEF Answer, Answers
<1>2. cached' \in Contents
  BY <1>1, RequestFacts DEF Fill, Contents
<1> DEFINE q == [Fresh EXCEPT !.at = "over", !.api = req[r].api,
                              !.event = req[r].event, !.events = req[r].events]
<1>3. Fresh.reached = 0 /\ Fresh.whole = 0
  BY DEF Fresh
<1>4. /\ q \in Contexts
      /\ q.at = "over" /\ q.event = "pending" /\ q.events = 0
      /\ q.reached = 0 /\ q.whole = 0
  BY <1>0, <1>3, FreshFacts, RequestFacts DEF Contexts
<1>5. Entitlement(q, held[r]) /\ Accounts(q)
  BY <1>4 DEF Entitlement, Accounts, Forwarding
<1>6. req' = [req EXCEPT ![r] = q]
  BY DEF Fill, Done
<1> HIDE DEF q
<1> QED BY <1>2, <1>4, <1>5, <1>6, RequestInv DEF Fill

-------------------------------------------------------------------------------
(* The inductive invariant *)

\* Before the first request.
LEMMA InitGInv == Init => GInv
<1> SUFFICES ASSUME Init PROVE GInv
  OBVIOUS
<1>1. IInv
  BY InitInv DEF Init
<1>2. TypeOK
  BY <1>1, FreshFacts DEF Init, IInv, TypeOK, Contents
<1>3. Observed
  BY FreshFacts DEF Init, Observed, Checking
<1>4. \A r \in Requests : Entitlement(req[r], held[r]) /\ Accounts(req[r])
  BY FreshFacts DEF Init
<1> QED BY <1>1, <1>2, <1>3, <1>4 DEF GInv

\* Every step of a request.
LEMMA ServeInv ==
  ASSUME GInv, Observe, NEW r \in Requests, Serve(r)
  PROVE  GInv'
BY ArriveInv, AuthInv, LookupInv, SubscriptionInv, ThrottleInv, CacheInv, RefuseInv,
   FailsInv, SucceedsInv, AnalyticsInv, InsertEventInv, FillInv DEF Serve

\* What the rest of the system does between the steps of a request.
LEMMA TablesInv ==
  ASSUME GInv, Observe, UNCHANGED req,
         \/ \E a \in Apis : ChangeStatus(a) \/ Subscribe(a) \/ Unsubscribe(a)
         \/ RevokeToken \/ Uncache \/ ManageKeys
  PROVE  GInv'
<1>1. [KeyNext]_keyVars
  BY DEF ChangeStatus, Subscribe, Unsubscribe, RevokeToken, Uncache, ManageKeys
<1>2. published' \subseteq Apis /\ subscribed' \subseteq Apis /\ token' \in BOOLEAN
  BY DEF GInv, TypeOK, tables, ChangeStatus, Subscribe, Unsubscribe, RevokeToken,
         Uncache, ManageKeys
<1>3. cached' \in Contents
  BY DEF GInv, TypeOK, Contents, ChangeStatus, Subscribe, Unsubscribe, RevokeToken,
         Uncache, ManageKeys
<1>4. /\ req' \in [Requests -> Contexts]
      /\ \A s \in Requests : Entitlement(req'[s], held[s]) /\ Accounts(req'[s])
  BY DEF GInv, TypeOK
<1> QED BY <1>1, <1>2, <1>3, <1>4, ObserveInv

\* Every step.
LEMMA StepGInv == GInv /\ [Next]_vars => GInv'
<1> SUFFICES ASSUME GInv, [Next]_vars PROVE GInv'
  OBVIOUS
<1>1. ASSUME NEW r \in Requests, Serve(r), Observe PROVE GInv'
  BY <1>1, ServeInv
<1>2. ASSUME \/ \E a \in Apis : ChangeStatus(a) \/ Subscribe(a) \/ Unsubscribe(a)
             \/ RevokeToken \/ Uncache \/ ManageKeys,
             Observe
      PROVE  GInv'
  BY <1>2, TablesInv
     DEF ChangeStatus, Subscribe, Unsubscribe, RevokeToken, Uncache, ManageKeys
<1>3. CASE UNCHANGED vars
  <2>1. UNCHANGED keyVars
    BY <1>3 DEF vars
  <2>2. IInv'
    BY <2>1, StepInv DEF GInv
  <2>3. UNCHANGED <<published, subscribed, token, cached, req, held, row>>
    BY <1>3 DEF vars, keyVars, gatewayVars, tables
  <2>4. TypeOK'
    BY <2>2, <2>3 DEF GInv, TypeOK, IInv
  <2>5. Observed'
    BY <2>3 DEF GInv, Observed, Holding, Valid
  <2> QED BY <2>2, <2>3, <2>4, <2>5 DEF GInv
<1> QED BY <1>1, <1>2, <1>3 DEF Next

-------------------------------------------------------------------------------
(* Theorems *)

\* The invariant holds throughout.
LEMMA GatewayInvariant == Spec => []GInv
<1> QED BY InitGInv, StepGInv, PTL DEF Spec

\* The gateway does to the key manager nothing that the key manager does not do by
\* itself: every property of ApiKeys holds in the composition.
THEOREM KeysUndisturbed == Spec => KeySpec
<1>1. Init => KeyInit
  BY DEF Init
<1>2. [Next]_vars => [KeyNext]_keyVars
  <2>1. ASSUME NEW r \in Requests, Serve(r) PROVE UNCHANGED keyVars
    BY <2>1 DEF Serve, Arrive, AuthMiddleware, APILookupMiddleware, SubscriptionMiddleware,
                ThrottleMiddleware, CacheMiddleware, ProxyRefuses, AttemptFails,
                AttemptSucceeds, AnalyticsMiddleware, InsertAnalyticsEvent, Fill
  <2>2. CASE UNCHANGED vars
    BY <2>2 DEF vars
  <2> QED BY <2>1, <2>2
          DEF Next, ChangeStatus, Subscribe, Unsubscribe, RevokeToken, Uncache, ManageKeys
<1> QED BY <1>1, <1>2, PTL DEF Spec, KeySpec

\* Every reachable state of the pipeline is well typed.
THEOREM GatewayTypeCorrect == Spec => []TypeOK
<1>1. GInv => TypeOK
  BY DEF GInv
<1> QED BY <1>1, GatewayInvariant, PTL

\* A backend is sent only what somebody was entitled to while the request was
\* being checked, whatever the tables do between two middlewares.
THEOREM OnlyEntitled == Spec => []Entitled
<1>1. GInv => Entitled
  BY DEF GInv, Entitled, EntitledTo, Entitlement, Forwarding, InStage
<1> QED BY <1>1, GatewayInvariant, PTL

\* The body of a request reaches a backend at most once, however many attempts send
\* the request.
THEOREM BodySentOnce == Spec => []BodyOnce
<1>1. GInv => BodyOnce
  BY DEF GInv, BodyOnce, Accounts
<1> QED BY <1>1, GatewayInvariant, PTL

\* A request counts once if its event was stored, however many attempts it took.
THEOREM CountedOnce == Spec => []UsageOnce
<1>1. GInv => UsageOnce
  BY DEF GInv, UsageOnce, Accounts, InStage
<1> QED BY <1>1, GatewayInvariant, PTL

\* The cache is filled on behalf of entitled requests only.
THEOREM OnlyEntitledCached == Spec => CachesEntitled
<1>1. GInv /\ [Next]_vars =>
        [\A x \in cached' \ cached :
           \E r \in Requests :
             /\ InStage(r, "fill") /\ req[r].save /\ x = Answer(r)
             /\ x.status \in CacheableStatusCodes
             /\ IF x.api = NoApi THEN x.status = NotFound ELSE EntitledTo(r, x.api)]_vars
  <2> SUFFICES ASSUME GInv, Next, NEW x \in cached' \ cached
               PROVE  \E r \in Requests :
                        /\ InStage(r, "fill") /\ req[r].save /\ x = Answer(r)
                        /\ x.status \in CacheableStatusCodes
                        /\ IF x.api = NoApi THEN x.status = NotFound
                           ELSE EntitledTo(r, x.api)
    OBVIOUS
  <2>1. PICK r \in Requests : Fill(r)
    BY DEF Next, Serve, Arrive, AuthMiddleware, APILookupMiddleware, SubscriptionMiddleware,
           ThrottleMiddleware, CacheMiddleware, ProxyRefuses, AttemptFails, AttemptSucceeds,
           AnalyticsMiddleware, InsertAnalyticsEvent, Fill, ChangeStatus, Subscribe,
           Unsubscribe, RevokeToken, Uncache, ManageKeys
  <2>2. /\ InStage(r, "fill") /\ req[r].save /\ req[r].status \in CacheableStatusCodes
        /\ cached' = {Answer(r)}
    BY <2>1 DEF Fill
  <2>3. x = Answer(r) /\ x.api = req[r].api /\ x.status = req[r].status
    BY <2>2 DEF Answer
  <2>4. Entitlement(req[r], held[r]) /\ Accounts(req[r])
    BY DEF GInv
  <2>5. CASE x.api = NoApi
    BY <2>2, <2>3, <2>4, <2>5 DEF Accounts, InStage
  <2>6. CASE x.api # NoApi
    <3>1. EntitledTo(r, x.api)
      BY <2>2, <2>3, <2>4, <2>6 DEF Entitlement, EntitledTo, Forwarding, InStage
    <3> QED BY <2>2, <2>3, <2>6, <3>1
  <2> QED BY <2>5, <2>6
<1> QED BY <1>1, GatewayInvariant, PTL DEF Spec, CachesEntitled
===============================================================================
