--------------------------- MODULE GatewayProofs ---------------------------
(***************************************************************************)
(* Theorems about Gateway, for any number of requests and keys, any limit  *)
(* of attempts and any thresholds, cooldowns and quotas.                   *)
(*                                                                         *)
(* The argument: a request that sleeps, calls, drains or relays holds a    *)
(* key that it has tried (Held), the keys it has tried never exceed its    *)
(* limit and reach it when it fails (Bounded).  Every way from one await   *)
(* to the next leaves in the counts the calls of the other requests and    *)
(* adds its own, so that they are exact (AdvanceGood, ReturnGood).         *)
(***************************************************************************)
EXTENDS Gateway, FiniteSetTheorems, TLAPS

Held ==
  \A r \in Requests :
    phase[r] \in {"sleep", "call", "drain", "relay"} => cur[r] \in tried[r]

Bounded ==
  \A r \in Requests :
    /\ Cardinality(tried[r]) <= Limit(cand[r])
    /\ answer[r] = "failed" => phase[r] = "done" /\ Cardinality(tried[r]) = Limit(cand[r])

\* What Next lets a request do.
Step(r) ==
  \/ Reject(r) \/ Arrive(r)
  \/ WakeUp(r) \/ WakeUpNowhere(r)
  \/ Outcome(r)
  \/ \E tokens \in 0 .. MaxTokens : StreamEnds(r, tokens)
  \/ StreamUnread(r)

Good == TypeOK /\ Held /\ Bounded /\ ActiveCallsCounted

Busy(r, k) == phase[r] \in {"call", "drain"} /\ cur[r] = k
Others(r, k) == InCall(k) \ {r}

(***************************************************************************)
(* The operations that a request makes on the record of a key              *)
(***************************************************************************)
LEMMA NewKeyType ==
  ASSUME NEW q \in Quotas, NEW o \in BOOLEAN
  PROVE  NewKey(q, o) \in KeyRecords
BY ThresholdAssumption, CooldownAssumption, QuotaAssumption
   DEF NewKey, KeyRecords, Statuses, NoCooldown

LEMMA HealthType ==
  ASSUME NEW r \in KeyRecords, NEW s \in Statuses,
         NEW n \in 0 .. MaxFailures, NEW c \in NoCooldown .. QuotaCooldown
  PROVE  WithHealth(r, s, n, c) \in KeyRecords
BY DEF WithHealth, KeyRecords

LEMMA OperationTypes ==
  ASSUME NEW r \in KeyRecords
  PROVE  /\ Succeeded(r) \in KeyRecords /\ Recovered(r) \in KeyRecords /\ Aged(r) \in KeyRecords
         /\ \A c \in Categories : Failed(r, c) \in KeyRecords
         /\ \A s \in Statuses : WithStatus(r, s) \in KeyRecords
         /\ \A t \in Nat : QuotaRecorded(r, t) \in KeyRecords
<1> USE ThresholdAssumption, CooldownAssumption
<1>1. Succeeded(r) \in KeyRecords /\ Recovered(r) \in KeyRecords
  BY HealthType DEF Succeeded, Recovered, Statuses, NoCooldown
<1>2. Aged(r) \in KeyRecords
  BY DEF Aged, InCooldown, KeyRecords, NoCooldown
<1>3. \A c \in Categories : Failed(r, c) \in KeyRecords
  <2>1. Capped(r.failures + 1, MaxFailures) \in 0 .. MaxFailures
    BY DEF Capped, KeyRecords
  <2>2. r.status \in Statuses /\ r.cooldown \in NoCooldown .. QuotaCooldown
    BY DEF KeyRecords
  <2>3. /\ {"exhausted", "error"} \subseteq Statuses
        /\ {QuotaCooldown, ErrorCooldown} \subseteq NoCooldown .. QuotaCooldown
    BY DEF Statuses, NoCooldown
  <2> QED BY <2>1, <2>2, <2>3, HealthType DEF Failed
<1>4. \A s \in Statuses : WithStatus(r, s) \in KeyRecords
  BY DEF WithStatus, WithHealth, KeyRecords, Statuses, NoCooldown
<1>5. ASSUME NEW t \in Nat PROVE QuotaRecorded(r, t) \in KeyRecords
  <2>1. Accounted(r, t) \in KeyRecords
    BY QuotaAssumption DEF Accounted, Capped, KeyRecords
  <2>2. \A s \in KeyRecords : Evaluated(s) \in KeyRecords
    BY DEF Evaluated, KeyRecords, Statuses
  <2> QED BY <2>1, <2>2 DEF QuotaRecorded
<1> QED BY <1>1, <1>2, <1>3, <1>4, <1>5

(***************************************************************************)
(* Sets of keys and of requests                                            *)
(***************************************************************************)
LEMMA KeySetsFinite ==
  ASSUME NEW c \in SUBSET Keys PROVE IsFiniteSet(c) /\ Cardinality(c) \in Nat
BY FiniteAssumption, FS_Subset, FS_CardinalityType

LEMMA LimitType ==
  ASSUME NEW c \in SUBSET Keys PROVE Limit(c) \in Nat /\ Limit(c) <= MaxRetry
BY KeySetsFinite, RetryAssumption DEF Limit

LEMMA InCallFinite ==
  ASSUME NEW k PROVE IsFiniteSet(InCall(k)) /\ Cardinality(InCall(k)) \in Nat
<1>1. InCall(k) \subseteq Requests
  BY DEF InCall
<1> QED
  BY <1>1, FiniteAssumption, FS_Subset, FS_CardinalityType

\* A request that does not call leaves the count to the others ...
LEMMA IdleCount ==
  ASSUME Good, NEW r \in Requests, phase[r] \notin {"call", "drain"}
  PROVE  \A k \in Keys : active[k] = Cardinality(Others(r, k))
<1>1. \A k \in Keys : Others(r, k) = InCall(k)
  BY DEF Others, InCall
<1> QED
  BY <1>1 DEF Good, ActiveCallsCounted

\* ... and one that calls is counted once, so that giving its call back is exact.
LEMMA LeftCount ==
  ASSUME Good, NEW r \in Requests, phase[r] \in {"call", "drain"}
  PROVE  /\ cur[r] \in Keys
         /\ Left(active, cur[r]) \in [Keys -> Nat]
         /\ \A k \in Keys : Left(active, cur[r])[k] = Cardinality(Others(r, k))
<1>1. cur[r] \in Keys
  BY DEF Good, Held, TypeOK
<1>2. active \in [Keys -> Nat]
  BY DEF Good, TypeOK
<1>3. Left(active, cur[r]) \in [Keys -> Nat]
  BY <1>1, <1>2 DEF Left
<1>4. ASSUME NEW k \in Keys PROVE Left(active, cur[r])[k] = Cardinality(Others(r, k))
  <2>1. CASE k = cur[r]
    <3>1. r \in InCall(k)
      BY <2>1 DEF InCall
    <3>2. Cardinality(Others(r, k)) = Cardinality(InCall(k)) - 1 /\ Cardinality(Others(r, k)) \in Nat
      BY <3>1, InCallFinite, FS_RemoveElement, FS_CardinalityType DEF Others
    <3>3. active[k] = Cardinality(InCall(k)) /\ Cardinality(InCall(k)) \in Nat
      BY InCallFinite DEF Good, ActiveCallsCounted
    <3> QED
      BY <2>1, <3>2, <3>3, <1>2 DEF Left
  <2>2. CASE k # cur[r]
    <3>1. Others(r, k) = InCall(k)
      BY <2>2 DEF Others, InCall
    <3> QED
      BY <2>2, <3>1, <1>1, <1>2 DEF Left, Good, ActiveCallsCounted
  <2> QED
    BY <2>1, <2>2
<1> QED
  BY <1>1, <1>3, <1>4

\* Adding the call of r to those of the others.
LEMMA EnteredCount ==
  ASSUME NEW a \in [Keys -> Nat], NEW r \in Requests, NEW k \in Keys,
         \A j \in Keys : a[j] = Cardinality(Others(r, j))
  PROVE  /\ Entered(a, k) \in [Keys -> Nat]
         /\ Entered(a, k)[k] = Cardinality(Others(r, k) \cup {r})
         /\ \A j \in Keys : j # k => Entered(a, k)[j] = Cardinality(Others(r, j))
<1>1. Entered(a, k) \in [Keys -> Nat]
  BY DEF Entered
<1>2. IsFiniteSet(Others(r, k)) /\ r \notin Others(r, k)
  BY InCallFinite, FS_RemoveElement DEF Others
<1>3. Cardinality(Others(r, k) \cup {r}) = Cardinality(Others(r, k)) + 1
  BY <1>2, FS_AddElement
<1> QED
  BY <1>1, <1>3 DEF Entered

\* What the others do is not changed by r.
LEMMA OthersStay ==
  ASSUME NEW r \in Requests,
         \A s \in Requests : s # r => phase'[s] = phase[s] /\ cur'[s] = cur[s]
  PROVE  \A k \in Keys :
           /\ phase'[r] \in {"call", "drain"} /\ cur'[r] = k => InCall(k)' = Others(r, k) \cup {r}
           /\ phase'[r] \notin {"call", "drain"} \/ cur'[r] # k => InCall(k)' = Others(r, k)
BY DEF Others, InCall

(***************************************************************************)
(* From one await to the next                                              *)
(***************************************************************************)

\* What the loop does: it gives up with all attempts used, or takes up a key.
LEMMA AdvanceDoes ==
  ASSUME TypeOK, NEW r \in Requests, NEW p \in [Keys -> KeyRecords], NEW a,
         NEW c \in SUBSET Keys, NEW t \in SUBSET c, Advance(r, p, a, c, t)
  PROVE  /\ pool' \in [Keys -> KeyRecords]
         /\ \E T \in SUBSET c :
              /\ tried' = [tried EXCEPT ![r] = T]
              /\ \/ /\ Cardinality(T) = Limit(c)
                    /\ cur' = [cur EXCEPT ![r] = NoKey]
                    /\ phase' = [phase EXCEPT ![r] = "done"]
                    /\ answer' = [answer EXCEPT ![r] = "failed"]
                    /\ active' = a
                 \/ /\ Cardinality(T) <= Limit(c)
                    /\ \E k \in T :
                         /\ cur' = [cur EXCEPT ![r] = k]
                         /\ \/ phase' = [phase EXCEPT ![r] = "call"] /\ active' = Entered(a, k)
                            \/ phase' = [phase EXCEPT ![r] = "sleep"] /\ active' = a
                    /\ answer' = answer
<1>1. PICK passed \in SUBSET (c \ t), unread \in SUBSET Keys :
        /\ pool' = Unreadable(p, unread)
        /\ \/ Cardinality(t \cup passed) = Limit(c) /\ GiveUp(r, t \cup passed, a)
           \/ /\ Cardinality(t \cup passed) < Limit(c)
              /\ \E k \in c \ (t \cup passed) : TakeUp(r, k, t \cup passed \cup {k}, p, a)
  BY DEF Advance
<1>2. pool' \in [Keys -> KeyRecords]
  <2>1. \A k \in Keys : Failed(p[k], "auth") \in KeyRecords
    BY OperationTypes DEF Categories
  <2> QED
    BY <1>1, <2>1 DEF Unreadable
<1> DEFINE gone == t \cup passed
<1>3. gone \in SUBSET c /\ IsFiniteSet(gone) /\ Cardinality(gone) \in Nat
  BY KeySetsFinite
<1>4. CASE Cardinality(gone) = Limit(c) /\ GiveUp(r, gone, a)
  BY <1>2, <1>3, <1>4 DEF GiveUp
<1>5. CASE Cardinality(gone) < Limit(c) /\ \E k \in c \ gone : TakeUp(r, k, gone \cup {k}, p, a)
  <2>1. PICK k \in c \ gone : TakeUp(r, k, gone \cup {k}, p, a)
    BY <1>5
  <2>2. Cardinality(gone \cup {k}) = Cardinality(gone) + 1
    BY <1>3, FS_AddElement
  <2>3. Cardinality(gone \cup {k}) <= Limit(c) /\ gone \cup {k} \in SUBSET c
    BY <2>2, <1>3, <1>5, LimitType
  <2> HIDE DEF gone
  <2> QED
    BY <1>2, <2>1, <2>3 DEF TakeUp
<1> QED
  BY <1>1, <1>4, <1>5

\* If a holds the calls of the other requests, the loop leaves all exact.
LEMMA AdvanceGood ==
  ASSUME Good, NEW r \in Requests, NEW p \in [Keys -> KeyRecords], NEW a \in [Keys -> Nat],
         \A k \in Keys : a[k] = Cardinality(Others(r, k)),
         NEW c \in SUBSET Keys, NEW t \in SUBSET c, Advance(r, p, a, c, t),
         cand' = [cand EXCEPT ![r] = c], stream' \in [Requests -> BOOLEAN],
         cached' \in SUBSET Keys, answer[r] # "failed"
  PROVE  Good'
<1>e. ASSUME NEW k \in Keys
      PROVE  /\ Entered(a, k) \in [Keys -> Nat]
             /\ Entered(a, k)[k] = Cardinality(Others(r, k) \cup {r})
             /\ \A j \in Keys : j # k => Entered(a, k)[j] = Cardinality(Others(r, j))
  BY EnteredCount
<1> USE DEF Good
<1>1. pool' \in [Keys -> KeyRecords]
  BY AdvanceDoes
<1>2. PICK T \in SUBSET c :
              /\ tried' = [tried EXCEPT ![r] = T]
              /\ \/ /\ Cardinality(T) = Limit(c)
                    /\ cur' = [cur EXCEPT ![r] = NoKey]
                    /\ phase' = [phase EXCEPT ![r] = "done"]
                    /\ answer' = [answer EXCEPT ![r] = "failed"]
                    /\ active' = a
                 \/ /\ Cardinality(T) <= Limit(c)
                    /\ \E k \in T :
                         /\ cur' = [cur EXCEPT ![r] = k]
                         /\ \/ phase' = [phase EXCEPT ![r] = "call"] /\ active' = Entered(a, k)
                            \/ phase' = [phase EXCEPT ![r] = "sleep"] /\ active' = a
                    /\ answer' = answer
  BY AdvanceDoes
<1>3. T \in SUBSET Keys /\ Limit(c) \in Nat
  BY LimitType
<1>4. /\ cand' \in [Requests -> SUBSET Keys] /\ tried' \in [Requests -> SUBSET Keys]
      /\ cand'[r] = c /\ tried'[r] = T
      /\ \A s \in Requests : s # r => cand'[s] = cand[s] /\ tried'[s] = tried[s]
  BY <1>2, <1>3 DEF TypeOK
<1>5. CASE /\ Cardinality(T) = Limit(c)
           /\ cur' = [cur EXCEPT ![r] = NoKey]
           /\ phase' = [phase EXCEPT ![r] = "done"]
           /\ answer' = [answer EXCEPT ![r] = "failed"]
           /\ active' = a
  <2>1. TypeOK'
    BY <1>1, <1>4, <1>5 DEF TypeOK, Phases, Answers
  <2>2. Held'
    BY <1>4, <1>5 DEF TypeOK, Held
  <2>3. Bounded'
    BY <1>3, <1>4, <1>5 DEF TypeOK, Bounded, Limit
  <2>4. \A s \in Requests : s # r => phase'[s] = phase[s] /\ cur'[s] = cur[s]
    BY <1>5 DEF TypeOK
  <2>5. phase'[r] = "done"
    BY <1>5 DEF TypeOK
  <2>6. \A k \in Keys : InCall(k)' = Others(r, k)
    BY <2>4, <2>5, OthersStay
  <2> QED
    BY <2>1, <2>2, <2>3, <2>6, <1>5 DEF ActiveCallsCounted
<1>6. CASE /\ Cardinality(T) <= Limit(c)
           /\ \E k \in T :
                /\ cur' = [cur EXCEPT ![r] = k]
                /\ \/ phase' = [phase EXCEPT ![r] = "call"] /\ active' = Entered(a, k)
                   \/ phase' = [phase EXCEPT ![r] = "sleep"] /\ active' = a
           /\ answer' = answer
  <2>1. PICK k \in T :
          /\ cur' = [cur EXCEPT ![r] = k]
          /\ \/ phase' = [phase EXCEPT ![r] = "call"] /\ active' = Entered(a, k)
             \/ phase' = [phase EXCEPT ![r] = "sleep"] /\ active' = a
    BY <1>6
  <2>2. k \in Keys /\ k # NoKey
    BY <1>3, NoKeyAssumption
  <2>3. active' \in [Keys -> Nat]
    BY <2>1, <2>2, <1>e
  <2>4. TypeOK'
    BY <1>1, <1>4, <1>6, <2>1, <2>2, <2>3 DEF TypeOK, Phases
  <2>5. Held'
    BY <1>4, <2>1 DEF TypeOK, Held
  <2>6. Bounded'
    <3>1. \A s \in Requests : s # r => phase'[s] = phase[s]
      BY <2>1 DEF TypeOK
    <3> QED
      BY <1>3, <1>4, <1>6, <3>1 DEF TypeOK, Bounded, Limit
  <2>7. ActiveCallsCounted'
    <3> cur'[r] = k /\ \A s \in Requests : s # r => phase'[s] = phase[s] /\ cur'[s] = cur[s]
      BY <2>1 DEF TypeOK
    <3>1. CASE phase' = [phase EXCEPT ![r] = "call"] /\ active' = Entered(a, k)
      <4>0. phase'[r] = "call"
        BY <3>1 DEF TypeOK
      <4>1. InCall(k)' = Others(r, k) \cup {r} /\ \A j \in Keys : j # k => InCall(j)' = Others(r, j)
        BY <4>0, <2>2, OthersStay
      <4>2. /\ active'[k] = Cardinality(Others(r, k) \cup {r})
            /\ \A j \in Keys : j # k => active'[j] = Cardinality(Others(r, j))
        BY <3>1, <2>2, <1>e
      <4>3. ASSUME NEW j \in Keys PROVE active'[j] = Cardinality(InCall(j)')
        BY <4>1, <4>2
      <4> QED
        BY <4>3 DEF ActiveCallsCounted
    <3>2. CASE phase' = [phase EXCEPT ![r] = "sleep"] /\ active' = a
      <4>0. phase'[r] = "sleep"
        BY <3>2 DEF TypeOK
      <4>1. \A j \in Keys : InCall(j)' = Others(r, j)
        BY <4>0, OthersStay
      <4> QED
        BY <4>1, <3>2 DEF ActiveCallsCounted
    <3> QED
      BY <2>1, <3>1, <3>2
  <2> QED
    BY <2>4, <2>5, <2>6, <2>7
<1> QED
  BY <1>2, <1>5, <1>6

\* The same for a request that returns with an answer.
LEMMA ReturnGood ==
  ASSUME Good, NEW r \in Requests, NEW x \in Answers \ {"failed"}, Return(r, x),
         pool' \in [Keys -> KeyRecords], cached' \in SUBSET Keys,
         active' \in [Keys -> Nat], \A k \in Keys : active'[k] = Cardinality(Others(r, k))
  PROVE  Good'
<1> USE DEF Good
<1>1. /\ phase' = [phase EXCEPT ![r] = "done"] /\ answer' = [answer EXCEPT ![r] = x]
      /\ stream' = [stream EXCEPT ![r] = FALSE] /\ cand' = [cand EXCEPT ![r] = {}]
      /\ tried' = [tried EXCEPT ![r] = {}] /\ cur' = [cur EXCEPT ![r] = NoKey]
  BY DEF Return
<1>2. TypeOK'
  BY <1>1 DEF TypeOK, Phases
<1>3. Held'
  BY <1>1 DEF TypeOK, Held
<1>4. Bounded'
  <2>1. Cardinality({}) = 0 /\ Limit({}) \in Nat
    BY FS_EmptySet, LimitType
  <2> QED
    BY <1>1, <2>1 DEF TypeOK, Bounded, Limit
<1>5. phase'[r] = "done" /\ \A s \in Requests : s # r => phase'[s] = phase[s] /\ cur'[s] = cur[s]
  BY <1>1 DEF TypeOK
<1>6. \A k \in Keys : InCall(k)' = Others(r, k)
  BY <1>5, OthersStay
<1> QED
  BY <1>2, <1>3, <1>4, <1>6 DEF ActiveCallsCounted

(***************************************************************************)
(* Steps                                                                   *)
(***************************************************************************)

\* What an outcome makes of the keys.
LEMMA PoolTypes ==
  ASSUME TypeOK, NEW k \in Keys
  PROVE  /\ \A tokens \in 0 .. MaxTokens : Won(k, tokens) \in [Keys -> KeyRecords]
         /\ \A category \in Categories : Lost(k, category) \in [Keys -> KeyRecords]
         /\ \A s \in {"active", "inactive"} : [pool EXCEPT ![k] = WithStatus(@, s)] \in [Keys -> KeyRecords]
         /\ [pool EXCEPT ![k] = Failed(@, "auth")] \in [Keys -> KeyRecords]
<1>1. pool \in [Keys -> KeyRecords] /\ pool[k] \in KeyRecords
  BY DEF TypeOK
<1>2. ASSUME NEW tokens \in 0 .. MaxTokens PROVE Won(k, tokens) \in [Keys -> KeyRecords]
  <2> DEFINE seen == IF k \in cached THEN Succeeded(pool[k]) ELSE pool[k]
  <2>1. seen \in KeyRecords
    BY <1>1, OperationTypes
  <2>2. tokens \in Nat
    BY RetryAssumption
  <2>3. QuotaRecorded(seen, tokens) \in KeyRecords
    <3> HIDE DEF seen
    <3> QED BY <2>1, <2>2, OperationTypes
  <2> QED
    BY <1>1, <2>3 DEF Won
<1>3. ASSUME NEW category \in Categories PROVE Lost(k, category) \in [Keys -> KeyRecords]
  <2> DEFINE seen == IF k \in cached THEN Failed(pool[k], category) ELSE pool[k]
  <2>1. seen \in KeyRecords
    BY <1>1, OperationTypes
  <2>2. QuotaRecorded(seen, 0) \in KeyRecords
    <3> HIDE DEF seen
    <3> QED BY <2>1, OperationTypes
  <2> QED
    BY <1>1, <2>2 DEF Lost
<1>4. ASSUME NEW s \in {"active", "inactive"}
      PROVE  [pool EXCEPT ![k] = WithStatus(@, s)] \in [Keys -> KeyRecords]
  BY <1>1, OperationTypes DEF Statuses
<1>5. [pool EXCEPT ![k] = Failed(@, "auth")] \in [Keys -> KeyRecords]
  BY <1>1, OperationTypes DEF Categories
<1> QED
  BY <1>2, <1>3, <1>4, <1>5

LEMMA InitGood == Init => Good
<1> SUFFICES ASSUME Init PROVE Good
  OBVIOUS
<1>1. \A k \in Keys : pool[k] \in KeyRecords
  BY NewKeyType DEF Init
<1>2. TypeOK
  BY <1>1 DEF Init, TypeOK, Phases, Answers
<1>3. Held
  BY DEF Init, Held
<1>4. Bounded
  BY FS_EmptySet, LimitType DEF Init, Bounded
<1>5. \A k \in Keys : InCall(k) = {}
  BY DEF Init, InCall
<1>6. ActiveCallsCounted
  BY <1>5, FS_EmptySet DEF Init, ActiveCallsCounted
<1> QED
  BY <1>2, <1>3, <1>4, <1>6 DEF Good

\* Nothing changes but the keys, or a request that never held one is answered.
LEMMA EarlyGood ==
  ASSUME Good, NEW r \in Requests, phase[r] = "new",
         phase' = [phase EXCEPT ![r] = "done"], answer' = [answer EXCEPT ![r] = "early"],
         pool' \in [Keys -> KeyRecords], cached' \in SUBSET Keys,
         UNCHANGED <<active, plan, tried, cur>>
  PROVE  Good'
<1> USE DEF Good
<1>1. TypeOK'
  BY DEF TypeOK, Phases, Answers, plan
<1>2. Held' /\ Bounded'
  BY DEF TypeOK, Held, Bounded, Limit, plan
<1>3. \A k \in Keys : InCall(k)' = InCall(k)
  BY DEF InCall, TypeOK
<1> QED
  BY <1>1, <1>2, <1>3 DEF ActiveCallsCounted

LEMMA KeysChangeGood ==
  ASSUME Good, pool' \in [Keys -> KeyRecords], cached' \in SUBSET Keys,
         UNCHANGED <<active, phase, plan, tried, cur, answer>>
  PROVE  Good'
<1> USE DEF Good
<1>1. TypeOK' /\ Held' /\ Bounded'
  BY DEF TypeOK, Held, Bounded, Limit, plan
<1>2. \A k \in Keys : InCall(k)' = InCall(k)
  BY DEF InCall
<1> QED
  BY <1>1, <1>2 DEF ActiveCallsCounted

\* Once its candidates are listed a request is answered early or takes one up.
LEMMA StartGood ==
  ASSUME Good, NEW r \in Requests, NEW p \in [Keys -> KeyRecords], NEW c \in SUBSET Keys,
         NEW s \in BOOLEAN, Start(r, p, c, s)
  PROVE  Good'
<1>1. cached' \in SUBSET Keys /\ phase[r] = "new" /\ answer[r] # "failed"
  BY DEF Start, Good, TypeOK, Bounded
<1>2. CASE /\ pool' = p
           /\ phase' = [phase EXCEPT ![r] = "done"] /\ answer' = [answer EXCEPT ![r] = "early"]
           /\ UNCHANGED <<active, plan, tried, cur>>
  BY <1>1, <1>2, EarlyGood
<1>3. CASE /\ stream' = [stream EXCEPT ![r] = s] /\ cand' = [cand EXCEPT ![r] = c]
           /\ Advance(r, p, active, c, {})
  <2>1. stream' \in [Requests -> BOOLEAN] /\ active \in [Keys -> Nat]
    BY <1>3 DEF Good, TypeOK
  <2>2. \A k \in Keys : active[k] = Cardinality(Others(r, k))
    BY <1>1, IdleCount
  <2>3. {} \in SUBSET c
    OBVIOUS
  <2> QED
    BY <1>1, <1>3, <2>1, <2>2, <2>3, AdvanceGood
<1> QED
  BY <1>2, <1>3 DEF Start

\* The loop goes on after an attempt, with the calls a of the others.
LEMMA GoOnGood ==
  ASSUME Good, NEW r \in Requests, phase[r] # "done", NEW p \in [Keys -> KeyRecords],
         NEW a \in [Keys -> Nat], \A k \in Keys : a[k] = Cardinality(Others(r, k)),
         Advance(r, p, a, cand[r], tried[r]), cached' \in SUBSET Keys, UNCHANGED plan
  PROVE  Good'
<1>1. cand' = [cand EXCEPT ![r] = cand[r]] /\ stream' \in [Requests -> BOOLEAN]
  BY DEF Good, TypeOK, plan
<1>2. cand[r] \in SUBSET Keys /\ tried[r] \in SUBSET cand[r] /\ answer[r] # "failed"
  BY DEF Good, TypeOK, Bounded
<1> QED
  BY <1>1, <1>2, AdvanceGood

\* The token limit is slept for and the key is called.
LEMMA WakeGood ==
  ASSUME Good, NEW r \in Requests, phase[r] = "sleep",
         phase' = [phase EXCEPT ![r] = "call"], active' = Entered(active, cur[r]),
         UNCHANGED <<pool, cached, plan, tried, cur, answer>>
  PROVE  Good'
<1>1. cur[r] \in Keys /\ active \in [Keys -> Nat]
  BY DEF Good, Held, TypeOK
<1>2. \A k \in Keys : active[k] = Cardinality(Others(r, k))
  BY IdleCount
<1>3. /\ Entered(active, cur[r]) \in [Keys -> Nat]
      /\ Entered(active, cur[r])[cur[r]] = Cardinality(Others(r, cur[r]) \cup {r})
      /\ \A j \in Keys : j # cur[r] => Entered(active, cur[r])[j] = Cardinality(Others(r, j))
  <2> HIDE DEF Entered
  <2> QED
    BY <1>1, <1>2, EnteredCount
<1>4. phase'[r] = "call" /\ cur'[r] = cur[r]
      /\ \A s \in Requests : s # r => phase'[s] = phase[s] /\ cur'[s] = cur[s]
  BY DEF Good, TypeOK
<1>5. /\ InCall(cur[r])' = Others(r, cur[r]) \cup {r}
      /\ \A j \in Keys : j # cur[r] => InCall(j)' = Others(r, j)
  BY <1>1, <1>4, OthersStay
<1>6. ASSUME NEW j \in Keys PROVE active'[j] = Cardinality(InCall(j)')
  <2>1. CASE j = cur[r]
    BY <2>1, <1>3, <1>5
  <2>2. CASE j # cur[r]
    BY <2>2, <1>3, <1>5
  <2> QED
    BY <2>1, <2>2
<1>7. TypeOK'
  BY <1>3 DEF Good, TypeOK, Phases, plan
<1>8. Held' /\ Bounded'
  BY DEF Good, TypeOK, Held, Bounded, Limit, plan
<1> QED
  BY <1>6, <1>7, <1>8 DEF Good, ActiveCallsCounted

\* One step per action that a request takes.
LEMMA RequestStep ==
  ASSUME Good, NEW r \in Requests, Step(r)
  PROVE  Good'
<1>t. /\ pool \in [Keys -> KeyRecords] /\ cached \in SUBSET Keys /\ active \in [Keys -> Nat]
      /\ answer[r] \in Answers
  BY DEF Good, TypeOK
<1>h. phase[r] \in {"sleep", "call", "drain", "relay"} => cur[r] \in Keys /\ answer[r] # "failed"
  BY DEF Good, Held, TypeOK, Bounded
<1>k. cur[r] \in Keys => cached \cup {cur[r]} \in SUBSET Keys
  BY <1>t
<1>1. CASE Reject(r)
  BY <1>1, <1>t, EarlyGood DEF Reject, health
<1>2. CASE Arrive(r)
  <2>1. PICK some \in SUBSET Keys, s \in BOOLEAN : Listed(r, some, s) \/ Named(r, some, s)
    BY <1>2 DEF Arrive
  <2>2. CASE Listed(r, some, s)
    <3> DEFINE p == [k \in Keys |-> IF k \in cached THEN Recovered(pool[k]) ELSE pool[k]]
               c == {k \in some \cap cached : Usable(p[k])}
    <3>1. p \in [Keys -> KeyRecords]
      BY <1>t, OperationTypes
    <3>2. c \in SUBSET Keys
      BY <1>t
    <3>3. Start(r, p, c, s)
      BY <2>2 DEF Listed
    <3> HIDE DEF p, c
    <3> QED
      BY <3>1, <3>2, <3>3, StartGood
  <2>3. CASE Named(r, some, s)
    <3> DEFINE c == {k \in some \cap cached : pool[k].status = "active"}
    <3>1. c \in SUBSET Keys
      BY <1>t
    <3>2. Start(r, pool, c, s)
      BY <2>3 DEF Named
    <3> HIDE DEF c
    <3> QED
      BY <3>1, <3>2, <1>t, StartGood
  <2> QED
    BY <2>1, <2>2, <2>3
<1>3. CASE WakeUp(r)
  <2>1. phase[r] = "sleep" /\ cached' = cached /\ UNCHANGED plan
    BY <1>3 DEF WakeUp
  <2>2. \A k \in Keys : active[k] = Cardinality(Others(r, k))
    BY <2>1, IdleCount
  <2>3. CASE /\ phase' = [phase EXCEPT ![r] = "call"] /\ active' = Entered(active, cur[r])
             /\ UNCHANGED <<pool, tried, cur, answer>>
    BY <2>1, <2>3, WakeGood
  <2>4. CASE LET p == IF cur[r] \in cached THEN [pool EXCEPT ![cur[r]] = Failed(@, "auth")] ELSE pool IN
             Advance(r, p, active, cand[r], tried[r])
    <3> DEFINE p == IF cur[r] \in cached THEN [pool EXCEPT ![cur[r]] = Failed(@, "auth")] ELSE pool
    <3>1. p \in [Keys -> KeyRecords]
      BY <1>t, <1>h, <2>1, PoolTypes DEF Good
    <3>2. Advance(r, p, active, cand[r], tried[r])
      BY <2>4
    <3> HIDE DEF p
    <3> QED
      BY <1>t, <2>1, <2>2, <3>1, <3>2, GoOnGood
  <2> QED
    BY <1>3, <2>3, <2>4 DEF WakeUp
<1>4. CASE WakeUpNowhere(r)
  <2>1. phase[r] = "sleep" /\ cached' = cached /\ UNCHANGED plan
        /\ Advance(r, pool, active, cand[r], tried[r])
    BY <1>4 DEF WakeUpNowhere
  <2>2. \A k \in Keys : active[k] = Cardinality(Others(r, k))
    BY <2>1, IdleCount
  <2> QED
    BY <1>t, <2>1, <2>2, GoOnGood
<1>5. ASSUME NEW tokens \in 0 .. MaxTokens, Succeeds(r, tokens) PROVE Good'
  <2>1. phase[r] = "call" /\ cur[r] \in Keys
    BY <1>5, <1>h DEF Succeeds
  <2>2. pool' \in [Keys -> KeyRecords] /\ cached' \in SUBSET Keys
    BY <1>5, <2>1, <1>k, PoolTypes DEF Succeeds, Good
  <2>3. active' \in [Keys -> Nat] /\ \A k \in Keys : active'[k] = Cardinality(Others(r, k))
    BY <1>5, <2>1, LeftCount DEF Succeeds
  <2>4. Return(r, "ok") /\ "ok" \in Answers \ {"failed"}
    BY <1>5 DEF Succeeds, Answers
  <2> QED
    BY <2>2, <2>3, <2>4, ReturnGood
<1>6. ASSUME NEW category \in Categories, Fails(r, category) \/ Drained(r, category) PROVE Good'
  <2>1. phase[r] \in {"call", "drain"} /\ phase[r] # "done" /\ cur[r] \in Keys
    BY <1>6, <1>h DEF Fails, Drained
  <2>2. Lost(cur[r], category) \in [Keys -> KeyRecords] /\ cached' \in SUBSET Keys
    BY <1>6, <2>1, <1>k, PoolTypes DEF Fails, Drained, Good
  <2>3. /\ Left(active, cur[r]) \in [Keys -> Nat]
        /\ \A k \in Keys : Left(active, cur[r])[k] = Cardinality(Others(r, k))
    BY <2>1, LeftCount
  <2>4. Advance(r, Lost(cur[r], category), Left(active, cur[r]), cand[r], tried[r]) /\ UNCHANGED plan
    BY <1>6 DEF Fails, Drained
  <2> QED
    BY <2>1, <2>2, <2>3, <2>4, GoOnGood
<1>7. CASE StreamRefused(r)
  <2>1. TypeOK' /\ Held' /\ Bounded'
    BY <1>7 DEF StreamRefused, Good, TypeOK, Held, Bounded, Limit, plan, health, Phases
  <2>2. \A k \in Keys : InCall(k)' = InCall(k)
    BY <1>7 DEF StreamRefused, InCall, Good, TypeOK
  <2>3. active' = active
    BY <1>7 DEF StreamRefused
  <2> QED
    BY <2>1, <2>2, <2>3 DEF Good, ActiveCallsCounted
<1>8. CASE Breaks(r)
  <2>1. phase[r] \in {"call", "drain"} /\ active' = Left(active, cur[r]) /\ Return(r, "broken") /\ UNCHANGED health
    BY <1>8 DEF Breaks
  <2>2. active' \in [Keys -> Nat] /\ \A k \in Keys : active'[k] = Cardinality(Others(r, k))
    BY <2>1, LeftCount
  <2>3. "broken" \in Answers \ {"failed"}
    BY DEF Answers
  <2> QED
    BY <1>t, <2>1, <2>2, <2>3, ReturnGood DEF health
<1>9. CASE StreamOpens(r)
  <2>1. phase[r] = "call" /\ active' = Left(active, cur[r]) /\ phase' = [phase EXCEPT ![r] = "relay"]
        /\ answer' = [answer EXCEPT ![r] = "ok"] /\ UNCHANGED <<health, plan, tried, cur>>
    BY <1>9 DEF StreamOpens
  <2>2. active' \in [Keys -> Nat] /\ \A k \in Keys : active'[k] = Cardinality(Others(r, k))
    BY <2>1, LeftCount
  <2>3. TypeOK'
    BY <2>1, <2>2 DEF Good, TypeOK, Phases, Answers, plan, health
  <2>4. Held' /\ Bounded'
    BY <2>1 DEF Good, TypeOK, Held, Bounded, Limit, plan
  <2>5. phase'[r] = "relay" /\ \A s \in Requests : s # r => phase'[s] = phase[s] /\ cur'[s] = cur[s]
    BY <2>1 DEF Good, TypeOK
  <2>6. \A k \in Keys : InCall(k)' = Others(r, k)
    BY <2>5, OthersStay
  <2> QED
    BY <2>2, <2>3, <2>4, <2>6 DEF Good, ActiveCallsCounted
<1>10. ASSUME NEW tokens \in 0 .. MaxTokens, StreamEnds(r, tokens) PROVE Good'
  <2>1. phase[r] = "relay" /\ cur[r] \in Keys /\ answer[r] \in Answers \ {"failed"}
    BY <1>10, <1>h, <1>t DEF StreamEnds
  <2>2. pool' \in [Keys -> KeyRecords] /\ cached' \in SUBSET Keys
    BY <1>10, <2>1, <1>k, PoolTypes DEF StreamEnds, Good
  <2>3. active' = active /\ Return(r, answer[r])
    BY <1>10 DEF StreamEnds
  <2>4. \A k \in Keys : active[k] = Cardinality(Others(r, k))
    BY <2>1, IdleCount
  <2> QED
    BY <1>t, <2>1, <2>2, <2>3, <2>4, ReturnGood
<1>11. CASE StreamUnread(r)
  <2>1. phase[r] = "relay" /\ UNCHANGED <<health, active>> /\ Return(r, answer[r])
    BY <1>11 DEF StreamUnread
  <2>2. answer[r] \in Answers \ {"failed"}
    BY <2>1, <1>h, <1>t
  <2>3. \A k \in Keys : active[k] = Cardinality(Others(r, k))
    BY <2>1, IdleCount
  <2> QED
    BY <1>t, <2>1, <2>2, <2>3, ReturnGood DEF health
<1> QED
  BY <1>1, <1>2, <1>3, <1>4, <1>5, <1>6, <1>7, <1>8, <1>9, <1>10, <1>11 DEF Step, Outcome

LEMMA GoodStep == Good /\ [Next]_vars => Good'
<1> SUFFICES ASSUME Good, [Next]_vars PROVE Good'
  OBVIOUS
<1>t. pool \in [Keys -> KeyRecords] /\ cached \in SUBSET Keys
  BY DEF Good, TypeOK
<1>1. ASSUME NEW r \in Requests, Step(r) PROVE Good'
  BY <1>1, RequestStep
<1>2. ASSUME NEW k \in Managed, NEW s \in {"active", "inactive"}, SetStatus(k, s) PROVE Good'
  <2>1. pool' \in [Keys -> KeyRecords] /\ cached' \in SUBSET Keys
    BY <1>2, <1>t, PoolTypes, ManagedAssumption DEF SetStatus, Good
  <2> QED
    BY <1>2, <2>1, KeysChangeGood DEF SetStatus
<1>3. ASSUME NEW k \in Managed, Delete(k) PROVE Good'
  <2>1. pool' \in [Keys -> KeyRecords] /\ cached' \in SUBSET Keys
    BY <1>3, <1>t DEF Delete
  <2> QED
    BY <1>3, <2>1, KeysChangeGood DEF Delete
<1>4. CASE Tick
  <2>1. pool' \in [Keys -> KeyRecords] /\ cached' \in SUBSET Keys
    BY <1>4, <1>t, OperationTypes DEF Tick
  <2> QED
    BY <1>4, <2>1, KeysChangeGood DEF Tick
<1>5. CASE UNCHANGED vars
  BY <1>5, <1>t, KeysChangeGood DEF vars, health
<1> QED
  BY <1>1, <1>2, <1>3, <1>4, <1>5 DEF Next, Step

LEMMA AlwaysGood == Spec => []Good
BY InitGood, GoodStep, PTL DEF Spec

\* Every variable of Gateway keeps its type, and a request is busy with a key
\* that is among its candidates.
THEOREM GatewayTypeCorrect == Spec => []TypeOK
<1>1. Good => TypeOK
  BY DEF Good
<1> QED
  BY <1>1, AlwaysGood, PTL

\* However many requests fail over, break, stream and return, in whatever order,
\* the number of active calls of a key is the number of calls under way with it.
THEOREM ActiveCallsAreCounted == Spec => []ActiveCallsCounted
<1>1. Good => ActiveCallsCounted
  BY DEF Good
<1> QED
  BY <1>1, AlwaysGood, PTL

\* For any limit and any number of candidates: no request uses more keys than
\* it may, and none is told that all failed before it has used as many.
THEOREM FailsOnlyWhenExhausted == Spec => []FailsWhenExhausted
<1>1. Good => FailsWhenExhausted
  <2> SUFFICES ASSUME Good, NEW r \in Requests
               PROVE  /\ Cardinality(tried[r]) <= MaxRetry
                      /\ answer[r] = "failed" => Cardinality(tried[r]) = Limit(cand[r])
    BY DEF FailsWhenExhausted
  <2>1. cand[r] \in SUBSET Keys /\ tried[r] \in SUBSET Keys
    BY DEF Good, TypeOK
  <2>2. Cardinality(tried[r]) \in Nat /\ Limit(cand[r]) \in Nat /\ Limit(cand[r]) <= MaxRetry
    BY <2>1, KeySetsFinite, LimitType
  <2>3. Cardinality(tried[r]) <= Limit(cand[r])
    BY DEF Good, Bounded
  <2>4. answer[r] = "failed" => Cardinality(tried[r]) = Limit(cand[r])
    BY DEF Good, Bounded
  <2> QED
    BY <2>2, <2>3, <2>4, RetryAssumption
<1> QED
  BY <1>1, AlwaysGood, PTL

(***************************************************************************)
(* How long a request can take: what is left of EveryRequestAnswered when  *)
(* its fairness is taken away                                              *)
(***************************************************************************)

\* The steps that a request has yet to take at most: an attempt sleeps, calls, and
\* drains an error or relays a stream.
Stage(p) == CASE p = "sleep" -> 3 [] p = "call" -> 2 [] OTHER -> 1
StepsLeft(r) ==
  CASE phase[r] = "new" -> 3 * MaxRetry + 1
    [] phase[r] = "done" -> 0
    [] OTHER -> 3 * (MaxRetry - Cardinality(tried[r])) + Stage(phase[r])

\* A request takes at most three steps per attempt and one to arrive.
StepsAreBounded == \A r \in Requests : StepsLeft(r) \in 0 .. 3 * MaxRetry + 1

\* Each of its steps counts, whatever it meets, and nobody else's do.
EveryStepCounts ==
  [][\A r \in Requests :
       IF Step(r) THEN StepsLeft(r)' < StepsLeft(r) ELSE StepsLeft(r)' = StepsLeft(r)]_vars

LEMMA BoundedSteps == Good => StepsAreBounded
<1> SUFFICES ASSUME Good, NEW r \in Requests PROVE StepsLeft(r) \in 0 .. 3 * MaxRetry + 1
  BY DEF StepsAreBounded
<1>1. cand[r] \in SUBSET Keys /\ tried[r] \in SUBSET Keys /\ phase[r] \in Phases
  BY DEF Good, TypeOK
<1>2. Cardinality(tried[r]) \in Nat /\ Cardinality(tried[r]) <= MaxRetry
  BY <1>1, KeySetsFinite, LimitType, RetryAssumption DEF Good, Bounded
<1>3. phase[r] \in {"sleep", "call", "drain", "relay"} => Cardinality(tried[r]) >= 1
  <2> SUFFICES ASSUME cur[r] \in tried[r] PROVE Cardinality(tried[r]) >= 1
    BY DEF Good, Held
  <2>1. tried[r] # {} /\ IsFiniteSet(tried[r])
    BY <1>1, KeySetsFinite
  <2> QED BY <1>2, <2>1, FS_EmptySet
<1>4. Stage(phase[r]) \in 1 .. 3
  BY DEF Stage
<1> QED BY <1>1, <1>2, <1>3, <1>4, RetryAssumption DEF StepsLeft, Phases

\* The loop gives up, or takes up a key that was not tried.
LEMMA AdvanceCounts ==
  ASSUME TypeOK, NEW r \in Requests, NEW p, NEW a,
         NEW c \in SUBSET Keys, NEW t \in SUBSET c, Advance(r, p, a, c, t)
  PROVE  /\ \A s \in Requests \ {r} : phase'[s] = phase[s] /\ tried'[s] = tried[s]
         /\ \/ phase'[r] = "done"
            \/ /\ phase'[r] \in {"sleep", "call"}
               /\ tried'[r] \in SUBSET Keys
               /\ Cardinality(t) < Cardinality(tried'[r])
<1>1. PICK passed \in SUBSET (c \ t) :
        \/ GiveUp(r, t \cup passed, a)
        \/ \E k \in c \ (t \cup passed) : TakeUp(r, k, t \cup passed \cup {k}, p, a)
  BY DEF Advance
<1>2. CASE GiveUp(r, t \cup passed, a)
  BY <1>2 DEF GiveUp, TypeOK
<1>3. ASSUME NEW k \in c \ (t \cup passed), TakeUp(r, k, t \cup passed \cup {k}, p, a)
      PROVE  /\ \A s \in Requests \ {r} : phase'[s] = phase[s] /\ tried'[s] = tried[s]
             /\ phase'[r] \in {"sleep", "call"}
             /\ tried'[r] \in SUBSET Keys
             /\ Cardinality(t) < Cardinality(tried'[r])
  <2> DEFINE T == t \cup passed \cup {k}
  <2>1. /\ tried' = [tried EXCEPT ![r] = T]
        /\ \/ phase' = [phase EXCEPT ![r] = "call"]
           \/ phase' = [phase EXCEPT ![r] = "sleep"]
    BY <1>3 DEF TakeUp
  <2>2. T \in SUBSET Keys /\ t \in SUBSET T /\ t # T
    BY <1>3
  <2> HIDE DEF T
  <2>3. Cardinality(t) < Cardinality(T)
    BY <2>2, KeySetsFinite, FS_Subset
  <2> QED BY <2>1, <2>2, <2>3 DEF TypeOK
<1> QED BY <1>1, <1>2, <1>3

\* Each step of a request leaves the others where they are.
LEMMA StepCounts ==
  ASSUME Good, NEW r \in Requests, Step(r)
  PROVE  /\ StepsLeft(r)' < StepsLeft(r)
         /\ \A s \in Requests \ {r} : phase'[s] = phase[s] /\ tried'[s] = tried[s]
<1>1. TypeOK /\ cand[r] \in SUBSET Keys /\ tried[r] \in SUBSET cand[r]
  BY DEF Good, TypeOK
<1>2. StepsLeft(r) \in Nat /\ (phase[r] # "done" => StepsLeft(r) >= 1)
  <2>1. StepsLeft(r) \in Nat
    BY BoundedSteps, RetryAssumption DEF StepsAreBounded
  <2>2. Cardinality(tried[r]) \in Nat /\ Cardinality(tried[r]) <= MaxRetry
    BY <1>1, KeySetsFinite, LimitType, RetryAssumption DEF Good, Bounded
  <2>3. Stage(phase[r]) \in 1 .. 3
    BY DEF Stage
  <2> QED BY <2>1, <2>2, <2>3, RetryAssumption DEF StepsLeft
<1>3. ASSUME phase'[r] = "done", phase[r] # "done" PROVE StepsLeft(r)' < StepsLeft(r)
  BY <1>2, <1>3 DEF StepsLeft
\* From one await of an attempt to the next.
<1>4. ASSUME phase[r] \in {"sleep", "call"}, phase'[r] \in {"call", "drain", "relay"},
             phase[r] = "sleep" => phase'[r] = "call",
             phase[r] = "call" => phase'[r] # "call", tried'[r] = tried[r]
      PROVE  StepsLeft(r)' < StepsLeft(r)
  <2>1. Cardinality(tried[r]) \in Nat
    BY <1>1, KeySetsFinite
  <2> QED BY <1>4, <2>1, RetryAssumption DEF StepsLeft, Stage
\* From an attempt to the next.
<1>5. ASSUME NEW p, NEW a, Advance(r, p, a, cand[r], tried[r]),
             phase[r] \in {"sleep", "call", "drain"}
      PROVE  /\ StepsLeft(r)' < StepsLeft(r)
             /\ \A s \in Requests \ {r} : phase'[s] = phase[s] /\ tried'[s] = tried[s]
  <2>1. /\ \A s \in Requests \ {r} : phase'[s] = phase[s] /\ tried'[s] = tried[s]
        /\ \/ phase'[r] = "done"
           \/ /\ phase'[r] \in {"sleep", "call"}
              /\ tried'[r] \in SUBSET Keys
              /\ Cardinality(tried[r]) < Cardinality(tried'[r])
    BY <1>1, <1>5, AdvanceCounts
  <2>2. CASE phase'[r] = "done"
    BY <1>3, <1>5, <2>1, <2>2
  <2>3. CASE /\ phase'[r] \in {"sleep", "call"}
             /\ tried'[r] \in SUBSET Keys
             /\ Cardinality(tried[r]) < Cardinality(tried'[r])
    <3>1. Cardinality(tried[r]) \in Nat /\ Cardinality(tried'[r]) \in Nat
      BY <1>1, <2>3, KeySetsFinite
    <3>2. /\ StepsLeft(r) = 3 * (MaxRetry - Cardinality(tried[r])) + Stage(phase[r])
          /\ StepsLeft(r)' = 3 * (MaxRetry - Cardinality(tried'[r])) + Stage(phase'[r])
      BY <1>5, <2>3 DEF StepsLeft
    <3>3. Stage(phase[r]) \in 1 .. 3 /\ Stage(phase'[r]) \in 1 .. 3
      BY DEF Stage
    <3> QED BY <2>1, <2>3, <3>1, <3>2, <3>3, RetryAssumption
  <2> QED BY <2>1, <2>2, <2>3
<1>6. ASSUME NEW p, NEW c \in SUBSET Keys, NEW s \in BOOLEAN, Start(r, p, c, s)
      PROVE  /\ StepsLeft(r)' < StepsLeft(r)
             /\ \A q \in Requests \ {r} : phase'[q] = phase[q] /\ tried'[q] = tried[q]
  <2>1. phase[r] = "new"
    BY <1>6 DEF Start
  <2>2. CASE phase' = [phase EXCEPT ![r] = "done"] /\ UNCHANGED tried
    BY <1>1, <1>3, <2>1, <2>2 DEF TypeOK
  <2>3. CASE Advance(r, p, active, c, {})
    <3>1. {} \in SUBSET c
      OBVIOUS
    <3>2. /\ \A q \in Requests \ {r} : phase'[q] = phase[q] /\ tried'[q] = tried[q]
          /\ \/ phase'[r] = "done"
             \/ /\ phase'[r] \in {"sleep", "call"}
                /\ tried'[r] \in SUBSET Keys
                /\ Cardinality({}) < Cardinality(tried'[r])
      BY <1>1, <2>3, <3>1, AdvanceCounts
    <3>3. CASE phase'[r] = "done"
      BY <1>3, <2>1, <3>2, <3>3
    <3>4. CASE /\ phase'[r] \in {"sleep", "call"}
               /\ tried'[r] \in SUBSET Keys
               /\ Cardinality({}) < Cardinality(tried'[r])
      <4>1. Cardinality(tried'[r]) \in Nat \ {0}
        BY <3>4, KeySetsFinite, FS_EmptySet
      <4>2. /\ StepsLeft(r) = 3 * MaxRetry + 1
            /\ StepsLeft(r)' = 3 * (MaxRetry - Cardinality(tried'[r])) + Stage(phase'[r])
        BY <2>1, <3>4 DEF StepsLeft
      <4>3. Stage(phase'[r]) \in 1 .. 3
        BY DEF Stage
      <4> QED BY <3>2, <4>1, <4>2, <4>3, RetryAssumption
    <3> QED BY <3>2, <3>3, <3>4
  <2> QED BY <1>6, <2>2, <2>3 DEF Start, plan
<1>7. CASE Reject(r)
  BY <1>1, <1>3, <1>7 DEF Reject, TypeOK
<1>8. CASE Arrive(r)
  <2>1. PICK some \in SUBSET Keys : \E s \in BOOLEAN : Listed(r, some, s) \/ Named(r, some, s)
    BY <1>8 DEF Arrive
  <2>2. PICK s \in BOOLEAN : Listed(r, some, s) \/ Named(r, some, s)
    BY <2>1
  <2> DEFINE p == [k \in Keys |-> IF k \in cached THEN Recovered(pool[k]) ELSE pool[k]]
             listed == {k \in some \cap cached : Usable(p[k])}
             named == {k \in some \cap cached : pool[k].status = "active"}
  <2>3. listed \in SUBSET Keys /\ named \in SUBSET Keys
    OBVIOUS
  <2>4. Start(r, p, listed, s) \/ Start(r, pool, named, s)
    BY <2>2 DEF Listed, Named
  <2> HIDE DEF p, listed, named
  <2> QED BY <1>6, <2>3, <2>4
<1>9. CASE WakeUp(r)
  <2>1. CASE phase' = [phase EXCEPT ![r] = "call"] /\ UNCHANGED tried
    BY <1>1, <1>4, <1>9, <2>1 DEF WakeUp, TypeOK
  <2>2. ASSUME NEW p, Advance(r, p, active, cand[r], tried[r])
        PROVE  /\ StepsLeft(r)' < StepsLeft(r)
               /\ \A s \in Requests \ {r} : phase'[s] = phase[s] /\ tried'[s] = tried[s]
    BY <1>5, <1>9, <2>2 DEF WakeUp
  <2> QED BY <1>9, <2>1, <2>2 DEF WakeUp
<1>10. CASE WakeUpNowhere(r)
  BY <1>5, <1>10 DEF WakeUpNowhere
<1>11. ASSUME NEW category, Fails(r, category) \/ Drained(r, category)
       PROVE  /\ StepsLeft(r)' < StepsLeft(r)
              /\ \A s \in Requests \ {r} : phase'[s] = phase[s] /\ tried'[s] = tried[s]
  BY <1>5, <1>11 DEF Fails, Drained
<1>12. CASE StreamRefused(r) \/ StreamOpens(r)
  BY <1>1, <1>4, <1>12 DEF StreamRefused, StreamOpens, TypeOK
<1>13. ASSUME NEW x, Return(r, x), phase[r] # "done"
       PROVE  /\ StepsLeft(r)' < StepsLeft(r)
              /\ \A s \in Requests \ {r} : phase'[s] = phase[s] /\ tried'[s] = tried[s]
  BY <1>1, <1>3, <1>13 DEF Return, TypeOK
<1>14. CASE (\E tokens \in 0 .. MaxTokens : Succeeds(r, tokens) \/ StreamEnds(r, tokens))
            \/ Breaks(r) \/ StreamUnread(r)
  BY <1>13, <1>14 DEF Succeeds, StreamEnds, Breaks, StreamUnread
<1> QED
  BY <1>7, <1>8, <1>9, <1>10, <1>11, <1>12, <1>14 DEF Step, Outcome

\* For any number of keys, requests and attempts: from its arrival a request takes
\* at most three steps per attempt, every step it takes, be it refused, passed
\* over, woken up or broken off, brings it closer to its answer, and no step of
\* another request, of the console or of the clock takes it back.
THEOREM RequestsMoveOn == Spec => []StepsAreBounded /\ EveryStepCounts
<1>1. Good => StepsAreBounded
  BY BoundedSteps
<1>2. Good /\ [Next]_vars
        => [\A r \in Requests :
              IF Step(r) THEN StepsLeft(r)' < StepsLeft(r)
              ELSE StepsLeft(r)' = StepsLeft(r)]_vars
  <2> SUFFICES ASSUME Good, Next, NEW r \in Requests, ~Step(r)
               PROVE  phase'[r] = phase[r] /\ tried'[r] = tried[r]
    BY StepCounts DEF StepsLeft
  <2>1. ASSUME NEW s \in Requests, Step(s) PROVE phase'[r] = phase[r] /\ tried'[r] = tried[r]
    BY <2>1, StepCounts
  <2>2. CASE Tick \/ \E k \in Managed : Delete(k) \/ \E s \in {"active", "inactive"} : SetStatus(k, s)
    BY <2>2 DEF Tick, Delete, SetStatus
  <2> QED BY <2>1, <2>2 DEF Next, Step
<1> QED
  BY <1>1, <1>2, AlwaysGood, PTL DEF Spec, EveryStepCounts
=============================================================================
