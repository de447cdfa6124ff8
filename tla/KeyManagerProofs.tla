-------------------------- MODULE KeyManagerProofs --------------------------
(***************************************************************************)
(* Theorems about KeyManager for every set of keys and every value of the  *)
(* thresholds, cooldowns, quotas and bounds: first what the operations on  *)
(* a record keep, then what every step keeps of the pool (Good), then the  *)
(* daily quota (QuotaInv), which a key that nobody re-enabled, tested or   *)
(* re-priced exceeds by at most MaxTokens per concurrent request.          *)
(***************************************************************************)
EXTENDS KeyManager, TLAPS

(***************************************************************************)
(* The operations of KeyRecord keep the type and the cleanness of a key's  *)
(* record.                                                                 *)
(***************************************************************************)
LEMMA NewKeyType ==
  ASSUME NEW q \in Quotas, NEW o \in BOOLEAN
  PROVE  NewKey(q, o) \in KeyRecords /\ Clean(NewKey(q, o))
BY ThresholdAssumption, CooldownAssumption, QuotaAssumption
   DEF NewKey, KeyRecords, Statuses, NoCooldown, Clean

LEMMA SucceededType ==
  ASSUME NEW r \in KeyRecords
  PROVE  Succeeded(r) \in KeyRecords /\ Clean(Succeeded(r))
BY ThresholdAssumption, CooldownAssumption
   DEF Succeeded, WithHealth, KeyRecords, Statuses, NoCooldown, Clean

LEMMA FailedType ==
  ASSUME NEW r \in KeyRecords, NEW c \in Categories
  PROVE  Failed(r, c) \in KeyRecords /\ (Clean(r) => Clean(Failed(r, c)))
BY ThresholdAssumption, CooldownAssumption
   DEF Failed, WithHealth, Capped, KeyRecords, Statuses, Categories, NoCooldown, Clean

LEMMA RecoveredType ==
  ASSUME NEW r \in KeyRecords
  PROVE  Recovered(r) \in KeyRecords /\ (Clean(r) => Clean(Recovered(r)))
BY ThresholdAssumption, CooldownAssumption
   DEF Recovered, WithHealth, KeyRecords, Statuses, NoCooldown, Clean

LEMMA WithStatusType ==
  ASSUME NEW r \in KeyRecords, NEW s \in Statuses
  PROVE  WithStatus(r, s) \in KeyRecords /\ Clean(WithStatus(r, s))
BY ThresholdAssumption, CooldownAssumption
   DEF WithStatus, WithHealth, KeyRecords, Statuses, NoCooldown, Clean

LEMMA TestedType ==
  ASSUME NEW r \in KeyRecords, NEW ok \in BOOLEAN
  PROVE  Tested(r, ok) \in KeyRecords /\ Clean(Tested(r, ok))
BY ThresholdAssumption, CooldownAssumption
   DEF Tested, WithHealth, KeyRecords, Statuses, NoCooldown, Clean

LEMMA QuotaRecordedType ==
  ASSUME NEW r \in KeyRecords, NEW t \in Nat
  PROVE  /\ QuotaRecorded(r, t) \in KeyRecords
         /\ Clean(r) => Clean(QuotaRecorded(r, t))
<1>1. Accounted(r, t) \in KeyRecords /\ (Clean(r) => Clean(Accounted(r, t)))
  BY QuotaAssumption DEF Accounted, Capped, KeyRecords, Clean
<1>2. ASSUME NEW s \in KeyRecords
      PROVE  Evaluated(s) \in KeyRecords /\ (Clean(s) => Clean(Evaluated(s)))
  BY DEF Evaluated, KeyRecords, Statuses, Clean
<1> QED BY <1>1, <1>2 DEF QuotaRecorded

LEMMA AgedType ==
  ASSUME NEW r \in KeyRecords
  PROVE  Aged(r) \in KeyRecords /\ (Clean(r) => Clean(Aged(r)))
BY CooldownAssumption DEF Aged, InCooldown, KeyRecords, NoCooldown, Clean

LEMMA NextDayType ==
  ASSUME NEW r \in KeyRecords
  PROVE  NextDay(r) \in KeyRecords /\ (Clean(r) => Clean(NextDay(r)))
BY DEF NextDay, KeyRecords, Clean

LEMMA EditedType ==
  ASSUME NEW r \in KeyRecords, NEW q \in Quotas, NEW t \in BOOLEAN
  PROVE  Edited(r, q, t) \in KeyRecords /\ (Clean(r) => Clean(Edited(r, q, t)))
BY DEF Edited, KeyRecords, Clean

(***************************************************************************)
(* Every step changes one record by one of those operations, or all of     *)
(* them by recovery or the passing of time.                                *)
(***************************************************************************)
Good == TypeOK /\ ActiveIsClean

LEMMA PoolUpdate ==
  ASSUME pool \in [Keys -> KeyRecords], ActiveIsClean,
         NEW k \in Keys, NEW r \in KeyRecords, Clean(r),
         pool' = [pool EXCEPT ![k] = r]
  PROVE  pool' \in [Keys -> KeyRecords] /\ ActiveIsClean'
BY DEF ActiveIsClean

LEMMA PoolMap ==
  ASSUME NEW f \in [Keys -> KeyRecords], \A k \in Keys : Clean(f[k]), pool' = f
  PROVE  pool' \in [Keys -> KeyRecords] /\ ActiveIsClean'
BY DEF ActiveIsClean

LEMMA GoodInit == Init => Good
<1> SUFFICES ASSUME Init PROVE Good
  OBVIOUS
<1>1. \A k \in Keys : pool[k] \in KeyRecords /\ Clean(pool[k])
  BY NewKeyType DEF Init
<1>2. pool \in [Keys -> KeyRecords]
  BY <1>1 DEF Init
<1>3. refs \in [Keys -> 0 .. MaxRefs] /\ tests \in [Keys -> 0 .. MaxTests]
  BY BoundAssumption DEF Init
<1> QED BY <1>1, <1>2, <1>3 DEF Good, TypeOK, ActiveIsClean, Init

LEMMA GoodStep == Good /\ [Next]_vars => Good'
<1> SUFFICES ASSUME Good, [Next]_vars PROVE Good'
  OBVIOUS
<1> USE DEF Good
<1>t. /\ pool \in [Keys -> KeyRecords] /\ born \in SUBSET Keys /\ cached \in SUBSET born
      /\ refs \in [Keys -> 0 .. MaxRefs] /\ tests \in [Keys -> 0 .. MaxTests]
      /\ \A k \in Keys : refs[k] > 0 \/ tests[k] > 0 => k \in born
      /\ managed \in SUBSET Keys
  BY DEF TypeOK
<1>c. \A k \in Keys : pool[k] \in KeyRecords /\ Clean(pool[k])
  BY <1>t DEF ActiveIsClean
<1>1. ASSUME NEW k \in Keys, NEW q \in Quotas, AddKey(k, q)
      PROVE  Good'
  <2>1. pool' \in [Keys -> KeyRecords] /\ ActiveIsClean'
    BY <1>1, <1>t, NewKeyType, PoolUpdate DEF AddKey
  <2> QED BY <2>1, <1>1, <1>t DEF AddKey, TypeOK
<1>2. ASSUME NEW k \in Keys, NEW q \in Quotas, NEW s \in AdminStatuses, NEW t \in BOOLEAN,
             UpdateKey(k, q, s, t)
      PROVE  Good'
  <2> DEFINE edited == Edited(pool[k], q, t)
  <2>1. edited \in KeyRecords /\ Clean(edited)
    BY <1>c, EditedType
  <2>2. s # "keep" => WithStatus(edited, s) \in KeyRecords /\ Clean(WithStatus(edited, s))
    BY <2>1, WithStatusType, AdminAssumption
  <2>3. pool' \in [Keys -> KeyRecords] /\ ActiveIsClean'
    BY <2>1, <2>2, <1>2, <1>t, PoolUpdate DEF UpdateKey
  <2> QED BY <2>3, <1>2, <1>t DEF UpdateKey, TypeOK
<1>3. ASSUME NEW k \in Keys, DeleteKey(k) PROVE Good'
  BY <1>3, <1>t DEF DeleteKey, TypeOK, ActiveIsClean
<1>4. ASSUME NEW k \in Keys, StartTest(k) PROVE Good'
  BY <1>4, <1>t, BoundAssumption DEF StartTest, TypeOK, ActiveIsClean
<1>5. ASSUME NEW k \in Keys, NEW ok \in BOOLEAN, FinishTest(k, ok) PROVE Good'
  <2>1. pool' \in [Keys -> KeyRecords] /\ ActiveIsClean'
    BY <1>5, <1>t, <1>c, TestedType, PoolUpdate DEF FinishTest
  <2> QED BY <2>1, <1>5, <1>t, BoundAssumption DEF FinishTest, TypeOK
<1>6. ASSUME NEW listed \in SUBSET Keys, ListActive(listed) PROVE Good'
  <2> DEFINE f == [k \in Keys |-> IF k \in cached THEN Recovered(pool[k]) ELSE pool[k]]
  <2>1. f \in [Keys -> KeyRecords] /\ \A k \in Keys : Clean(f[k])
    BY <1>c, RecoveredType
  <2>2. pool' = f /\ refs' = [k \in Keys |-> IF k \in listed THEN refs[k] + 1 ELSE refs[k]]
        /\ \A k \in listed : k \in cached /\ refs[k] < MaxRefs
    BY <1>6 DEF ListActive
  <2>3. pool' \in [Keys -> KeyRecords] /\ ActiveIsClean'
    <3> HIDE DEF f
    <3> QED BY <2>1, <2>2, PoolMap
  <2>4. refs' \in [Keys -> 0 .. MaxRefs] /\ \A k \in Keys : refs'[k] > 0 => k \in born
    BY <2>2, <1>t, BoundAssumption
  <2> QED BY <2>3, <2>4, <1>6, <1>t DEF ListActive, TypeOK
<1>7. ASSUME NEW k \in Keys, LookUp(k) PROVE Good'
  BY <1>7, <1>t, BoundAssumption DEF LookUp, TypeOK, ActiveIsClean
<1>8. ASSUME NEW k \in Keys, NEW t \in 0 .. MaxTokens, CallSucceeds(k, t) PROVE Good'
  <2> DEFINE seen == IF k \in cached THEN Succeeded(pool[k]) ELSE pool[k]
             new  == QuotaRecorded(seen, t)
  <2>1. seen \in KeyRecords /\ Clean(seen)
    BY <1>c, SucceededType
  <2>2. new \in KeyRecords /\ Clean(new)
    <3> HIDE DEF seen
    <3> QED BY <2>1, QuotaRecordedType, BoundAssumption
  <2>3. pool' = [pool EXCEPT ![k] = new]
    BY <1>8 DEF CallSucceeds
  <2>4. pool' \in [Keys -> KeyRecords] /\ ActiveIsClean'
    <3> HIDE DEF new
    <3> QED BY <2>2, <2>3, <1>t, PoolUpdate
  <2> QED BY <2>4, <1>8, <1>t, BoundAssumption DEF CallSucceeds, TypeOK
<1>9. ASSUME NEW k \in Keys, NEW c \in Categories, CallFails(k, c) PROVE Good'
  <2> DEFINE seen == IF k \in cached THEN Failed(pool[k], c) ELSE pool[k]
             new  == QuotaRecorded(seen, 0)
  <2>1. seen \in KeyRecords /\ Clean(seen)
    BY <1>c, FailedType
  <2>2. new \in KeyRecords /\ Clean(new)
    <3> HIDE DEF seen
    <3> QED BY <2>1, QuotaRecordedType
  <2>3. pool' = [pool EXCEPT ![k] = new]
    BY <1>9 DEF CallFails
  <2>4. pool' \in [Keys -> KeyRecords] /\ ActiveIsClean'
    <3> HIDE DEF new
    <3> QED BY <2>2, <2>3, <1>t, PoolUpdate
  <2> QED BY <2>4, <1>9, <1>t, BoundAssumption DEF CallFails, TypeOK
<1>10. ASSUME NEW k \in Keys, DecryptFails(k) PROVE Good'
  <2>1. pool' \in [Keys -> KeyRecords] /\ ActiveIsClean'
    BY <1>10, <1>t, <1>c, FailedType, PoolUpdate DEF DecryptFails, Categories
  <2> QED BY <2>1, <1>10, <1>t, BoundAssumption DEF DecryptFails, TypeOK
<1>11. ASSUME NEW k \in Keys, Release(k) PROVE Good'
  BY <1>11, <1>t, BoundAssumption DEF Release, TypeOK, ActiveIsClean
<1>12. CASE Tick
  <2>1. pool' \in [Keys -> KeyRecords] /\ ActiveIsClean'
    BY <1>12, <1>c, AgedType, PoolMap DEF Tick
  <2> QED BY <2>1, <1>12, <1>t DEF Tick, TypeOK
<1>13. CASE Midnight
  <2>1. pool' \in [Keys -> KeyRecords] /\ ActiveIsClean'
    BY <1>13, <1>c, NextDayType, PoolMap DEF Midnight
  <2> QED BY <2>1, <1>13, <1>t DEF Midnight, TypeOK
<1>14. CASE UNCHANGED vars
  BY <1>14, <1>t DEF vars, TypeOK, ActiveIsClean
<1> QED
  BY <1>1, <1>2, <1>3, <1>4, <1>5, <1>6, <1>7, <1>8, <1>9, <1>10, <1>11, <1>12, <1>13, <1>14
     DEF Next, Update, TestEnds, Listing, Success, Failure

\* The types of the state, and that only keys that were created are held.
THEOREM TypeCorrect == Spec => []TypeOK
<1>1. Good /\ [Next]_vars => Good'
  BY GoodStep
<1>2. Init => Good
  BY GoodInit
<1> QED BY <1>1, <1>2, PTL DEF Spec, Good

\* No interleaving of requests, tests, edits and time leaves an ACTIVE key
\* with a cooldown or with a failure streak at the threshold.
THEOREM ActiveKeysAreClean == Spec => []ActiveIsClean
<1>1. Good /\ [Next]_vars => Good'
  BY GoodStep
<1>2. Init => Good
  BY GoodInit
<1> QED BY <1>1, <1>2, PTL DEF Spec, Good

(***************************************************************************)
(* Action properties.                                                      *)
(***************************************************************************)
LEMMA CoolingStep ==
  ASSUME Good, [Next]_vars, NEW k \in Keys, refs'[k] > refs[k]
  PROVE  ~InCooldown(pool[k])
<1>t. /\ refs \in [Keys -> 0 .. MaxRefs] /\ pool[k] \in KeyRecords /\ Clean(pool[k])
  BY DEF Good, TypeOK, ActiveIsClean
<1>1. ASSUME NEW j \in Keys, LookUp(j) PROVE ~InCooldown(pool[k])
  <2>1. pool[k].status = "active"
    BY <1>1, <1>t DEF LookUp
  <2> QED BY <2>1, <1>t DEF Clean, InCooldown, NoCooldown
<1>2. ASSUME NEW listed \in SUBSET Keys, ListActive(listed) PROVE ~InCooldown(pool[k])
  <2>1. k \in listed
    BY <1>2, <1>t DEF ListActive
  <2>2. k \in cached /\ Usable(Recovered(pool[k]))
    BY <1>2, <2>1 DEF ListActive
  <2> QED BY <2>2 DEF Usable, Recovered
<1>3. ASSUME NEW j \in Keys,
             refs' = refs \/ (refs[j] > 0 /\ refs' = [refs EXCEPT ![j] = @ - 1])
      PROVE  FALSE
  BY <1>3, <1>t
<1>4. ASSUME ~Listing, ~(\E j \in Keys : LookUp(j)) PROVE FALSE
  BY <1>3, <1>4 DEF Next, Update, TestEnds, Success, Failure, vars,
     AddKey, UpdateKey, DeleteKey, StartTest, FinishTest, CallSucceeds, CallFails,
     DecryptFails, Release, Tick, Midnight
<1> QED BY <1>1, <1>2, <1>4 DEF Listing

\* No entry point hands a cooling key to a request, though only list_active
\* looks at the cooldown.
THEOREM CoolingKeysAreNotUsed == Spec => NoRequestWhileCooling
<1> DEFINE A == \A k \in Keys : refs'[k] > refs[k] => ~InCooldown(pool[k])
<1>1. Good /\ [Next]_vars => [A]_vars
  BY CoolingStep
<1>2. Spec => []Good
  BY GoodInit, GoodStep, PTL DEF Spec
<1> QED BY <1>1, <1>2, PTL DEF Spec, NoRequestWhileCooling

LEMMA RecoveredStopped ==
  ASSUME NEW r, r.status \in {"inactive", "exhausted"}
  PROVE  Recovered(r) = r
BY DEF Recovered

LEMMA StoppedStep ==
  ASSUME Good, [Next]_vars, NEW k \in Keys, Stopped(k), Quiet(k), ~Update
  PROVE  pool'[k].status = pool[k].status
<1>t. /\ pool \in [Keys -> KeyRecords] /\ cached \in SUBSET born
      /\ refs \in [Keys -> 0 .. MaxRefs] /\ tests \in [Keys -> 0 .. MaxTests]
  BY DEF Good, TypeOK
<1>s. k \in cached /\ pool[k].status \in {"inactive", "exhausted"} /\ refs[k] = 0 /\ tests[k] = 0
  BY DEF Stopped, Quiet
<1>1. ASSUME NEW j \in Keys, j # k, NEW r, pool' = [pool EXCEPT ![j] = r]
      PROVE  pool'[k].status = pool[k].status
  BY <1>1, <1>t
<1>2. ASSUME NEW j \in Keys, NEW q \in Quotas, AddKey(j, q)
      PROVE  pool'[k].status = pool[k].status
  BY <1>1, <1>2, <1>s, <1>t DEF AddKey
<1>3. ASSUME NEW j \in Keys, NEW ok \in BOOLEAN, FinishTest(j, ok)
      PROVE  pool'[k].status = pool[k].status
  BY <1>1, <1>3, <1>s, <1>t DEF FinishTest
<1>4. ASSUME NEW listed \in SUBSET Keys, ListActive(listed)
      PROVE  pool'[k].status = pool[k].status
  BY <1>4, <1>s, <1>t, RecoveredStopped DEF ListActive
<1>5. ASSUME NEW j \in Keys,
             \/ \E tokens \in 0 .. MaxTokens : CallSucceeds(j, tokens)
             \/ \E category \in Categories : CallFails(j, category)
             \/ DecryptFails(j)
      PROVE  pool'[k].status = pool[k].status
  <2>1. j # k
    BY <1>5, <1>s, <1>t DEF CallSucceeds, CallFails, DecryptFails
  <2> QED BY <1>1, <1>5, <2>1, <1>t DEF CallSucceeds, CallFails, DecryptFails
<1>6. CASE Tick
  BY <1>6, <1>t DEF Tick, Aged, KeyRecords
<1>7. CASE Midnight
  BY <1>7, <1>t DEF Midnight, NextDay, KeyRecords
<1>8. ASSUME pool' = pool PROVE pool'[k].status = pool[k].status
  BY <1>8
<1> QED
  BY <1>2, <1>3, <1>4, <1>5, <1>6, <1>7, <1>8 DEF Next, TestEnds, Listing,
     Success, Failure, vars, DeleteKey, StartTest, LookUp, Release

\* A disabled or exhausted key nobody is waiting on needs an administrator.
THEOREM StoppedKeysStayStopped == Spec => StoppedStaysStopped
<1> DEFINE A == \A k \in Keys : Stopped(k) /\ Quiet(k) /\ ~Update
                                  => pool'[k].status = pool[k].status
<1>1. Good /\ [Next]_vars => [A]_vars
  BY StoppedStep
<1>2. Spec => []Good
  BY GoodInit, GoodStep, PTL DEF Spec
<1> QED BY <1>1, <1>2, PTL DEF Spec, StoppedStaysStopped

LEMMA DeletedStep ==
  ASSUME Good, [Next]_vars, NEW k \in Keys, k \in born \ cached, Quiet(k)
  PROVE  k \notin cached'
<1>t. refs[k] = 0 /\ tests[k] = 0 /\ k \in born /\ k \notin cached
  BY DEF Quiet
<1>1. ASSUME NEW j \in Keys, j # k, cached' = cached \cup {j}
      PROVE  k \notin cached'
  BY <1>1, <1>t
<1>2. ASSUME NEW j \in Keys,
             \/ \E q \in Quotas : AddKey(j, q)
             \/ \E ok \in BOOLEAN : FinishTest(j, ok)
             \/ \E tokens \in 0 .. MaxTokens : CallSucceeds(j, tokens)
             \/ \E category \in Categories : CallFails(j, category)
      PROVE  k \notin cached'
  <2>1. j \notin born \/ tests[j] > 0 \/ refs[j] > 0
    BY <1>2, Zenon DEF AddKey, FinishTest, CallSucceeds, CallFails
  <2>2. cached' = cached \cup {j}
    BY <1>2, Zenon DEF AddKey, FinishTest, CallSucceeds, CallFails
  <2>3. j # k
    BY <2>1, <1>t
  <2> QED BY <1>1, <2>2, <2>3
<1>3. ASSUME cached' = cached \/ \E j \in Keys : cached' = cached \ {j}
      PROVE  k \notin cached'
  BY <1>3, <1>t
<1> QED
  BY <1>2, <1>3 DEF Next, Update, TestEnds, Listing, Success, Failure, vars,
     UpdateKey, DeleteKey, StartTest, ListActive, LookUp, DecryptFails, Release, Tick, Midnight

\* Only an answer somebody still waits for can bring a deleted key back.
THEOREM DeletedKeysStayDeleted == Spec => DeletedStaysDeleted
<1> DEFINE A == \A k \in Keys : k \in born \ cached /\ Quiet(k) => k \notin cached'
<1>1. Good /\ [Next]_vars => [A]_vars
  BY DeletedStep
<1>2. Spec => []Good
  BY GoodInit, GoodStep, PTL DEF Spec
<1> QED BY <1>1, <1>2, PTL DEF Spec, DeletedStaysDeleted

(***************************************************************************)
(* The daily quota.                                                        *)
(***************************************************************************)

\* What is charged and what may still be charged, for n requests on record r.
Covered(r, n) ==
  r.today /\ r.quota > 0 => r.used + MaxTokens * n <= r.quota - 1 + MaxTokens * MaxRefs

\* A key at its quota is switched off; one that never opens was never charged.
Charged(r) ==
  /\ OverQuota(r) => r.status \in {"exhausted", "inactive"}
  /\ ~r.opens => ~r.today

\* Only of the keys that an administrator left alone.
QuotaInv == \A k \in Keys \ managed : Covered(pool[k], refs[k]) /\ Charged(pool[k])

(***************************************************************************)
(* Arithmetic of MaxTokens * n.                                            *)
(***************************************************************************)
LEMMA Product ==
  ASSUME NEW n \in Nat
  PROVE  MaxTokens * n \in Nat /\ MaxTokens * (n + 1) = MaxTokens * n + MaxTokens
BY BoundAssumption

LEMMA ProductBound ==
  ASSUME NEW n \in 0 .. MaxRefs
  PROVE  MaxTokens * n <= MaxTokens * MaxRefs
BY BoundAssumption

LEMMA ProductLess ==
  ASSUME NEW n \in 1 .. MaxRefs
  PROVE  /\ MaxTokens * n = MaxTokens * (n - 1) + MaxTokens
         /\ MaxTokens * n \in Nat /\ MaxTokens * (n - 1) \in Nat
         /\ MaxTokens * MaxRefs \in Nat
         /\ MaxTokens * n <= MaxTokens * MaxRefs
<1>1. n - 1 \in Nat /\ (n - 1) + 1 = n /\ n \in 0 .. MaxRefs /\ n \in Nat /\ MaxRefs \in Nat
  BY BoundAssumption
<1> QED BY <1>1, Product, ProductBound

LEMMA Amounts ==
  ASSUME NEW r \in KeyRecords
  PROVE  r.used \in Nat /\ r.quota \in Nat
<1>1. r.used \in 0 .. UsageCap /\ r.quota \in Quotas
  BY DEF KeyRecords
<1>2. UsageCap \in Nat /\ Quotas \subseteq Nat
  BY QuotaAssumption, Zenon
<1>3. r.used \in Nat
  BY <1>1, <1>2
<1>4. r.quota \in Nat
  BY <1>1, <1>2, Zenon
<1> QED BY <1>3, <1>4

\* A key over its quota has used it up today ...
LEMMA QuotaUsedUp ==
  ASSUME NEW r \in KeyRecords
  PROVE  OverQuota(r) <=> r.today /\ r.quota > 0 /\ r.used >= r.quota
<1>1. r.used \in Nat /\ r.quota \in Nat
  BY Amounts
<1>2. CASE r.today
  <2>1. OverQuota(r) <=> r.quota > 0 /\ 100 * r.used >= 100 * r.quota
    BY <1>2 DEF OverQuota, Reaches, Whole
  <2> QED BY <1>1, <1>2, <2>1
<1>3. CASE ~r.today
  <2>1. OverQuota(r) <=> r.quota > 0 /\ 100 * 0 >= 100 * r.quota
    BY <1>3 DEF OverQuota, Reaches, Whole
  <2> QED BY <1>1, <1>3, <2>1
<1> QED BY <1>2, <1>3

\* ... and has reached every threshold that is not above 1.
LEMMA QuotaReached ==
  ASSUME NEW r \in KeyRecords, OverQuota(r), QuotaEnforced
  PROVE  Reaches(r, WarnThreshold)
<1>1. r.used \in Nat /\ r.quota \in Nat /\ WarnThreshold \in Int /\ WarnThreshold <= 100
  BY Amounts, WarnAssumption DEF QuotaEnforced, Whole
<1>2. r.today /\ r.used >= r.quota
  BY QuotaUsedUp
<1>3. WarnThreshold * r.quota <= 100 * r.quota
  BY <1>1
<1>4. WarnThreshold * r.quota \in Int
  BY <1>1
<1> DEFINE reached == WarnThreshold * r.quota
<1>5. 100 * r.used >= reached
  <2> HIDE DEF reached
  <2>1. reached <= 100 * r.quota
    BY <1>3 DEF reached
  <2>2. reached \in Int
    BY <1>4 DEF reached
  <2> QED BY <1>1, <1>2, <2>1, <2>2
<1> QED BY <1>1, <1>2, <1>5 DEF Reaches, Whole

LEMMA CoveredLess ==
  ASSUME NEW r \in KeyRecords, NEW n \in 1 .. MaxRefs, Covered(r, n)
  PROVE  Covered(r, n - 1)
<1> DEFINE p == MaxTokens * n
           p1 == MaxTokens * (n - 1)
           all == MaxTokens * MaxRefs
<1>1. p = p1 + MaxTokens /\ p \in Nat /\ p1 \in Nat /\ all \in Nat
  BY ProductLess
<1>2. r.today /\ r.quota > 0 => r.used + p <= r.quota - 1 + all
  BY DEF Covered
<1>3. r.today /\ r.quota > 0 => r.used + p1 <= r.quota - 1 + all
  <2>1. r.used \in Nat /\ r.quota \in Nat
    BY Amounts
  <2> SUFFICES ASSUME r.today, r.quota > 0 PROVE r.used + p1 <= r.quota - 1 + all
    BY Zenon
  <2> HIDE DEF p, p1, all
  <2>2. r.used + p <= r.quota - 1 + all
    BY <1>2, Zenon
  <2> QED BY <1>1, <2>1, <2>2, BoundAssumption
<1> QED BY <1>3 DEF Covered

LEMMA CoveredMore ==
  ASSUME NEW r \in KeyRecords, NEW n \in 0 .. MaxRefs, ~OverQuota(r)
  PROVE  Covered(r, n)
<1> DEFINE p == MaxTokens * n
           all == MaxTokens * MaxRefs
<1>1. p <= all /\ p \in Nat /\ all \in Nat
  <2>1. n \in Nat /\ MaxRefs \in Nat
    BY BoundAssumption
  <2> QED BY <2>1, Product, ProductBound
<1>2. r.used \in Nat /\ r.quota \in Nat
  BY Amounts
<1>3. r.today /\ r.quota > 0 => r.used + p <= r.quota - 1 + all
  <2> SUFFICES ASSUME r.today, r.quota > 0 PROVE r.used + p <= r.quota - 1 + all
    OBVIOUS
  <2>1. ~(r.used >= r.quota)
    BY QuotaUsedUp
  <2> HIDE DEF p, all
  <2> QED BY <1>1, <1>2, <2>1
<1> QED BY <1>3 DEF Covered

(***************************************************************************)
(* One answer of at most MaxTokens tokens.                                 *)
(***************************************************************************)
LEMMA AccountedFields ==
  ASSUME NEW s \in KeyRecords, NEW t \in Nat
  PROVE  /\ Accounted(s, t) \in KeyRecords
         /\ Accounted(s, t).today = TRUE
         /\ Accounted(s, t).opens = s.opens
         /\ Accounted(s, t).quota = s.quota
         /\ s.today => Accounted(s, t).used <= s.used + t
         /\ ~s.today => Accounted(s, t).used <= t
<1> DEFINE before == IF s.today THEN s.used ELSE 0
           a == Accounted(s, t)
<1>1. s.used \in Nat /\ before \in Nat
  BY Amounts
<1>2. a.used = Capped(before + t, UsageCap)
  BY DEF Accounted
<1>3. a.used \in 0 .. UsageCap /\ a.used <= before + t
  <2> HIDE DEF before, a
  <2> QED BY <1>1, <1>2, QuotaAssumption DEF Capped
<1>4. (s.today => before = s.used) /\ (~s.today => before = 0 /\ 0 + t = t)
  OBVIOUS
<1>5. a \in KeyRecords
  <2>1. Capped(before + t, UsageCap) \in 0 .. UsageCap
    BY <1>2, <1>3
  <2> QED BY <2>1 DEF Accounted, KeyRecords
<1>6. a.today = TRUE /\ a.opens = s.opens /\ a.quota = s.quota
  BY DEF Accounted
<1> HIDE DEF a, before
<1>7. (s.today => a.used <= s.used + t) /\ (~s.today => a.used <= t)
  BY <1>3, <1>4
<1> QED BY <1>3, <1>5, <1>6, <1>7 DEF a

LEMMA EvaluatedFields ==
  ASSUME NEW a \in KeyRecords
  PROVE  /\ Evaluated(a).used = a.used /\ Evaluated(a).quota = a.quota
         /\ Evaluated(a).today = a.today /\ Evaluated(a).opens = a.opens
         /\ QuotaEnforced /\ OverQuota(a) => Evaluated(a).status = "exhausted"
<1>1. QuotaEnforced /\ OverQuota(a) => WarnEnabled /\ Reaches(a, WarnThreshold)
  BY QuotaReached DEF QuotaEnforced
<1> QED BY <1>1 DEF Evaluated, KeyRecords

LEMMA Answered ==
  ASSUME NEW r \in KeyRecords, NEW s \in KeyRecords, NEW n \in 1 .. MaxRefs,
         NEW t \in 0 .. MaxTokens, QuotaEnforced, Covered(r, n), r.opens,
         s.today = r.today, s.used = r.used, s.quota = r.quota, s.opens = r.opens
  PROVE  Covered(QuotaRecorded(s, t), n - 1) /\ Charged(QuotaRecorded(s, t))
<1> DEFINE a == Accounted(s, t)
           e == Evaluated(a)
           p == MaxTokens * n
           p1 == MaxTokens * (n - 1)
           all == MaxTokens * MaxRefs
<1>0. t \in Nat
  BY BoundAssumption
<1>1. /\ a \in KeyRecords /\ a.today = TRUE /\ a.opens = s.opens /\ a.quota = s.quota
      /\ s.today => a.used <= s.used + t
      /\ ~s.today => a.used <= t
  BY <1>0, AccountedFields
<1>2. /\ e.used = a.used /\ e.quota = a.quota /\ e.today = a.today /\ e.opens = a.opens
      /\ OverQuota(a) => e.status = "exhausted"
  <2> HIDE DEF a
  <2> QED BY <1>1, EvaluatedFields
<1>3. Charged(e)
  <2>1. e \in KeyRecords
    BY <1>0, <1>1, QuotaRecordedType DEF QuotaRecorded
  <2> HIDE DEF a, e
  <2>2. OverQuota(e) <=> OverQuota(a)
    BY <1>1, <1>2, <2>1, QuotaUsedUp
  <2> QED BY <1>1, <1>2, <2>2 DEF Charged
<1>4. Covered(e, n - 1)
  <2>1. p = p1 + MaxTokens /\ p \in Nat /\ p1 \in Nat /\ all \in Nat /\ p <= all
    BY ProductLess
  <2>2. r.today /\ r.quota > 0 => r.used + p <= r.quota - 1 + all
    BY DEF Covered
  <2>3. r.used \in Nat /\ r.quota \in Nat /\ a.used \in Nat
    <3> HIDE DEF a
    <3> QED BY <1>1, Amounts
  <2>4. r.quota > 0 => a.used + p1 <= r.quota - 1 + all
    <3> SUFFICES ASSUME r.quota > 0 PROVE a.used + p1 <= r.quota - 1 + all
      OBVIOUS
    <3>1. CASE r.today
      <4>1. r.used + p <= r.quota - 1 + all /\ a.used <= r.used + t
        BY <2>2, <3>1, <1>1, Zenon
      <4> HIDE DEF a, p, p1, all
      <4> QED BY <2>1, <2>3, <4>1, <1>0, BoundAssumption
    <3>2. CASE ~r.today
      <4>1. a.used <= t
        BY <3>2, <1>1, Zenon
      <4> HIDE DEF a, p, p1, all
      <4> QED BY <2>1, <2>3, <4>1, <1>0, BoundAssumption
    <3> QED BY <3>1, <3>2
  <2>5. e.today /\ e.quota > 0 => e.used + p1 <= e.quota - 1 + all
    <3> HIDE DEF a, e, p, p1, all
    <3> QED BY <2>4, <1>1, <1>2
  <2> QED BY <2>5 DEF Covered
<1> QED BY <1>3, <1>4 DEF QuotaRecorded

(***************************************************************************)
(* The invariant is inductive when quotas are enforced.                    *)
(***************************************************************************)
LEMMA SameUsage ==
  ASSUME NEW r \in KeyRecords, NEW s \in KeyRecords, NEW n,
         s.today = r.today, s.used = r.used, s.quota = r.quota, r.opens => s.opens,
         Covered(r, n), Charged(r), OverQuota(r) => s.status \in {"exhausted", "inactive"}
  PROVE  Covered(s, n) /\ Charged(s)
<1>1. OverQuota(s) <=> OverQuota(r)
  BY QuotaUsedUp
<1> QED BY <1>1 DEF Covered, Charged

LEMMA NotToday ==
  ASSUME NEW r \in KeyRecords, NEW n, ~r.today
  PROVE  Covered(r, n) /\ Charged(r)
BY QuotaUsedUp, Zenon DEF Covered, Charged

LEMMA OneKey ==
  ASSUME Good, QuotaInv, NEW k \in Keys, NEW r, NEW n,
         pool' = [pool EXCEPT ![k] = r], refs' = [refs EXCEPT ![k] = n],
         managed \subseteq managed',
         k \notin managed' => Covered(r, n) /\ Charged(r)
  PROVE  QuotaInv'
<1>1. pool \in [Keys -> KeyRecords] /\ refs \in [Keys -> 0 .. MaxRefs]
  BY DEF Good, TypeOK
<1>2. ASSUME NEW j \in Keys \ managed' PROVE Covered(pool'[j], refs'[j]) /\ Charged(pool'[j])
  <2>1. CASE j = k
    BY <2>1, <1>1
  <2>2. CASE j # k
    BY <2>2, <1>1 DEF QuotaInv
  <2> QED BY <2>1, <2>2
<1> QED BY <1>2 DEF QuotaInv, Covered

LEMMA QuotaInit == Init => QuotaInv
<1> SUFFICES ASSUME Init, NEW k \in Keys \ managed PROVE Covered(pool[k], refs[k]) /\ Charged(pool[k])
  BY DEF QuotaInv
<1>1. ~pool[k].today
  BY DEF Init, NewKey
<1>2. pool[k] \in KeyRecords
  BY GoodInit DEF Good, TypeOK
<1> QED BY <1>1, <1>2, NotToday

LEMMA QuotaStep ==
  ASSUME QuotaEnforced, Good, QuotaInv, [Next]_vars
  PROVE  QuotaInv'
<1>t. /\ pool \in [Keys -> KeyRecords] /\ refs \in [Keys -> 0 .. MaxRefs]
  BY DEF Good, TypeOK
<1>k. \A k \in Keys : /\ pool[k] \in KeyRecords
                      /\ k \notin managed => Covered(pool[k], refs[k]) /\ Charged(pool[k])
  BY <1>t DEF QuotaInv
<1>r. \A k \in Keys : refs' = refs => refs' = [refs EXCEPT ![k] = refs[k]]
  BY <1>t
<1>p. \A k \in Keys : pool' = pool => pool' = [pool EXCEPT ![k] = pool[k]]
  BY <1>t
<1>1. ASSUME NEW k \in Keys, NEW q \in Quotas, AddKey(k, q) PROVE QuotaInv'
  <2>1. ~NewKey(q, TRUE).today /\ NewKey(q, TRUE) \in KeyRecords
    BY NewKeyType DEF NewKey
  <2>2. pool' = [pool EXCEPT ![k] = NewKey(q, TRUE)] /\ refs' = refs /\ managed' = managed
    BY <1>1 DEF AddKey
  <2> QED BY <2>1, <2>2, <1>r, NotToday, OneKey
<1>2. ASSUME NEW k \in Keys, NEW q \in Quotas, NEW s \in AdminStatuses, NEW t \in BOOLEAN,
             UpdateKey(k, q, s, t)
      PROVE  QuotaInv'
  <2> DEFINE e == Edited(pool[k], q, t)
             r == IF s = "keep" THEN e ELSE WithStatus(e, s)
  <2>1. pool' = [pool EXCEPT ![k] = r] /\ refs' = refs
    BY <1>2 DEF UpdateKey
  <2>2. /\ managed \subseteq managed'
        /\ k \notin managed' => k \notin managed /\ q = pool[k].quota /\ s \in {"keep", "inactive"}
    BY <1>2 DEF UpdateKey
  <2>3. ASSUME k \notin managed' PROVE Covered(r, refs[k]) /\ Charged(r)
    <3>1. e \in KeyRecords
      BY <1>k, EditedType
    <3>2. /\ e.today = pool[k].today /\ e.used = pool[k].used /\ e.quota = pool[k].quota
          /\ pool[k].opens => e.opens
          /\ e.status = pool[k].status
      BY <2>2, <2>3, Zenon DEF Edited
    <3>3. /\ r \in KeyRecords
          /\ r.today = e.today /\ r.used = e.used /\ r.quota = e.quota /\ r.opens = e.opens
          /\ r.status \in {e.status, "inactive"}
      <4>1. s \in {"keep", "inactive"}
        BY <2>2, <2>3
      <4> HIDE DEF e
      <4> QED BY <3>1, <4>1 DEF WithStatus, KeyRecords, Statuses
    <3>4. Covered(pool[k], refs[k]) /\ Charged(pool[k])
      BY <1>k, <2>2, <2>3
    <3> HIDE DEF e, r
    <3>5. OverQuota(pool[k]) => r.status \in {"exhausted", "inactive"}
      BY <3>2, <3>3, <3>4 DEF Charged
    <3>6. /\ r.today = pool[k].today /\ r.used = pool[k].used /\ r.quota = pool[k].quota
          /\ pool[k].opens => r.opens
      BY <3>2, <3>3, Zenon
    <3> QED BY <3>3, <3>4, <3>5, <3>6, <1>k, SameUsage
  <2> HIDE DEF r
  <2> QED BY <2>1, <2>2, <2>3, <1>r, OneKey
<1>3. ASSUME NEW k \in Keys, NEW ok \in BOOLEAN, FinishTest(k, ok) PROVE QuotaInv'
  <2>1. /\ pool' = [pool EXCEPT ![k] = Tested(pool[k], ok)] /\ refs' = refs
        /\ managed' = managed \cup {k}
    BY <1>3 DEF FinishTest
  <2> QED BY <2>1, <1>r, OneKey
<1>4. ASSUME NEW k \in Keys, LookUp(k) PROVE QuotaInv'
  <2>0. managed' = managed
    BY <1>4 DEF LookUp
  <2>1. CASE pool[k].status = "active" /\ refs[k] < MaxRefs
    <3>1. refs' = [refs EXCEPT ![k] = refs[k] + 1] /\ pool' = pool
      BY <1>4, <2>1 DEF LookUp
    <3>2. refs[k] + 1 \in 0 .. MaxRefs
      BY <2>1, <1>t, BoundAssumption
    <3>3. ASSUME k \notin managed'
          PROVE  Covered(pool[k], refs[k] + 1) /\ Charged(pool[k])
      <4>1. Charged(pool[k])
        BY <3>3, <2>0, <1>k
      <4>2. ~OverQuota(pool[k])
        BY <4>1, <2>1 DEF Charged
      <4> QED BY <4>1, <4>2, <3>2, <1>k, CoveredMore
    <3> QED BY <3>1, <3>3, <2>0, <1>p, OneKey
  <2>2. CASE ~(pool[k].status = "active" /\ refs[k] < MaxRefs)
    <3>1. refs' = refs /\ pool' = pool
      BY <1>4, <2>2 DEF LookUp
    <3> QED BY <2>0, <3>1 DEF QuotaInv, Covered
  <2> QED BY <2>1, <2>2
<1>5. ASSUME NEW listed \in SUBSET Keys, ListActive(listed) PROVE QuotaInv'
  <2>0. managed' = managed
    BY <1>5 DEF ListActive
  <2>1. ASSUME NEW k \in Keys \ managed
        PROVE  Covered(pool'[k], refs'[k]) /\ Charged(pool'[k])
    <3> DEFINE r == IF k \in cached THEN Recovered(pool[k]) ELSE pool[k]
    <3>1. pool'[k] = r /\ refs'[k] = IF k \in listed THEN refs[k] + 1 ELSE refs[k]
      BY <1>5 DEF ListActive
    <3>2. /\ r \in KeyRecords
          /\ r.today = pool[k].today /\ r.used = pool[k].used
          /\ r.quota = pool[k].quota /\ r.opens = pool[k].opens
          /\ r.status = pool[k].status \/ pool[k].status = "error"
      BY <1>k, RecoveredType DEF Recovered, WithHealth
    <3>3. OverQuota(pool[k]) => r.status \in {"exhausted", "inactive"}
      BY <1>k, <3>2 DEF Charged
    <3> HIDE DEF r
    <3>4. Covered(r, refs[k]) /\ Charged(r)
      BY <1>k, <3>2, <3>3, SameUsage
    <3>5. CASE k \in listed
      <4>1. refs[k] + 1 \in 0 .. MaxRefs
        <5>1. refs[k] < MaxRefs
          BY <1>5, <3>5, Zenon DEF ListActive
        <5> QED BY <5>1, <1>t, BoundAssumption
      <4>2. r.status = "active"
        BY <1>5, <3>5 DEF ListActive, Usable, r
      <4>3. ~OverQuota(r)
        BY <3>4, <4>2 DEF Charged
      <4> QED BY <3>1, <3>2, <3>4, <3>5, <4>1, <4>3, CoveredMore
    <3>6. CASE k \notin listed
      BY <3>1, <3>4, <3>6
    <3> QED BY <3>5, <3>6
  <2> QED BY <2>0, <2>1 DEF QuotaInv, Covered
<1>6. ASSUME NEW k \in Keys, NEW s \in KeyRecords, NEW t \in 0 .. MaxTokens,
             refs[k] > 0, pool[k].opens,
             s.today = pool[k].today, s.used = pool[k].used,
             s.quota = pool[k].quota, s.opens = pool[k].opens,
             pool' = [pool EXCEPT ![k] = QuotaRecorded(s, t)],
             refs' = [refs EXCEPT ![k] = refs[k] - 1],
             managed' = managed
      PROVE  QuotaInv'
  <2>1. refs[k] \in 1 .. MaxRefs
    BY <1>6, <1>t, BoundAssumption
  <2>2. ASSUME k \notin managed'
        PROVE  Covered(QuotaRecorded(s, t), refs[k] - 1) /\ Charged(QuotaRecorded(s, t))
    <3>1. Covered(pool[k], refs[k]) /\ pool[k] \in KeyRecords
      BY <1>6, <2>2, <1>k
    <3> QED BY <3>1, <1>6, <2>1, Answered
  <2> QED BY <1>6, <2>2, OneKey
<1>7. ASSUME NEW k \in Keys, NEW t \in 0 .. MaxTokens, CallSucceeds(k, t) PROVE QuotaInv'
  <2> DEFINE s == IF k \in cached THEN Succeeded(pool[k]) ELSE pool[k]
  <2>1. /\ s \in KeyRecords /\ s.today = pool[k].today /\ s.used = pool[k].used
        /\ s.quota = pool[k].quota /\ s.opens = pool[k].opens
    BY <1>k, SucceededType DEF Succeeded, WithHealth
  <2>2. /\ refs[k] > 0 /\ pool[k].opens /\ managed' = managed
        /\ pool' = [pool EXCEPT ![k] = QuotaRecorded(s, t)]
        /\ refs' = [refs EXCEPT ![k] = refs[k] - 1]
    BY <1>7 DEF CallSucceeds
  <2> HIDE DEF s
  <2> QED BY <2>1, <2>2, <1>6
<1>8. ASSUME NEW k \in Keys, NEW c \in Categories, CallFails(k, c) PROVE QuotaInv'
  <2> DEFINE s == IF k \in cached THEN Failed(pool[k], c) ELSE pool[k]
  <2>1. /\ s \in KeyRecords /\ s.today = pool[k].today /\ s.used = pool[k].used
        /\ s.quota = pool[k].quota /\ s.opens = pool[k].opens
    BY <1>k, FailedType DEF Failed, WithHealth, Categories
  <2>2. /\ refs[k] > 0 /\ pool[k].opens /\ managed' = managed
        /\ pool' = [pool EXCEPT ![k] = QuotaRecorded(s, 0)]
        /\ refs' = [refs EXCEPT ![k] = refs[k] - 1]
    BY <1>8 DEF CallFails
  <2>3. 0 \in 0 .. MaxTokens
    BY BoundAssumption
  <2> HIDE DEF s
  <2> QED BY <2>1, <2>2, <2>3, <1>6
<1>9. ASSUME NEW k \in Keys, DecryptFails(k) PROVE QuotaInv'
  <2> DEFINE r == IF k \in cached THEN Failed(pool[k], "auth") ELSE pool[k]
  <2>1. /\ ~pool[k].opens /\ managed' = managed
        /\ pool' = [pool EXCEPT ![k] = r] /\ refs' = [refs EXCEPT ![k] = refs[k] - 1]
    BY <1>9 DEF DecryptFails
  <2>2. r.today = pool[k].today
    BY DEF Failed, WithHealth
  <2>3. ASSUME k \notin managed' PROVE Covered(r, refs[k] - 1) /\ Charged(r)
    <3>1. ~pool[k].today
      BY <1>k, <2>1, <2>3 DEF Charged
    <3>2. r \in KeyRecords
      BY <1>k, FailedType DEF Categories
    <3> HIDE DEF r
    <3> QED BY <3>1, <3>2, <2>2, NotToday
  <2> HIDE DEF r
  <2> QED BY <2>1, <2>3, OneKey
<1>10. ASSUME NEW k \in Keys, Release(k) PROVE QuotaInv'
  <2>1. refs[k] \in 1 .. MaxRefs
    BY <1>10, <1>t, BoundAssumption DEF Release
  <2>2. ASSUME k \notin managed' PROVE Covered(pool[k], refs[k] - 1) /\ Charged(pool[k])
    <3>1. k \notin managed
      BY <1>10, <2>2 DEF Release
    <3> QED BY <2>1, <3>1, <1>k, CoveredLess
  <2> QED BY <1>10, <2>2, <1>p, OneKey DEF Release
<1>11. CASE Tick
  <2>1. ASSUME NEW k \in Keys \ managed
        PROVE  Covered(Aged(pool[k]), refs[k]) /\ Charged(Aged(pool[k]))
    <3> DEFINE r == Aged(pool[k])
    <3>1. /\ r \in KeyRecords /\ r.today = pool[k].today /\ r.used = pool[k].used
          /\ r.quota = pool[k].quota /\ r.opens = pool[k].opens /\ r.status = pool[k].status
      BY <1>k, AgedType DEF Aged, KeyRecords
    <3>2. OverQuota(pool[k]) => r.status \in {"exhausted", "inactive"}
      BY <1>k, <3>1 DEF Charged
    <3> HIDE DEF r
    <3>3. Covered(r, refs[k]) /\ Charged(r)
      BY <1>k, <3>1, <3>2, SameUsage
    <3> QED BY <3>3 DEF r
  <2> QED BY <2>1, <1>11 DEF Tick, QuotaInv, Covered
<1>12. CASE Midnight
  <2>1. ASSUME NEW k \in Keys
        PROVE  Covered(NextDay(pool[k]), refs[k]) /\ Charged(NextDay(pool[k]))
    <3>1. ~NextDay(pool[k]).today
      BY <1>k DEF NextDay, KeyRecords
    <3>2. NextDay(pool[k]) \in KeyRecords
      BY <1>k, NextDayType
    <3> QED BY <3>1, <3>2, NotToday
  <2> QED BY <2>1, <1>12 DEF Midnight, QuotaInv, Covered
<1>13. ASSUME NEW k \in Keys, DeleteKey(k) \/ StartTest(k) PROVE QuotaInv'
  BY <1>13 DEF DeleteKey, StartTest, QuotaInv, Covered
<1>14. CASE UNCHANGED vars
  BY <1>14 DEF vars, QuotaInv, Covered
<1> QED
  BY <1>1, <1>2, <1>3, <1>4, <1>5, <1>7, <1>8, <1>9, <1>10, <1>11, <1>12, <1>13, <1>14
     DEF Next, Update, TestEnds, Listing, Success, Failure

\* A key nobody re-enabled, tested or re-priced is charged at most the tokens
\* of MaxRefs answers beyond its quota, while quotas are enforced at all: with
\* warnings on, and a threshold of at most 1.
THEOREM QuotaOvershootIsBounded == Spec => []OvershootBounded
<1> DEFINE Inv == Good /\ (QuotaEnforced => QuotaInv)
<1>1. Inv /\ [Next]_vars => Inv'
  <2> SUFFICES ASSUME Inv, [Next]_vars PROVE Good' /\ (QuotaEnforced => QuotaInv')
    BY DEF QuotaEnforced
  <2> QED BY GoodStep, QuotaStep
<1>2. Init => Inv
  BY GoodInit, QuotaInit
<1>3. Inv => OvershootBounded
  BY DEF QuotaInv, Covered, OvershootBounded
<1> QED BY <1>1, <1>2, <1>3, PTL DEF Spec
=============================================================================
