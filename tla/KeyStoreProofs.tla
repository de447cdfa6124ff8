--------------------------- MODULE KeyStoreProofs ---------------------------
(***************************************************************************)
(* Theorems about KeyStore, for any keys and any number of edits, uses and *)
(* references.                                                             *)
(***************************************************************************)
EXTENDS KeyStore, TLAPS

(***************************************************************************)
(* Rows                                                                    *)
(***************************************************************************)
LEMMA RowTypes ==
  /\ New \in Records /\ New.edit = 0 /\ New # NoRow
  /\ \A r \in Records : r # NoRow /\ r.edit \in 0 .. MaxEdits /\ r.use \in 0 .. MaxUses
  /\ \A r \in Rows : r # NoRow => r \in Records
  /\ \A r \in Records : Changed(r).edit = r.edit + 1 /\ Changed(r).use = r.use
                        /\ (r.edit < MaxEdits => Changed(r) \in Records)
  /\ \A r \in Records : Used(r).edit = r.edit /\ Used(r).use = r.use + 1
                        /\ (r.use < MaxUses => Used(r) \in Records)
<1> USE CountAssumption DEF Records, NoRow, Rows
<1>1. New \in Records /\ New.edit = 0 /\ New # NoRow
  BY DEF New
<1>2. ASSUME NEW r \in Records
      PROVE  r # NoRow /\ r.edit \in 0 .. MaxEdits /\ r.use \in 0 .. MaxUses
  OBVIOUS
<1>3. ASSUME NEW r \in Records
      PROVE  Changed(r).edit = r.edit + 1 /\ Changed(r).use = r.use
             /\ (r.edit < MaxEdits => Changed(r) \in Records)
  BY DEF Changed
<1>4. ASSUME NEW r \in Records
      PROVE  Used(r).edit = r.edit /\ Used(r).use = r.use + 1
             /\ (r.use < MaxUses => Used(r) \in Records)
  BY DEF Used
<1> QED
  BY <1>1, <1>2, <1>3, <1>4

(***************************************************************************)
(* The inductive invariant, key by key                                     *)
(***************************************************************************)

\* Nothing is known of a key that does not exist yet.
Unborn(k) ==
  k \notin born => /\ safe[k] = 0 /\ refs[k] = 0 /\ tests[k] = 0
                   /\ queued[k] = NoRow /\ taken[k] = NoRow /\ db[k] = NoRow

\* A safe edit is in each copy of the key.
Kept(k) ==
  /\ object[k].edit >= safe[k]
  /\ queued[k] # NoRow => queued[k].edit >= safe[k]
  /\ taken[k] # NoRow => taken[k].edit >= safe[k]
  /\ db[k] # NoRow => db[k].edit >= safe[k]

\* The newest of the rows has all of the usage.
Newest(k) ==
  /\ queued[k] # NoRow => queued[k].use = object[k].use
  /\ queued[k] = NoRow /\ taken[k] # NoRow => taken[k].use = object[k].use
  /\ k \in cached \ refused /\ ~OnItsWay(k) => db[k].use = object[k].use

\* Nobody can bring back a key that was deleted safely.
Away(k) ==
  k \in safelyDeleted => /\ k \notin cached /\ refs[k] = 0 /\ tests[k] = 0
                         /\ queued[k] = NoRow /\ taken[k] = NoRow /\ db[k] = NoRow

KeyInv(k) == Unborn(k) /\ Kept(k) /\ Newest(k) /\ Away(k)

Good == TypeOK /\ \A k \in Keys : KeyInv(k)

LEMMA InitGood == Init => Good
<1> SUFFICES ASSUME Init PROVE Good
  OBVIOUS
<1>1. TypeOK
  BY RowTypes, CountAssumption DEF Init, TypeOK, Rows
<1>2. ASSUME NEW k \in Keys PROVE KeyInv(k)
  BY RowTypes DEF Init, KeyInv, Unborn, Kept, Newest, Away
<1> QED
  BY <1>1, <1>2 DEF Good

\* What a step does to one key leaves the others as they were.
LEMMA OtherKeys ==
  ASSUME NEW k, KeyInv(k),
         object'[k] = object[k], queued'[k] = queued[k], taken'[k] = taken[k], db'[k] = db[k],
         refs'[k] = refs[k], tests'[k] = tests[k], safe'[k] = safe[k],
         k \in born' <=> k \in born, k \in cached' <=> k \in cached,
         k \in refused' <=> k \in refused, k \in safelyDeleted' <=> k \in safelyDeleted
  PROVE  KeyInv(k)'
BY DEF KeyInv, Unborn, Kept, Newest, Away, OnItsWay

(***************************************************************************)
(* One lemma per action                                                    *)
(***************************************************************************)

LEMMA AddGood ==
  ASSUME Good, NEW k \in Keys, Add(k)
  PROVE  Good'
<1>t. TypeOK /\ KeyInv(k) /\ object[k] \in Records
  BY DEF Good, TypeOK
<1>1. TypeOK'
  BY <1>t, RowTypes, CountAssumption DEF Add, TypeOK, Rows, history
<1>2. KeyInv(k)'
  BY <1>t, RowTypes, CountAssumption DEF Add, TypeOK, Rows, history, OnItsWay,
     KeyInv, Unborn, Kept, Newest, Away
<1>3. ASSUME NEW j \in Keys, j # k PROVE KeyInv(j)'
  <2>1. KeyInv(j)
    BY DEF Good
  <2>2. /\ object'[j] = object[j] /\ queued'[j] = queued[j] /\ taken'[j] = taken[j] /\ db'[j] = db[j]
        /\ refs'[j] = refs[j] /\ tests'[j] = tests[j] /\ safe'[j] = safe[j]
        /\ (j \in born' <=> j \in born) /\ (j \in cached' <=> j \in cached)
        /\ (j \in refused' <=> j \in refused) /\ (j \in safelyDeleted' <=> j \in safelyDeleted)
    BY <1>t, <1>3 DEF Add, TypeOK, history
  <2> QED
    BY <2>1, <2>2, OtherKeys
<1> QED
  BY <1>1, <1>2, <1>3 DEF Good

LEMMA EditGood ==
  ASSUME Good, NEW k \in Keys, NEW written \in BOOLEAN, Edit(k, written)
  PROVE  Good'
<1>t. TypeOK /\ KeyInv(k) /\ object[k] \in Records
  BY DEF Good, TypeOK
<1>1. TypeOK'
  BY <1>t, RowTypes, CountAssumption DEF Edit, TypeOK, Rows, history, Promise
<1>2. KeyInv(k)'
  BY <1>t, RowTypes, CountAssumption DEF Edit, TypeOK, Rows, history, Promise, OnItsWay,
     KeyInv, Unborn, Kept, Newest, Away
<1>3. ASSUME NEW j \in Keys, j # k PROVE KeyInv(j)'
  <2>1. KeyInv(j)
    BY DEF Good
  <2>2. /\ object'[j] = object[j] /\ queued'[j] = queued[j] /\ taken'[j] = taken[j] /\ db'[j] = db[j]
        /\ refs'[j] = refs[j] /\ tests'[j] = tests[j] /\ safe'[j] = safe[j]
        /\ (j \in born' <=> j \in born) /\ (j \in cached' <=> j \in cached)
        /\ (j \in refused' <=> j \in refused) /\ (j \in safelyDeleted' <=> j \in safelyDeleted)
    BY <1>t, <1>3 DEF Edit, TypeOK, history, Promise
  <2> QED
    BY <2>1, <2>2, OtherKeys
<1> QED
  BY <1>1, <1>2, <1>3 DEF Good

LEMMA DeleteGood ==
  ASSUME Good, NEW k \in Keys, Delete(k)
  PROVE  Good'
<1>t. TypeOK /\ KeyInv(k) /\ object[k] \in Records
  BY DEF Good, TypeOK
<1>1. TypeOK'
  BY <1>t, RowTypes, CountAssumption DEF Delete, TypeOK, Rows
<1>2. KeyInv(k)'
  BY <1>t, RowTypes, CountAssumption DEF Delete, TypeOK, Rows, OnItsWay,
     KeyInv, Unborn, Kept, Newest, Away
<1>3. ASSUME NEW j \in Keys, j # k PROVE KeyInv(j)'
  <2>1. KeyInv(j)
    BY DEF Good
  <2>2. /\ object'[j] = object[j] /\ queued'[j] = queued[j] /\ taken'[j] = taken[j] /\ db'[j] = db[j]
        /\ refs'[j] = refs[j] /\ tests'[j] = tests[j] /\ safe'[j] = safe[j]
        /\ (j \in born' <=> j \in born) /\ (j \in cached' <=> j \in cached)
        /\ (j \in refused' <=> j \in refused) /\ (j \in safelyDeleted' <=> j \in safelyDeleted)
    BY <1>t, <1>3 DEF Delete, TypeOK
  <2> QED
    BY <2>1, <2>2, OtherKeys
<1> QED
  BY <1>1, <1>2, <1>3 DEF Good

LEMMA StartTestGood ==
  ASSUME Good, NEW k \in Keys, StartTest(k)
  PROVE  Good'
<1>t. TypeOK /\ KeyInv(k) /\ object[k] \in Records
  BY DEF Good, TypeOK
<1>1. TypeOK'
  BY <1>t, RowTypes, CountAssumption DEF StartTest, TypeOK, Rows, history
<1>2. KeyInv(k)'
  BY <1>t, RowTypes, CountAssumption DEF StartTest, TypeOK, Rows, history, OnItsWay,
     KeyInv, Unborn, Kept, Newest, Away
<1>3. ASSUME NEW j \in Keys, j # k PROVE KeyInv(j)'
  <2>1. KeyInv(j)
    BY DEF Good
  <2>2. /\ object'[j] = object[j] /\ queued'[j] = queued[j] /\ taken'[j] = taken[j] /\ db'[j] = db[j]
        /\ refs'[j] = refs[j] /\ tests'[j] = tests[j] /\ safe'[j] = safe[j]
        /\ (j \in born' <=> j \in born) /\ (j \in cached' <=> j \in cached)
        /\ (j \in refused' <=> j \in refused) /\ (j \in safelyDeleted' <=> j \in safelyDeleted)
    BY <1>t, <1>3 DEF StartTest, TypeOK, history
  <2> QED
    BY <2>1, <2>2, OtherKeys
<1> QED
  BY <1>1, <1>2, <1>3 DEF Good

LEMMA FinishTestGood ==
  ASSUME Good, NEW k \in Keys, NEW written \in BOOLEAN, FinishTest(k, written)
  PROVE  Good'
<1>t. TypeOK /\ KeyInv(k) /\ object[k] \in Records
  BY DEF Good, TypeOK
<1>b. refs[k] > 0 \/ tests[k] > 0 => k \in born
  BY <1>t DEF KeyInv, Unborn
<1>1. TypeOK'
  BY <1>t, <1>b, RowTypes, CountAssumption DEF FinishTest, TypeOK, Rows, history, Promise
<1>2. KeyInv(k)'
  BY <1>t, RowTypes, CountAssumption DEF FinishTest, TypeOK, Rows, history, Promise, OnItsWay,
     KeyInv, Unborn, Kept, Newest, Away
<1>3. ASSUME NEW j \in Keys, j # k PROVE KeyInv(j)'
  <2>1. KeyInv(j)
    BY DEF Good
  <2>2. /\ object'[j] = object[j] /\ queued'[j] = queued[j] /\ taken'[j] = taken[j] /\ db'[j] = db[j]
        /\ refs'[j] = refs[j] /\ tests'[j] = tests[j] /\ safe'[j] = safe[j]
        /\ (j \in born' <=> j \in born) /\ (j \in cached' <=> j \in cached)
        /\ (j \in refused' <=> j \in refused) /\ (j \in safelyDeleted' <=> j \in safelyDeleted)
    BY <1>t, <1>3 DEF FinishTest, TypeOK, history, Promise
  <2> QED
    BY <2>1, <2>2, OtherKeys
<1> QED
  BY <1>1, <1>2, <1>3 DEF Good

LEMMA BeginGood ==
  ASSUME Good, NEW k \in Keys, Begin(k)
  PROVE  Good'
<1>t. TypeOK /\ KeyInv(k) /\ object[k] \in Records
  BY DEF Good, TypeOK
<1>1. TypeOK'
  BY <1>t, RowTypes, CountAssumption DEF Begin, TypeOK, Rows, history
<1>2. KeyInv(k)'
  BY <1>t, RowTypes, CountAssumption DEF Begin, TypeOK, Rows, history, OnItsWay,
     KeyInv, Unborn, Kept, Newest, Away
<1>3. ASSUME NEW j \in Keys, j # k PROVE KeyInv(j)'
  <2>1. KeyInv(j)
    BY DEF Good
  <2>2. /\ object'[j] = object[j] /\ queued'[j] = queued[j] /\ taken'[j] = taken[j] /\ db'[j] = db[j]
        /\ refs'[j] = refs[j] /\ tests'[j] = tests[j] /\ safe'[j] = safe[j]
        /\ (j \in born' <=> j \in born) /\ (j \in cached' <=> j \in cached)
        /\ (j \in refused' <=> j \in refused) /\ (j \in safelyDeleted' <=> j \in safelyDeleted)
    BY <1>t, <1>3 DEF Begin, TypeOK, history
  <2> QED
    BY <2>1, <2>2, OtherKeys
<1> QED
  BY <1>1, <1>2, <1>3 DEF Good

LEMMA FinishGood ==
  ASSUME Good, NEW k \in Keys, Finish(k)
  PROVE  Good'
<1>t. TypeOK /\ KeyInv(k) /\ object[k] \in Records
  BY DEF Good, TypeOK
<1>b. refs[k] > 0 \/ tests[k] > 0 => k \in born
  BY <1>t DEF KeyInv, Unborn
<1>1. TypeOK'
  BY <1>t, <1>b, RowTypes, CountAssumption DEF Finish, TypeOK, Rows, history
<1>2. KeyInv(k)'
  BY <1>t, RowTypes, CountAssumption DEF Finish, TypeOK, Rows, history, OnItsWay,
     KeyInv, Unborn, Kept, Newest, Away
<1>3. ASSUME NEW j \in Keys, j # k PROVE KeyInv(j)'
  <2>1. KeyInv(j)
    BY DEF Good
  <2>2. /\ object'[j] = object[j] /\ queued'[j] = queued[j] /\ taken'[j] = taken[j] /\ db'[j] = db[j]
        /\ refs'[j] = refs[j] /\ tests'[j] = tests[j] /\ safe'[j] = safe[j]
        /\ (j \in born' <=> j \in born) /\ (j \in cached' <=> j \in cached)
        /\ (j \in refused' <=> j \in refused) /\ (j \in safelyDeleted' <=> j \in safelyDeleted)
    BY <1>t, <1>3 DEF Finish, TypeOK, history
  <2> QED
    BY <2>1, <2>2, OtherKeys
<1> QED
  BY <1>1, <1>2, <1>3 DEF Good

LEMMA ReleaseGood ==
  ASSUME Good, NEW k \in Keys, Release(k)
  PROVE  Good'
<1>t. TypeOK /\ KeyInv(k) /\ object[k] \in Records
  BY DEF Good, TypeOK
<1>1. TypeOK'
  BY <1>t, RowTypes, CountAssumption DEF Release, TypeOK, Rows, history
<1>2. KeyInv(k)'
  BY <1>t, RowTypes, CountAssumption DEF Release, TypeOK, Rows, history, OnItsWay,
     KeyInv, Unborn, Kept, Newest, Away
<1>3. ASSUME NEW j \in Keys, j # k PROVE KeyInv(j)'
  <2>1. KeyInv(j)
    BY DEF Good
  <2>2. /\ object'[j] = object[j] /\ queued'[j] = queued[j] /\ taken'[j] = taken[j] /\ db'[j] = db[j]
        /\ refs'[j] = refs[j] /\ tests'[j] = tests[j] /\ safe'[j] = safe[j]
        /\ (j \in born' <=> j \in born) /\ (j \in cached' <=> j \in cached)
        /\ (j \in refused' <=> j \in refused) /\ (j \in safelyDeleted' <=> j \in safelyDeleted)
    BY <1>t, <1>3 DEF Release, TypeOK, history
  <2> QED
    BY <2>1, <2>2, OtherKeys
<1> QED
  BY <1>1, <1>2, <1>3 DEF Good

LEMMA RecoverGood ==
  ASSUME Good, NEW k \in Keys, Recover(k)
  PROVE  Good'
<1>t. TypeOK /\ KeyInv(k) /\ object[k] \in Records
  BY DEF Good, TypeOK
<1>1. TypeOK'
  BY <1>t, RowTypes, CountAssumption DEF Recover, TypeOK, Rows, history
<1>2. KeyInv(k)'
  BY <1>t, RowTypes, CountAssumption DEF Recover, TypeOK, Rows, history, OnItsWay,
     KeyInv, Unborn, Kept, Newest, Away
<1>3. ASSUME NEW j \in Keys, j # k PROVE KeyInv(j)'
  <2>1. KeyInv(j)
    BY DEF Good
  <2>2. /\ object'[j] = object[j] /\ queued'[j] = queued[j] /\ taken'[j] = taken[j] /\ db'[j] = db[j]
        /\ refs'[j] = refs[j] /\ tests'[j] = tests[j] /\ safe'[j] = safe[j]
        /\ (j \in born' <=> j \in born) /\ (j \in cached' <=> j \in cached)
        /\ (j \in refused' <=> j \in refused) /\ (j \in safelyDeleted' <=> j \in safelyDeleted)
    BY <1>t, <1>3 DEF Recover, TypeOK, history
  <2> QED
    BY <2>1, <2>2, OtherKeys
<1> QED
  BY <1>1, <1>2, <1>3 DEF Good

LEMMA WriterGood ==
  ASSUME Good, Take \/ Commit \/ BatchFails
  PROVE  Good'
<1>t. TypeOK
  BY DEF Good
<1>1. TypeOK'
  BY <1>t DEF Take, Commit, BatchFails, TypeOK, Rows, history, NoRows, Carried
<1>2. ASSUME NEW k \in Keys PROVE KeyInv(k)'
  <2>t. KeyInv(k) /\ taken[k] \in Rows /\ queued[k] \in Rows /\ db[k] \in Rows
    BY DEF Good, TypeOK
  <2>1. CASE Take
    BY <2>t, <2>1 DEF Take, history, NoRows, OnItsWay, KeyInv, Unborn, Kept, Newest, Away
  <2>2. CASE Commit
    BY <2>t, <2>2 DEF Commit, Carried, NoRows, OnItsWay, KeyInv, Unborn, Kept, Newest, Away
  <2>3. CASE BatchFails
    BY <2>t, <2>3 DEF BatchFails, Carried, NoRows, OnItsWay, KeyInv, Unborn, Kept, Newest, Away
  <2> QED
    BY <2>1, <2>2, <2>3
<1> QED
  BY <1>1, <1>2 DEF Good

LEMMA RestartGood ==
  ASSUME Good, Restart
  PROVE  Good'
<1>t. TypeOK
  BY DEF Good
<1>1. TypeOK'
  <2>1. object' \in [Keys -> Records]
    BY <1>t, RowTypes DEF Restart, TypeOK
  <2>2. cached' \in SUBSET born
    BY DEF Good, KeyInv, Unborn, Restart
  <2> QED
    BY <1>t, <2>1, <2>2, CountAssumption DEF Restart, TypeOK, NoRows, Rows
<1>2. ASSUME NEW k \in Keys PROVE KeyInv(k)'
  <2>t. KeyInv(k)
    BY DEF Good
  <2> QED
    BY <2>t DEF Restart, NoRows, OnItsWay, KeyInv, Unborn, Kept, Newest, Away
<1> QED
  BY <1>1, <1>2 DEF Good

LEMMA GoodStep == Good /\ [Next]_vars => Good'
<1> SUFFICES ASSUME Good, [Next]_vars PROVE Good'
  OBVIOUS
<1>1. ASSUME NEW k \in Keys, Add(k) \/ Delete(k) \/ StartTest(k) PROVE Good'
  BY <1>1, AddGood, DeleteGood, StartTestGood
<1>2. ASSUME NEW k \in Keys, NEW written \in BOOLEAN, Edit(k, written) \/ FinishTest(k, written)
      PROVE  Good'
  BY <1>2, EditGood, FinishTestGood
<1>3. ASSUME NEW k \in Keys, Begin(k) \/ Finish(k) \/ Release(k) \/ Recover(k) PROVE Good'
  BY <1>3, BeginGood, FinishGood, ReleaseGood, RecoverGood
<1>4. CASE Take \/ Commit \/ BatchFails
  BY <1>4, WriterGood
<1>5. CASE Restart
  BY <1>5, RestartGood
<1>6. CASE UNCHANGED vars
  <2>1. TypeOK'
    BY <1>6 DEF Good, TypeOK, vars, history
  <2>2. ASSUME NEW k \in Keys PROVE KeyInv(k)'
    BY <1>6, OtherKeys DEF Good, vars, history
  <2> QED
    BY <2>1, <2>2 DEF Good
<1> QED
  BY <1>1, <1>2, <1>3, <1>4, <1>5, <1>6 DEF Next

LEMMA AlwaysGood == Spec => []Good
BY InitGood, GoodStep, PTL DEF Spec

(***************************************************************************)
(* The theorems                                                            *)
(***************************************************************************)

\* Every variable of KeyStore keeps its type.
THEOREM StoreTypeCorrect == Spec => []TypeOK
<1>1. Good => TypeOK
  BY DEF Good
<1> QED
  BY <1>1, AlwaysGood, PTL

\* Once nothing of a key is on its way its row has all of its usage, whatever
\* edits, tests, deletions and refused batches came in between.
THEOREM RowsCatchUp == Spec => []UsageConverges
<1>1. Good => UsageConverges
  BY DEF Good, KeyInv, Newest, UsageConverges, TypeOK
<1> QED
  BY <1>1, AlwaysGood, PTL

\* An edit that found no row of its key on its way is never undone.
THEOREM SafeEditsAreKept == Spec => []SafeEditsLast
<1>1. Good => SafeEditsLast
  BY DEF Good, KeyInv, Kept, SafeEditsLast, TypeOK
<1> QED
  BY <1>1, AlwaysGood, PTL

\* A key to which nothing refers when it is deleted does not come back.
THEOREM SafeDeletionsAreKept == Spec => []SafeDeletionsLast
<1>1. Good => SafeDeletionsLast
  BY DEF Good, KeyInv, Away, SafeDeletionsLast, TypeOK
<1> QED
  BY <1>1, AlwaysGood, PTL
=============================================================================
