--------------------------- MODULE ServiceProofs ---------------------------
(***************************************************************************)
(* Theorems about the two services of the gateway that count by use and by *)
(* time, RateLimiter and ResponseCache, which share nothing.               *)
(*                                                                         *)
(* RateLimiter, for any number of addresses and keys, any limits and any   *)
(* division of the minute into ticks: what passed a window is among what   *)
(* was counted there, age by age (Among), so that the answer to a call,    *)
(* which looks at what was counted, bounds what passed.  It rests on what  *)
(* the operations do to the count of a window: one that has no more at any *)
(* age counts no more, a call adds its weight, and time adds nothing.      *)
(*                                                                         *)
(* ResponseCache, for any answers, any room, any time to live and any      *)
(* number of requests awaiting the same answer: behind is a total order of *)
(* the entries (IsOrder), the one in which they were used last, so that    *)
(* what Put drops has as many behind it as there is room; and the clock of *)
(* an entry is that of its answer, which a hit does not wind (SameAge).    *)
(***************************************************************************)
EXTENDS RateLimiter, ResponseCache, FiniteSetTheorems, TLAPS

(***************************************************************************)
(* RateLimiter: windows                                                    *)
(***************************************************************************)
LEMMA AgesFinite == IsFiniteSet(Ages) /\ 0 \in Ages
<1>1. Span - 1 \in Nat
  BY SpanAssumption
<1> QED BY <1>1, FS_Interval DEF Ages

LEMMA UnitsMembers ==
  ASSUME NEW w, NEW x
  PROVE  x \in Units(w) <=> \E a \in Ages : \E i \in 1 .. w[a] : x = <<a, i>>
BY DEF Units

LEMMA UnitsFinite ==
  ASSUME NEW w \in Windows
  PROVE  IsFiniteSet(Units(w)) /\ Count(w) \in Nat
<1> DEFINE f == [a \in Ages |-> {a} \X (1 .. w[a])]
           T == {{a} \X (1 .. w[a]) : a \in Ages}
<1>1. f \in Surjection(Ages, T)
  BY DEF Surjection
<1>2. IsFiniteSet(T)
  BY <1>1, AgesFinite, FS_Surjection
<1>3. \A a \in Ages : IsFiniteSet({a} \X (1 .. w[a]))
  <2> TAKE a \in Ages
  <2>1. w[a] \in Int /\ 1 \in Int
    BY DEF Windows
  <2>2. IsFiniteSet(1 .. w[a]) /\ IsFiniteSet({a})
    BY <2>1, FS_Interval, FS_Singleton
  <2> QED BY <2>2, FS_Product
<1>4. IsFiniteSet(UNION T)
  BY <1>2, <1>3, FS_UNION
<1>5. IsFiniteSet(Units(w))
  BY <1>4 DEF Units
<1> QED BY <1>5, FS_CardinalityType DEF Count

LEMMA CountEmpty == EmptyWindow \in Windows /\ Count(EmptyWindow) = 0
<1>1. EmptyWindow \in Windows
  BY DEF EmptyWindow, Windows
<1>2. \A a \in Ages : 1 .. EmptyWindow[a] = {}
  BY DEF EmptyWindow
<1>3. Units(EmptyWindow) = {}
  BY <1>2, UnitsMembers
<1> QED BY <1>1, <1>3, FS_EmptySet DEF Count

\* A window that has no more at any age counts no more.
LEMMA CountMonotone ==
  ASSUME NEW v \in Windows, NEW w \in Windows, \A a \in Ages : v[a] <= w[a]
  PROVE  Count(v) <= Count(w)
<1>1. \A a \in Ages : v[a] \in Nat /\ w[a] \in Nat
  BY DEF Windows
<1>2. \A a \in Ages : 1 .. v[a] \subseteq 1 .. w[a]
  BY <1>1
<1>3. Units(v) \subseteq Units(w)
  BY <1>2, UnitsMembers
<1> QED BY <1>3, UnitsFinite, FS_Subset DEF Count

LEMMA AddedType ==
  ASSUME NEW w \in Windows, NEW n \in Nat
  PROVE  /\ Added(w, n) \in Windows
         /\ Added(w, n)[0] = w[0] + n
         /\ \A a \in Ages : a # 0 => Added(w, n)[a] = w[a]
BY AgesFinite DEF Added, Windows

\* A call adds its weight.
LEMMA CountAdded ==
  ASSUME NEW w \in Windows, NEW n \in Nat
  PROVE  Count(Added(w, n)) = Count(w) + n
<1> DEFINE new == (w[0] + 1) .. (w[0] + n)
           more == {0} \X new
<1>1. w[0] \in Nat
  BY AgesFinite DEF Windows
<1>2. IsFiniteSet(new) /\ Cardinality(new) = n
  <2>1. w[0] + 1 \in Int /\ w[0] + n \in Int
    BY <1>1
  <2>2. /\ IsFiniteSet(new)
        /\ Cardinality(new) = IF w[0] + 1 > w[0] + n THEN 0 ELSE (w[0] + n) - (w[0] + 1) + 1
    BY <2>1, FS_Interval
  <2> QED BY <1>1, <2>2
<1>3. IsFiniteSet(more) /\ Cardinality(more) = n
  <2>1. IsFiniteSet({0}) /\ Cardinality({0}) = 1
    BY FS_Singleton
  <2>2. IsFiniteSet(more) /\ Cardinality(more) = 1 * n
    BY <1>2, <2>1, FS_Product
  <2> QED BY <2>2
<1>4. Units(Added(w, n)) = Units(w) \cup more
  <2>1. 1 .. (w[0] + n) = (1 .. w[0]) \cup new
    BY <1>1
  <2>2. \A a \in Ages : 1 .. Added(w, n)[a] = IF a = 0 THEN (1 .. w[0]) \cup new ELSE 1 .. w[a]
    BY <2>1, AddedType
  <2>3. \A x : x \in Units(Added(w, n)) <=> x \in Units(w) \/ x \in more
    <3>1. ASSUME NEW x, NEW a \in Ages, NEW i \in 1 .. Added(w, n)[a], x = <<a, i>>
          PROVE  x \in Units(w) \/ x \in more
      <4>1. CASE a = 0 /\ i \in new
        BY <3>1, <4>1
      <4>2. CASE i \in 1 .. w[a]
        BY <3>1, <4>2, UnitsMembers
      <4> QED BY <2>2, <3>1, <4>1, <4>2
    <3>2. ASSUME NEW x, NEW a \in Ages, NEW i \in 1 .. w[a], x = <<a, i>>
          PROVE  x \in Units(Added(w, n))
      <4>1. i \in 1 .. Added(w, n)[a]
        BY <2>2
      <4> QED BY <3>2, <4>1, UnitsMembers
    <3>3. ASSUME NEW x, x \in more
          PROVE  x \in Units(Added(w, n))
      <4>1. PICK i \in new : x = <<0, i>>
        BY <3>3
      <4>2. i \in 1 .. Added(w, n)[0]
        BY <2>2, AgesFinite
      <4> QED BY <4>1, <4>2, UnitsMembers, AgesFinite
    <3> QED BY <3>1, <3>2, <3>3, UnitsMembers
  <2> QED BY <2>3
<1>5. Units(w) \cap more = {}
  <2>1. new \cap (1 .. w[0]) = {}
    BY <1>1
  <2> QED BY <2>1, UnitsMembers
<1>6. Cardinality(Units(w) \cup more) = Cardinality(Units(w)) + n - 0
  <2> HIDE DEF more
  <2>1. IsFiniteSet(Units(w)) /\ Cardinality(Units(w) \cap more) = 0
    BY <1>5, UnitsFinite, FS_EmptySet
  <2> QED BY <1>3, <2>1, FS_Union
<1> QED BY <1>4, <1>6, UnitsFinite DEF Count

\* Time adds nothing: every unit that is left was there, a tick younger.
LEMMA CountOlder ==
  ASSUME NEW w \in Windows
  PROVE  Older(w) \in Windows /\ Count(Older(w)) <= Count(w)
<1>1. \A a \in Ages : a # 0 => a - 1 \in Ages
  BY SpanAssumption DEF Ages
<1>2. Older(w) \in Windows
  BY <1>1 DEF Older, Windows
<1> DEFINE f == [x \in Units(Older(w)) |-> <<x[1] - 1, x[2]>>]
<1>3. ASSUME NEW x \in Units(Older(w))
      PROVE  /\ x = <<x[1], x[2]>> /\ x[1] \in Ages \ {0}
             /\ f[x] = <<x[1] - 1, x[2]>> /\ f[x] \in Units(w)
  <2>1. PICK a \in Ages : \E i \in 1 .. Older(w)[a] : x = <<a, i>>
    BY UnitsMembers
  <2>2. PICK i : i \in 1 .. Older(w)[a] /\ x = <<a, i>>
    BY <2>1
  <2>3. a # 0
    BY <2>2 DEF Older
  <2>4. a - 1 \in Ages /\ i \in 1 .. w[a - 1]
    BY <1>1, <2>2, <2>3 DEF Older
  <2>5. <<a - 1, i>> \in Units(w)
    BY <2>4, UnitsMembers
  <2> QED BY <2>2, <2>3, <2>5
<1>4. \A x, y \in Units(Older(w)) : f[x] = f[y] => x = y
  <2> SUFFICES ASSUME NEW x \in Units(Older(w)), NEW y \in Units(Older(w)), f[x] = f[y]
               PROVE  x = y
    OBVIOUS
  <2>1. x[1] - 1 = y[1] - 1 /\ x[2] = y[2]
    BY <1>3
  <2>2. x[1] \in Nat /\ y[1] \in Nat
    BY <1>3, SpanAssumption DEF Ages
  <2>3. x[1] = y[1]
    BY <2>1, <2>2
  <2> QED BY <2>1, <2>3, <1>3
<1>5. f \in Injection(Units(Older(w)), Units(w))
  BY <1>3, <1>4 DEF Injection, IsInjective
<1>6. Count(Older(w)) <= Count(w)
  BY <1>5, UnitsFinite, FS_Injection DEF Count
<1> QED BY <1>2, <1>6

(***************************************************************************)
(* RateLimiter: the invariant                                              *)
(***************************************************************************)

\* What passed a window is among what was counted there.
Among == \A c \in Callers : \A a \in Ages : passed[c][a] <= calls[c][a]

Good == TypeOK /\ Among /\ WithinLimits /\ SpentWithinTpm

LEMMA InitGood == Init => Good
<1> SUFFICES ASSUME Init PROVE Good
  OBVIOUS
<1>1. TypeOK
  BY CountEmpty, TpmAssumption DEF Init, TypeOK
<1>2. Among
  BY DEF Init, Among, EmptyWindow
<1>3. \A c \in Callers : limit[c] \in Nat
  BY LimitAssumption DEF Init
<1>4. WithinLimits
  BY <1>3, CountEmpty DEF Init, WithinLimits
<1>5. SpentWithinTpm
  BY CountEmpty, TpmAssumption DEF Init, SpentWithinTpm
<1> QED BY <1>1, <1>2, <1>4, <1>5 DEF Good

\* Calls are counted at the windows cs, and those of ds let theirs pass.
LEMMA CountedKeeps ==
  ASSUME Good, UNCHANGED <<limit, tpm, spent>>,
         NEW cs \in SUBSET Callers, NEW ds \in SUBSET cs,
         \A c \in ds : Passes(calls[c], limit[c]),
         calls' = Counted(calls, cs), passed' = Counted(passed, ds)
  PROVE  Good'
<1> USE DEF Good
<1>1. \A c \in Callers : limit[c] \in Nat
  BY LimitAssumption DEF TypeOK
<1>2. ASSUME NEW c \in Callers
      PROVE  /\ calls[c] \in Windows /\ passed[c] \in Windows
             /\ calls'[c] = IF c \in cs /\ limit[c] > 0 THEN Added(calls[c], 1) ELSE calls[c]
             /\ passed'[c] = IF c \in ds /\ limit[c] > 0 THEN Added(passed[c], 1) ELSE passed[c]
  BY DEF TypeOK, Counted
<1>3. \A c \in Callers : calls'[c] \in Windows /\ passed'[c] \in Windows
  BY <1>2, AddedType
<1>4. TypeOK'
  <2>1. calls' \in [Callers -> Windows] /\ passed' \in [Callers -> Windows]
    BY <1>3 DEF Counted
  <2> QED BY <2>1 DEF TypeOK
<1>5. Among'
  <2> SUFFICES ASSUME NEW c \in Callers, NEW a \in Ages PROVE passed'[c][a] <= calls'[c][a]
    BY DEF Among
  <2>1. passed[c][a] <= calls[c][a] /\ passed[c][a] \in Nat /\ calls[c][a] \in Nat
    BY <1>2 DEF Among, Windows
  <2>2. \A w \in Windows : Added(w, 1)[a] = IF a = 0 THEN w[a] + 1 ELSE w[a]
    BY AddedType
  <2> QED BY <1>2, <2>1, <2>2
<1>6. WithinLimits'
  <2> SUFFICES ASSUME NEW c \in Callers, limit[c] > 0 PROVE Count(passed'[c]) <= limit[c]
    BY DEF WithinLimits
  <2>1. CASE c \in ds
    <3>1. Count(passed[c]) <= Count(calls[c])
      BY <1>2, CountMonotone DEF Among
    <3>2. Count(calls[c]) + 1 <= limit[c]
      BY <1>1, <2>1 DEF Passes
    <3>3. Count(passed'[c]) = Count(passed[c]) + 1
      BY <1>2, <2>1, CountAdded
    <3>4. Count(passed[c]) \in Nat /\ Count(calls[c]) \in Nat
      BY <1>2, UnitsFinite
    <3> QED BY <1>1, <3>1, <3>2, <3>3, <3>4
  <2>2. CASE c \notin ds
    BY <1>2, <2>2 DEF WithinLimits
  <2> QED BY <2>1, <2>2
<1>7. SpentWithinTpm'
  BY DEF SpentWithinTpm
<1> QED BY <1>4, <1>5, <1>6, <1>7

LEMMA NothingCounted == Good => passed = Counted(passed, {})
BY DEF Good, TypeOK, Counted

LEMMA CheckKeeps ==
  ASSUME Good, NEW a \in Addresses, Check(a)
  PROVE  Good'
<1> DEFINE asked == IF Passes(calls[Gate], limit[Gate]) THEN {Gate, a} ELSE {Gate}
           through == asked = {Gate, a} /\ Passes(calls[a], limit[a])
           ds == IF through THEN asked ELSE {}
<1>1. asked \in SUBSET Callers /\ ds \in SUBSET asked
  BY DEF Callers
<1>2. UNCHANGED <<limit, tpm, spent>> /\ calls' = Counted(calls, asked)
  BY DEF Check
<1>3. passed' = Counted(passed, ds)
  BY NothingCounted DEF Check
<1>4. \A c \in ds : Passes(calls[c], limit[c])
  BY CallerAssumption DEF Gate
<1> HIDE DEF asked, ds
<1> QED BY <1>1, <1>2, <1>3, <1>4, CountedKeeps

LEMMA CheckKeyKeeps ==
  ASSUME Good, NEW k \in Keys, CheckKey(k)
  PROVE  Good'
<1> DEFINE ds == IF Passes(calls[k], limit[k]) THEN {k} ELSE {}
<1>1. {k} \in SUBSET Callers /\ ds \in SUBSET {k} /\ \A c \in ds : Passes(calls[c], limit[c])
  BY DEF Callers
<1>2. UNCHANGED <<limit, tpm, spent>> /\ calls' = Counted(calls, {k})
  BY DEF CheckKey
<1>3. passed' = Counted(passed, ds)
  BY NothingCounted DEF CheckKey
<1> HIDE DEF ds
<1> QED BY <1>1, <1>2, <1>3, CountedKeeps

\* The adaptive limit stays in its range, and no call is booked for more than
\* its tokens.
LEMMA TpmRange ==
  ASSUME NEW n \in MinTpm .. MaxTpm
  PROVE  Slower(n) \in MinTpm .. MaxTpm /\ Faster(n) \in MinTpm .. MaxTpm
<1>1. n \in Nat /\ MinTpm \in Nat /\ MaxTpm \in Nat /\ MinTpm <= MaxTpm
  BY TpmAssumption
<1>2. (n * 85) \div 100 \in Nat /\ (n * 85) \div 100 <= n
  BY <1>1
<1>3. (n * 2 + 99) \div 100 \in Nat
  BY <1>1
<1> QED BY <1>1, <1>2, <1>3 DEF Slower, Faster, AtLeast, AtMost

LEMMA WeightRange ==
  ASSUME NEW tokens \in Tokens, NEW n \in Nat
  PROVE  Weight(tokens, n) \in Nat /\ Weight(tokens, n) <= tokens /\ tokens \in Nat
<1>1. tokens \in Nat \ {0} /\ Parts \in Nat \ {0}
  BY TpmAssumption
<1>2. n \div Parts \in Nat
  BY <1>1
<1>3. PICK d : d = AtLeast(n \div Parts, 1) /\ d \in Nat \ {0}
  BY <1>2 DEF AtLeast
<1>4. tokens \div d \in Nat /\ tokens \div d <= tokens
  BY <1>1, <1>3
<1> QED BY <1>1, <1>3, <1>4 DEF Weight, AtLeast

LEMMA CheckTokensKeeps ==
  ASSUME Good, NEW k \in Keys, NEW tokens \in Tokens, CheckTokens(k, tokens)
  PROVE  Good'
<1> USE DEF Good
<1>1. /\ tpm \in [Keys -> MinTpm .. MaxTpm] /\ spent \in [Keys -> Windows]
      /\ UNCHANGED <<limit, calls, passed>>
  BY DEF TypeOK, CheckTokens
<1>2. tpm[k] \in MinTpm .. MaxTpm /\ tpm[k] \in Nat /\ spent[k] \in Windows /\ MaxTpm \in Nat
  BY <1>1, TpmAssumption
<1>3. Among' /\ WithinLimits'
  BY <1>1 DEF Among, WithinLimits
<1>4. CASE Count(spent[k]) + tokens > tpm[k]
  <2>1. tpm' = [tpm EXCEPT ![k] = Slower(@)] /\ UNCHANGED spent
    BY <1>4 DEF CheckTokens
  <2>2. TypeOK'
    BY <1>1, <1>2, <2>1, TpmRange DEF TypeOK
  <2> QED BY <1>3, <2>1, <2>2 DEF SpentWithinTpm
<1>5. CASE ~(Count(spent[k]) + tokens > tpm[k])
  <2> DEFINE weight == Weight(tokens, tpm[k])
  <2>1. /\ spent' = [spent EXCEPT ![k] = Added(spent[k], weight)]
        /\ tpm' = [tpm EXCEPT ![k] = Faster(tpm[k])]
    BY <1>5 DEF CheckTokens
  <2>2. weight \in Nat /\ weight <= tokens /\ tokens \in Nat
    BY <1>2, WeightRange
  <2> HIDE DEF weight
  <2>3. Added(spent[k], weight) \in Windows
    BY <1>2, <2>2, AddedType
  <2>4. TypeOK'
    BY <1>1, <1>2, <2>1, <2>3, TpmRange DEF TypeOK
  <2>5. Count(Added(spent[k], weight)) = Count(spent[k]) + weight /\ Count(spent[k]) \in Nat
    BY <1>2, <2>2, CountAdded, UnitsFinite
  <2>6. Count(Added(spent[k], weight)) <= MaxTpm
    BY <1>2, <1>5, <2>2, <2>5
  <2>7. SpentWithinTpm'
    BY <1>1, <2>1, <2>6 DEF SpentWithinTpm
  <2> QED BY <1>3, <2>4, <2>7
<1> QED BY <1>4, <1>5

\* A new limit starts a new count of what passes.
LEMMA SetLimitKeeps ==
  ASSUME Good, NEW n \in Limits, NEW cs \in SUBSET Callers, SetLimit(cs, n),
         Addresses \subseteq cs \/ Addresses \cap cs = {}
  PROVE  Good'
<1> USE DEF Good, SetLimit
<1>1. n \in Nat
  BY LimitAssumption
<1>2. limit' \in [Callers -> Limits] /\ Addresses \subseteq Callers
  BY DEF TypeOK, Callers
<1>3. \A a, b \in Addresses : limit'[a] = limit'[b]
  BY <1>2 DEF TypeOK
<1>4. passed' \in [Callers -> Windows]
  BY CountEmpty DEF TypeOK
<1>5. TypeOK'
  BY <1>2, <1>3, <1>4 DEF TypeOK
<1>6. Among'
  <2>1. \A c \in Callers : \A a \in Ages : calls[c][a] \in Nat
    BY DEF TypeOK, Windows
  <2> QED BY <2>1 DEF Among, EmptyWindow
<1>7. WithinLimits'
  BY <1>1, CountEmpty DEF WithinLimits
<1>8. SpentWithinTpm'
  BY DEF SpentWithinTpm
<1> QED BY <1>5, <1>6, <1>7, <1>8

LEMMA TickKeeps ==
  ASSUME Good, Tick
  PROVE  Good'
<1> USE DEF Good
<1>1. /\ calls' = [c \in Callers |-> Older(calls[c])]
      /\ passed' = [c \in Callers |-> Older(passed[c])]
      /\ spent' = [k \in Keys |-> Older(spent[k])]
      /\ UNCHANGED <<limit, tpm>>
  BY DEF Tick, Older
<1>2. \A c \in Callers : limit[c] \in Nat /\ calls[c] \in Windows /\ passed[c] \in Windows
  BY LimitAssumption DEF TypeOK
<1>3. \A k \in Keys : spent[k] \in Windows
  BY DEF TypeOK
<1>4. TypeOK'
  <2>1. calls' \in [Callers -> Windows] /\ passed' \in [Callers -> Windows]
    BY <1>1, <1>2, CountOlder
  <2>2. spent' \in [Keys -> Windows]
    BY <1>1, <1>3, CountOlder
  <2> QED BY <1>1, <2>1, <2>2 DEF TypeOK
<1>5. Among'
  <2>1. \A a \in Ages : a # 0 => a - 1 \in Ages
    BY SpanAssumption DEF Ages
  <2> QED BY <1>1, <2>1 DEF Among, Older
<1>6. WithinLimits'
  <2> SUFFICES ASSUME NEW c \in Callers, limit[c] > 0 PROVE Count(Older(passed[c])) <= limit[c]
    BY <1>1 DEF WithinLimits
  <2>1. Count(Older(passed[c])) <= Count(passed[c]) /\ Older(passed[c]) \in Windows
    BY <1>2, CountOlder
  <2>2. Count(Older(passed[c])) \in Nat /\ Count(passed[c]) \in Nat
    BY <1>2, <2>1, UnitsFinite
  <2> QED BY <1>2, <2>1, <2>2 DEF WithinLimits
<1>7. SpentWithinTpm'
  <2> SUFFICES ASSUME NEW k \in Keys PROVE Count(Older(spent[k])) <= MaxTpm
    BY <1>1 DEF SpentWithinTpm
  <2>1. Count(Older(spent[k])) <= Count(spent[k]) /\ Older(spent[k]) \in Windows
    BY <1>3, CountOlder
  <2>2. Count(Older(spent[k])) \in Nat /\ Count(spent[k]) \in Nat
    BY <1>3, <2>1, UnitsFinite
  <2> QED BY <2>1, <2>2, TpmAssumption DEF SpentWithinTpm
<1> QED BY <1>4, <1>5, <1>6, <1>7

LEMMA GoodStep == Good /\ [Next]_vars => Good'
<1> SUFFICES ASSUME Good, [Next]_vars PROVE Good'
  OBVIOUS
<1>1. ASSUME NEW a \in Addresses, Check(a) PROVE Good'
  BY <1>1, CheckKeeps
<1>2. ASSUME NEW k \in Keys, CheckKey(k) PROVE Good'
  BY <1>2, CheckKeyKeeps
<1>3. ASSUME NEW k \in Keys, NEW tokens \in Tokens, CheckTokens(k, tokens) PROVE Good'
  BY <1>3, CheckTokensKeeps
<1>4. ASSUME NEW n \in Limits,
             SetLimit({Gate}, n) \/ SetLimit(Addresses, n) \/ \E k \in Keys : SetLimit({k}, n)
      PROVE  Good'
  <2>1. CASE SetLimit({Gate}, n)
    <3>1. {Gate} \in SUBSET Callers /\ Addresses \cap {Gate} = {}
      BY CallerAssumption DEF Callers, Gate
    <3> QED BY <2>1, <3>1, SetLimitKeeps
  <2>2. CASE SetLimit(Addresses, n)
    <3>1. Addresses \in SUBSET Callers
      BY DEF Callers
    <3> QED BY <2>2, <3>1, SetLimitKeeps
  <2>3. ASSUME NEW k \in Keys, SetLimit({k}, n) PROVE Good'
    <3>1. {k} \in SUBSET Callers /\ Addresses \cap {k} = {}
      BY CallerAssumption DEF Callers
    <3> QED BY <2>3, <3>1, SetLimitKeeps
  <2> QED BY <1>4, <2>1, <2>2, <2>3
<1>5. CASE Tick
  BY <1>5, TickKeeps
<1>6. CASE UNCHANGED vars
  BY <1>6 DEF vars, Good, TypeOK, Among, WithinLimits, SpentWithinTpm
<1> QED BY <1>1, <1>2, <1>3, <1>4, <1>5, <1>6 DEF Next

LEMMA AlwaysGood == Spec => []Good
<1>1. Init => Good
  BY InitGood
<1>2. Good /\ [Next]_vars => Good'
  BY GoodStep
<1> QED BY <1>1, <1>2, PTL DEF Spec

\* Windows, limits and adaptive limits keep their types, the adaptive limit its
\* range, and every address has the same limit.
THEOREM RateLimiterTypeCorrect == Spec => []TypeOK
<1>1. Good => TypeOK
  BY DEF Good
<1> QED BY <1>1, AlwaysGood, PTL

\* However the console moves the limits while calls come in and grow old, and
\* whatever the gate and the addresses refused: no more calls of a minute pass a
\* window than the limit it has, counted since that was set.
THEOREM LimitsAreKept == Spec => []WithinLimits
<1>1. Good => WithinLimits
  BY DEF Good
<1> QED BY <1>1, AlwaysGood, PTL

\* What check_tpm books for a key in a minute never exceeds the largest adaptive
\* limit, although each call is weighed by the limit of its moment.
THEOREM SpendingIsBounded == Spec => []SpentWithinTpm
<1>1. Good => SpentWithinTpm
  BY DEF Good
<1> QED BY <1>1, AlwaysGood, PTL

(***************************************************************************)
(* ResponseCache: the order of a dictionary                                *)
(***************************************************************************)

\* b gives for each of s what is behind it in a total order of s.
IsOrder(b, s) ==
  /\ b \in [Answers -> SUBSET s]
  /\ \A j \in s : j \notin b[j]
  /\ \A i, j \in s : i \in b[j] \/ j \in b[i] \/ i = j
  /\ \A i, j \in s : i \in b[j] => b[i] \subseteq b[j]

\* What moves to the end has nothing behind it, and is behind all others.
LEMMA MovedOrder ==
  ASSUME NEW s \in SUBSET Answers, NEW b, IsOrder(b, s), NEW k \in Answers
  PROVE  IsOrder(Moved(b, s, k), s \cup {k})
<1> DEFINE m == Moved(b, s, k)
           t == s \cup {k}
<1>1. /\ m[k] = {}
      /\ \A j \in s \ {k} : m[j] = b[j] \cup {k}
      /\ \A j \in Answers \ t : m[j] = b[j]
  BY DEF Moved
<1>2. m \in [Answers -> SUBSET t]
  BY DEF Moved, IsOrder
<1> HIDE DEF m
<1>3. \A j \in t : j \notin m[j]
  BY <1>1 DEF IsOrder
<1>4. \A i, j \in t : i \in m[j] \/ j \in m[i] \/ i = j
  BY <1>1 DEF IsOrder
<1>5. \A i, j \in t : i \in m[j] => m[i] \subseteq m[j]
  BY <1>1 DEF IsOrder
<1>6. IsOrder(m, t)
  BY <1>2, <1>3, <1>4, <1>5 DEF IsOrder
<1> QED BY <1>6 DEF m

\* The others can leave an order.
LEMMA WithinOrder ==
  ASSUME NEW s \in SUBSET Answers, NEW b, IsOrder(b, s), NEW t \in SUBSET s
  PROVE  IsOrder(Within(b, t), t)
BY DEF Within, IsOrder

\* Of an order no more than n have less than n behind them, as no two have as
\* many.
LEMMA LastBounded ==
  ASSUME NEW s \in SUBSET Answers, IsFiniteSet(s), NEW b, IsOrder(b, s), NEW n \in Nat
  PROVE  /\ Last(b, s, n) \subseteq s /\ IsFiniteSet(Last(b, s, n))
         /\ Cardinality(Last(b, s, n)) <= n
<1> DEFINE t == Last(b, s, n)
           f == [j \in t |-> Cardinality(b[j])]
<1>1. t \subseteq s /\ IsFiniteSet(t)
  BY FS_Subset DEF Last
<1>2. \A j \in s : b[j] \subseteq s /\ IsFiniteSet(b[j]) /\ Cardinality(b[j]) \in Nat
  BY FS_Subset, FS_CardinalityType DEF IsOrder
<1>3. f \in [t -> 0 .. n - 1]
  BY <1>1, <1>2 DEF Last
<1>4. ASSUME NEW i \in s, NEW j \in s, i \in b[j]
      PROVE  Cardinality(b[i]) # Cardinality(b[j])
  <2>1. b[i] \in SUBSET b[j] /\ b[i] # b[j]
    BY <1>4 DEF IsOrder
  <2> QED BY <1>2, <2>1, FS_Subset
<1>5. \A i, j \in t : f[i] = f[j] => i = j
  BY <1>1, <1>4 DEF IsOrder
<1>6. f \in Injection(t, 0 .. n - 1)
  BY <1>3, <1>5 DEF Injection, IsInjective
<1>7. IsFiniteSet(0 .. n - 1) /\ Cardinality(0 .. n - 1) = n
  <2>1. 0 \in Int /\ n - 1 \in Int
    OBVIOUS
  <2>2. /\ IsFiniteSet(0 .. n - 1)
        /\ Cardinality(0 .. n - 1) = IF 0 > n - 1 THEN 0 ELSE (n - 1) - 0 + 1
    BY <2>1, FS_Interval
  <2> QED BY <2>2
<1>8. Cardinality(t) <= n
  BY <1>6, <1>7, FS_Injection
<1> QED BY <1>1, <1>8

(***************************************************************************)
(* ResponseCache: the invariant                                            *)
(***************************************************************************)
CacheFinite == IsFiniteSet(store) /\ \A k \in Answers : IsFiniteSet(later[k])

\* The clock of an entry is that of its answer: a hit winds neither.
SameAge == \A k \in store : since[k] = age[k]

CacheGood ==
  CacheTypeOK /\ CacheFinite /\ IsOrder(behind, store) /\ SameAge /\ HoldsTheLastUsed

LEMMA InitCacheGood == CacheInit => CacheGood
<1> SUFFICES ASSUME CacheInit PROVE CacheGood
  OBVIOUS
<1>1. CacheTypeOK /\ CacheFinite
  BY CacheAssumption, FS_EmptySet DEF CacheInit, CacheTypeOK, CacheFinite, Old
<1>2. IsOrder(behind, store) /\ SameAge
  BY DEF CacheInit, IsOrder, SameAge
<1>3. HoldsTheLastUsed
  BY CacheAssumption DEF CacheInit, HoldsTheLastUsed, Old
<1> QED BY <1>1, <1>2, <1>3 DEF CacheGood

LEMMA ClockType == \A n \in 0 .. Old : (IF n < Old THEN n + 1 ELSE Old) \in 0 .. Old
BY CacheAssumption DEF Old

\* What a use of k does to the history.
LEMMA UsedLater ==
  ASSUME CacheTypeOK, CacheFinite, NEW k \in Answers, Used(k)
  PROVE  /\ later' \in [Answers -> SUBSET Answers]
         /\ later'[k] = {}
         /\ \A j \in Answers \ {k} : later'[j] = later[j] \cup {k}
         /\ \A j \in Answers : IsFiniteSet(later'[j])
         /\ \A j \in Answers \ {k} : Cardinality(later[j]) <= Cardinality(later'[j])
         /\ \A j \in Answers : Cardinality(later[j]) \in Nat /\ Cardinality(later'[j]) \in Nat
<1>1. later' \in [Answers -> SUBSET Answers]
  BY DEF Used, Moved, CacheTypeOK
<1>2. later'[k] = {} /\ \A j \in Answers \ {k} : later'[j] = later[j] \cup {k}
  BY DEF Used, Moved
<1>3. \A j \in Answers : IsFiniteSet(later'[j])
  <2>1. IsFiniteSet(later'[k])
    BY <1>2, FS_EmptySet
  <2>2. ASSUME NEW j \in Answers \ {k} PROVE IsFiniteSet(later'[j])
    <3>1. IsFiniteSet(later[j]) /\ later'[j] = later[j] \cup {k}
      BY <1>2 DEF CacheFinite
    <3> QED BY <3>1, FS_AddElement
  <2> QED BY <2>1, <2>2
<1>4. \A j \in Answers \ {k} : Cardinality(later[j]) <= Cardinality(later'[j])
  BY <1>2, <1>3, FS_Subset
<1>5. \A j \in Answers : Cardinality(later[j]) \in Nat /\ Cardinality(later'[j]) \in Nat
  BY <1>3, FS_CardinalityType DEF CacheFinite
<1> QED BY <1>1, <1>2, <1>3, <1>4, <1>5

LEMMA HitKeeps ==
  ASSUME CacheGood, NEW k \in Answers, Hit(k)
  PROVE  CacheGood'
<1> USE DEF CacheGood, Hit
<1>1. store' = store /\ store \cup {k} = store /\ store \in SUBSET Answers
  BY DEF CacheTypeOK
<1>2. IsOrder(behind, store)'
  BY <1>1, MovedOrder
<1>3. CacheTypeOK' /\ CacheFinite'
  BY <1>1, <1>2, UsedLater DEF CacheTypeOK, CacheFinite, IsOrder
<1>4. SameAge'
  BY DEF SameAge
<1>5. behind'[k] = {} /\ \A j \in store \ {k} : behind'[j] = behind[j] \cup {k}
  BY <1>1 DEF Moved
<1>6. \A i, j \in store : i \in behind'[j] <=> i \in later'[j]
  BY <1>1, <1>5, UsedLater DEF HoldsTheLastUsed
<1>7. ASSUME NEW j \in Answers, since[j] <= Ttl, Cardinality(later'[j]) < MaxEntries
      PROVE  j \in store
  BY <1>7, UsedLater, CacheAssumption DEF HoldsTheLastUsed
<1>8. HoldsTheLastUsed'
  BY <1>1, <1>6, <1>7 DEF HoldsTheLastUsed
<1> QED BY <1>2, <1>3, <1>4, <1>8

LEMMA MissKeeps ==
  ASSUME CacheGood, NEW k \in Answers, Miss(k)
  PROVE  CacheGood'
<1> USE DEF CacheGood, Miss
<1>1. store' \in SUBSET store /\ store \in SUBSET Answers
  BY DEF CacheTypeOK
<1>2. IsOrder(behind, store)'
  BY <1>1, WithinOrder
<1>3. IsFiniteSet(store') /\ Cardinality(store') <= MaxEntries
  <2>1. IsFiniteSet(store') /\ Cardinality(store') <= Cardinality(store)
    BY <1>1, FS_Subset DEF CacheFinite
  <2>2. Cardinality(store) \in Nat /\ Cardinality(store') \in Nat
    BY <2>1, FS_CardinalityType DEF CacheFinite
  <2> QED BY <2>1, <2>2, CacheAssumption DEF CacheTypeOK
<1>4. waiting' \in [Answers -> 0 .. MaxWaiting]
  BY CacheAssumption DEF CacheTypeOK
<1>5. CacheTypeOK' /\ CacheFinite'
  BY <1>1, <1>2, <1>3, <1>4 DEF CacheTypeOK, CacheFinite, IsOrder
<1>6. SameAge'
  BY DEF SameAge
<1>7. \A j \in store' : behind'[j] = behind[j] \cap store'
  BY <1>1 DEF Within
<1>8. k \in store => ~(since[k] <= Ttl)
  BY DEF SameAge
<1>9. HoldsTheLastUsed'
  BY <1>1, <1>7, <1>8 DEF HoldsTheLastUsed
<1> QED BY <1>2, <1>5, <1>6, <1>9

\* What Put drops has as many behind it as there is room, and all of these were
\* used later.
LEMMA PutKeeps ==
  ASSUME CacheGood, NEW k \in Answers, Put(k)
  PROVE  CacheGood'
<1> USE DEF CacheGood
<1> DEFINE moved == Moved(behind, store, k)
           all == store \cup {k}
<1>1. /\ store' = Last(moved, all, MaxEntries) /\ behind' = Within(moved, store')
      /\ Used(k)
      /\ waiting[k] > 0 /\ waiting' = [waiting EXCEPT ![k] = @ - 1]
      /\ age' = [age EXCEPT ![k] = 0] /\ since' = [since EXCEPT ![k] = 0]
  BY DEF Put
<1>2. store \in SUBSET Answers /\ all \in SUBSET Answers
  BY DEF CacheTypeOK
<1>3. /\ moved[k] = {}
      /\ \A j \in store \ {k} : moved[j] = behind[j] \cup {k}
  BY <1>2 DEF Moved
<1>4. IsOrder(moved, all)
  BY <1>2, MovedOrder
<1>5. IsFiniteSet(all)
  BY FS_AddElement DEF CacheFinite
<1> HIDE DEF moved
<1>6. MaxEntries \in Nat \ {0}
  BY CacheAssumption
<1>7. store' \in SUBSET all /\ IsFiniteSet(store') /\ Cardinality(store') <= MaxEntries
  BY <1>1, <1>2, <1>4, <1>5, <1>6, LastBounded
<1>8. IsOrder(behind, store)'
  BY <1>1, <1>2, <1>4, <1>7, WithinOrder
<1>9. waiting' \in [Answers -> 0 .. MaxWaiting]
  BY <1>1, CacheAssumption DEF CacheTypeOK
<1>10. age' \in [Answers -> 0 .. Old] /\ since' \in [Answers -> 0 .. Old]
  BY <1>1, CacheAssumption DEF CacheTypeOK, Old
<1>11. CacheTypeOK' /\ CacheFinite'
  <2>1. store' \subseteq Answers /\ behind' \in [Answers -> SUBSET store']
    BY <1>2, <1>7, <1>8 DEF IsOrder
  <2>2. later' \in [Answers -> SUBSET Answers] /\ \A j \in Answers : IsFiniteSet(later'[j])
    BY <1>1, UsedLater
  <2> QED BY <1>7, <1>9, <1>10, <2>1, <2>2 DEF CacheTypeOK, CacheFinite
<1>12. SameAge'
  BY <1>1, <1>2, <1>7 DEF SameAge, CacheTypeOK
<1>13. /\ later'[k] = {}
       /\ \A j \in Answers \ {k} : /\ later'[j] = later[j] \cup {k}
                                   /\ Cardinality(later[j]) <= Cardinality(later'[j])
       /\ \A j \in Answers : /\ IsFiniteSet(later'[j])
                             /\ Cardinality(later[j]) \in Nat /\ Cardinality(later'[j]) \in Nat
  BY <1>1, UsedLater
<1>14. \A i, j \in all : i \in moved[j] <=> i \in later'[j]
  BY <1>2, <1>3, <1>13 DEF HoldsTheLastUsed
<1>15. \A j \in store' : behind'[j] = moved[j] \cap store'
  BY <1>1, <1>2, <1>7 DEF Within
<1>16. \A i, j \in store' : i \in behind'[j] <=> i \in later'[j]
  BY <1>7, <1>14, <1>15
<1>17. ASSUME NEW j \in Answers, since'[j] <= Ttl, Cardinality(later'[j]) < MaxEntries
       PROVE  j \in store'
  <2>1. j \in all
    <3>1. CASE j = k
      BY <3>1
    <3>2. CASE j # k
      <4>1. since[j] <= Ttl
        BY <1>1, <1>17, <3>2 DEF CacheTypeOK
      <4>2. Cardinality(later[j]) < MaxEntries
        BY <1>6, <1>13, <1>17, <3>2
      <4> QED BY <4>1, <4>2 DEF HoldsTheLastUsed
    <3> QED BY <3>1, <3>2
  <2>2. moved[j] \in SUBSET later'[j]
    BY <1>4, <1>14, <2>1 DEF IsOrder
  <2>3. IsFiniteSet(moved[j]) /\ Cardinality(moved[j]) <= Cardinality(later'[j])
    BY <1>13, <2>2, FS_Subset
  <2>4. Cardinality(moved[j]) \in Nat
    BY <2>3, FS_CardinalityType
  <2>5. Cardinality(moved[j]) < MaxEntries
    BY <1>6, <1>13, <1>17, <2>3, <2>4
  <2> QED BY <1>1, <2>1, <2>5 DEF Last
<1>18. HoldsTheLastUsed'
  BY <1>16, <1>17 DEF HoldsTheLastUsed
<1> QED BY <1>8, <1>11, <1>12, <1>18

LEMMA PutNothingKeeps ==
  ASSUME CacheGood, NEW k \in Answers, PutNothing(k)
  PROVE  CacheGood'
<1> USE DEF CacheGood, PutNothing
<1>1. waiting' \in [Answers -> 0 .. MaxWaiting]
  BY CacheAssumption DEF CacheTypeOK
<1>2. CacheTypeOK' /\ CacheFinite'
  BY <1>1 DEF CacheTypeOK, CacheFinite
<1>3. IsOrder(behind, store)' /\ SameAge' /\ HoldsTheLastUsed'
  BY DEF SameAge, HoldsTheLastUsed
<1> QED BY <1>2, <1>3

LEMMA InvalidateKeeps ==
  ASSUME CacheGood, Invalidate
  PROVE  CacheGood'
<1> USE DEF CacheGood, Invalidate
<1>1. CacheTypeOK' /\ CacheFinite'
  BY CacheAssumption, FS_EmptySet DEF CacheTypeOK, CacheFinite, Old
<1>2. IsOrder(behind, store)' /\ SameAge'
  BY DEF IsOrder, SameAge
<1>3. HoldsTheLastUsed'
  BY CacheAssumption DEF HoldsTheLastUsed, Old
<1> QED BY <1>1, <1>2, <1>3

LEMMA AgeKeeps ==
  ASSUME CacheGood, CacheTick
  PROVE  CacheGood'
<1> USE DEF CacheGood, CacheTick
<1>1. CacheTypeOK' /\ CacheFinite'
  BY ClockType DEF CacheTypeOK, CacheFinite
<1>2. IsOrder(behind, store)'
  OBVIOUS
<1>3. SameAge'
  BY DEF SameAge, CacheTypeOK
<1>4. \A k \in Answers : since'[k] <= Ttl => since[k] <= Ttl
  BY CacheAssumption DEF CacheTypeOK, Old
<1>5. HoldsTheLastUsed'
  BY <1>4 DEF HoldsTheLastUsed
<1> QED BY <1>1, <1>2, <1>3, <1>5

LEMMA CacheGoodStep == CacheGood /\ [CacheNext]_cacheVars => CacheGood'
<1> SUFFICES ASSUME CacheGood, [CacheNext]_cacheVars PROVE CacheGood'
  OBVIOUS
<1>1. ASSUME NEW k \in Answers,
             Hit(k) \/ Miss(k) \/ Put(k) \/ PutNothing(k)
      PROVE  CacheGood'
  BY <1>1, HitKeeps, MissKeeps, PutKeeps, PutNothingKeeps
<1>2. CASE Invalidate
  BY <1>2, InvalidateKeeps
<1>3. CASE CacheTick
  BY <1>3, AgeKeeps
<1>4. CASE UNCHANGED cacheVars
  BY <1>4 DEF cacheVars, CacheGood, CacheTypeOK, CacheFinite, SameAge, HoldsTheLastUsed
<1> QED BY <1>1, <1>2, <1>3, <1>4 DEF CacheNext

LEMMA CacheAlwaysGood == CacheSpec => []CacheGood
<1>1. CacheInit => CacheGood
  BY InitCacheGood
<1>2. CacheGood /\ [CacheNext]_cacheVars => CacheGood'
  BY CacheGoodStep
<1> QED BY <1>1, <1>2, PTL DEF CacheSpec

\* However many requests await and put the same answers while entries come of age
\* and the console clears: there are never more entries than there is room.
THEOREM CacheTypeCorrect == CacheSpec => []CacheTypeOK
<1>1. CacheGood => CacheTypeOK
  BY DEF CacheGood
<1> QED BY <1>1, CacheAlwaysGood, PTL

\* The entries are in the order of their last use, and of the MaxEntries answers
\* used last the cache holds all that are not too old.
THEOREM TheLastUsedAreHeld == CacheSpec => []HoldsTheLastUsed
<1>1. CacheGood => HoldsTheLastUsed
  BY DEF CacheGood
<1> QED BY <1>1, CacheAlwaysGood, PTL

\* No number of hits makes an entry outlive Ttl: what a hit returns came from
\* upstream no longer ago.
THEOREM HitsAreNeverStale == CacheSpec => HitsAreFresh
<1>1. CacheGood /\ [CacheNext]_cacheVars
        => [\A k \in Answers : Hit(k) => since[k] <= Ttl]_cacheVars
  BY DEF CacheGood, SameAge, Hit
<1> QED BY <1>1, CacheAlwaysGood, PTL DEF CacheSpec, HitsAreFresh
=============================================================================
