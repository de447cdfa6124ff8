------------------------- MODULE BatchWriterProofs -------------------------
(***************************************************************************)
(* Theorems about BatchWriter, for any number of rows and any that the     *)
(* database refuses: the thread implements the durable queue, and a second *)
(* flush makes up for the first.                                           *)
(***************************************************************************)
EXTENDS BatchWriter, SequenceTheorems, WellFoundedInduction, TLAPS

(***************************************************************************)
(* Sequences, and sequences by kind                                        *)
(***************************************************************************)
LEMMA ElementsConcat ==
  ASSUME NEW S, NEW s \in Seq(S), NEW t \in Seq(S)
  PROVE  Elements(s \o t) = Elements(s) \cup Elements(t)
<1>1. /\ s \o t \in Seq(S) /\ Len(s \o t) = Len(s) + Len(t)
      /\ \A i \in 1 .. Len(s) + Len(t) : (s \o t)[i] = IF i <= Len(s) THEN s[i] ELSE t[i - Len(s)]
  BY ConcatProperties
<1>2. /\ Len(s) \in Nat /\ DOMAIN s = 1 .. Len(s) /\ Len(t) \in Nat /\ DOMAIN t = 1 .. Len(t)
      /\ DOMAIN (s \o t) = 1 .. Len(s) + Len(t)
  BY <1>1, LenProperties
<1>3. ASSUME NEW i \in DOMAIN s PROVE s[i] \in Elements(s \o t)
  <2>1. i \in DOMAIN (s \o t) /\ (s \o t)[i] = s[i]
    BY <1>1, <1>2
  <2> QED
    BY <2>1 DEF Elements
<1>4. ASSUME NEW i \in DOMAIN t PROVE t[i] \in Elements(s \o t)
  <2>1. Len(s) + i \in DOMAIN (s \o t) /\ (s \o t)[Len(s) + i] = t[i]
    BY <1>1, <1>2
  <2> QED
    BY <2>1 DEF Elements
<1>5. ASSUME NEW i \in DOMAIN (s \o t) PROVE (s \o t)[i] \in Elements(s) \cup Elements(t)
  <2>1. CASE i <= Len(s)
    BY <1>1, <1>2, <2>1 DEF Elements
  <2>2. CASE ~(i <= Len(s))
    <3>1. i - Len(s) \in DOMAIN t /\ (s \o t)[i] = t[i - Len(s)]
      BY <1>1, <1>2, <2>2
    <3> QED
      BY <3>1 DEF Elements
  <2> QED
    BY <2>1, <2>2
<1> QED
  BY <1>3, <1>4, <1>5 DEF Elements

ByKind(S) == [Kinds -> Seq(S)]

LEMMA JoinedType ==
  ASSUME NEW S, NEW p \in ByKind(S), NEW q \in ByKind(S)
  PROVE  /\ Joined(p, q) \in ByKind(S)
         /\ In(Joined(p, q)) = In(p) \cup In(q)
<1>1. ASSUME NEW k \in Kinds
      PROVE  Joined(p, q)[k] \in Seq(S) /\ Elements(Joined(p, q)[k]) = Elements(p[k]) \cup Elements(q[k])
  BY ConcatProperties, ElementsConcat DEF Joined, ByKind
<1>2. Joined(p, q) \in ByKind(S)
  BY <1>1 DEF Joined, ByKind
<1> QED
  BY <1>1, <1>2 DEF In, ByKind

LEMMA NoneType ==
  /\ \A S : None \in ByKind(S)
  /\ In(None) = {}
  /\ \A S : \A q \in ByKind(S) : Joined(q, None) = q /\ Joined(None, q) = q
<1>1. \A S : None \in ByKind(S)
  BY EmptySeq DEF None, ByKind
<1>2. In(None) = {}
  BY DEF In, None, Elements
<1>3. ASSUME NEW S, NEW q \in ByKind(S) PROVE Joined(q, None) = q /\ Joined(None, q) = q
  <2>1. \A k \in Kinds : q[k] \o <<>> = q[k] /\ <<>> \o q[k] = q[k]
    BY ConcatEmptySeq
  <2> QED
    BY <2>1 DEF Joined, None, ByKind
<1> QED
  BY <1>1, <1>2, <1>3

LEMMA KindsMonotonic ==
  ASSUME NEW S, NEW T, S \subseteq T, NEW q \in ByKind(S)
  PROVE  q \in ByKind(T)
BY SeqMonotonic DEF ByKind

LEMMA InType ==
  ASSUME NEW S, NEW q \in ByKind(S)
  PROVE  In(q) \subseteq S
<1> SUFFICES ASSUME NEW k \in Kinds, NEW i \in DOMAIN q[k] PROVE q[k][i] \in S
  BY DEF In, Elements
<1> QED
  BY LenProperties, ElementOfSeq DEF ByKind

\* Taking a run out of the middle part of three.
LEMMA WithoutMiddle ==
  ASSUME NEW a \in Seq(Rows), NEW b \in Seq(Rows), NEW c \in Seq(Rows), NEW n \in 0 .. Len(b)
  PROVE  /\ Len(a \o (b \o c)) = Len(a) + Len(b) + Len(c)
         /\ (a \o SubSeq(b, 1, n)) \o c = Queue!Without(a \o (b \o c), Len(a) + n, Len(a) + Len(b))
         /\ \A i \in 1 .. Len(b) : (a \o (b \o c))[Len(a) + i] = b[i]
<1> DEFINE s == a \o (b \o c)
           p == a \o SubSeq(b, 1, n)
           la == Len(a)
           lb == Len(b)
           lc == Len(c)
<1>1. la \in Nat /\ lb \in Nat /\ lc \in Nat
  BY LenProperties
<1>2. /\ b \o c \in Seq(Rows) /\ Len(b \o c) = lb + lc
      /\ \A i \in 1 .. lb + lc : (b \o c)[i] = IF i <= lb THEN b[i] ELSE c[i - lb]
  BY ConcatProperties
<1>3. /\ s \in Seq(Rows) /\ Len(s) = la + (lb + lc)
      /\ \A i \in 1 .. la + (lb + lc) : s[i] = IF i <= la THEN a[i] ELSE (b \o c)[i - la]
  BY <1>2, ConcatProperties
<1>4. /\ SubSeq(b, 1, n) \in Seq(Rows) /\ Len(SubSeq(b, 1, n)) = n
      /\ \A i \in 1 .. n : SubSeq(b, 1, n)[i] = b[i]
  <2>1. \A i \in 1 .. n : b[i] \in Rows
    BY <1>1, ElementOfSeq
  <2> QED
    BY <1>1, <2>1, SubSeqProperties
<1>5. /\ p \in Seq(Rows) /\ Len(p) = la + n
      /\ \A i \in 1 .. la + n : p[i] = IF i <= la THEN a[i] ELSE SubSeq(b, 1, n)[i - la]
  BY <1>4, ConcatProperties
<1>6. \A i \in 1 .. lb : s[la + i] = b[i]
  <2> SUFFICES ASSUME NEW i \in 1 .. lb PROVE s[la + i] = b[i]
    OBVIOUS
  <2>1. (la + i) - la = i /\ la + i \in 1 .. la + (lb + lc) /\ ~(la + i <= la) /\ i \in 1 .. lb + lc
    BY <1>1
  <2> HIDE DEF s, la, lb, lc
  <2>2. s[la + i] = (b \o c)[(la + i) - la]
    BY <1>3, <2>1
  <2> QED
    BY <1>2, <2>1, <2>2
<1>7. SubSeq(s, 1, la + n) = p
  <2>1. \A i \in 1 .. la + n : s[i] = p[i]
    <3> SUFFICES ASSUME NEW i \in 1 .. la + n PROVE s[i] = p[i]
      OBVIOUS
    <3> HIDE DEF s, p
    <3>1. CASE i <= la
      BY <1>1, <1>3, <1>5, <3>1
    <3>2. CASE ~(i <= la)
      <4>1. i - la \in 1 .. n /\ i - la \in 1 .. lb /\ i = la + (i - la)
        BY <1>1, <3>2
      <4>2. s[i] = b[i - la]
        BY <1>6, <4>1
      <4>3. p[i] = b[i - la]
        BY <1>4, <1>5, <3>2, <4>1
      <4> QED
        BY <4>2, <4>3
    <3> QED
      BY <3>1, <3>2
  <2> HIDE DEF s, p
  <2>2. \A i \in 1 .. la + n : s[i] \in Rows
    BY <1>1, <1>5, <2>1, ElementOfSeq
  <2>3. /\ SubSeq(s, 1, la + n) \in Seq(Rows) /\ Len(SubSeq(s, 1, la + n)) = la + n
        /\ \A i \in 1 .. la + n : SubSeq(s, 1, la + n)[i] = s[i]
    BY <1>1, <2>2, SubSeqProperties
  <2> QED
    BY <1>5, <2>1, <2>3, SeqEqual
<1>8. SubSeq(s, la + lb + 1, la + lb + lc) = c
  <2>1. \A i \in la + lb + 1 .. la + lb + lc : s[i] = c[i - (la + lb)]
    <3> SUFFICES ASSUME NEW i \in la + lb + 1 .. la + lb + lc PROVE s[i] = c[i - (la + lb)]
      OBVIOUS
    <3> HIDE DEF s
    <3>1. s[i] = (b \o c)[i - la]
      BY <1>1, <1>3
    <3>2. (b \o c)[i - la] = c[(i - la) - lb]
      BY <1>1, <1>2
    <3> QED
      BY <1>1, <3>1, <3>2
  <2> HIDE DEF s
  <2>2. \A i \in la + lb + 1 .. la + lb + lc : s[i] \in Rows
    BY <1>1, <2>1, ElementOfSeq
  <2>3. /\ SubSeq(s, la + lb + 1, la + lb + lc) \in Seq(Rows)
        /\ Len(SubSeq(s, la + lb + 1, la + lb + lc)) = lc
        /\ \A i \in 1 .. lc : SubSeq(s, la + lb + 1, la + lb + lc)[i] = s[la + lb + i]
    BY <1>1, <2>2, SubSeqProperties
  <2>4. \A i \in 1 .. lc : s[la + lb + i] = c[i]
    BY <1>1, <2>1
  <2> QED
    BY <2>3, <2>4, SeqEqual
<1> HIDE DEF s
<1>9. Queue!Without(s, la + n, la + lb) = p \o c
  <2>1. Len(s) = la + lb + lc
    BY <1>1, <1>3
  <2> HIDE DEF p, la, lb, lc
  <2>2. Queue!Without(s, la + n, la + lb) = SubSeq(s, 1, la + n) \o SubSeq(s, la + lb + 1, Len(s))
    BY DEF Queue!Without
  <2> QED
    BY <1>7, <1>8, <2>1, <2>2
<1> QED
  BY <1>1, <1>3, <1>6, <1>9 DEF s

\* t is s without a run that begins with the element of b after the first n.
CutFrom(s, t, b, n) ==
  \E i \in 0 .. Len(s) : \E j \in i .. Len(s) :
    /\ t = Queue!Without(s, i, j)
    /\ n < Len(b) => i < j /\ s[i + 1] = b[n + 1]

LEMMA CutOut ==
  ASSUME NEW a \in Seq(Rows), NEW b \in Seq(Rows), NEW c \in Seq(Rows), NEW n \in 0 .. Len(b)
  PROVE  CutFrom(a \o (b \o c), (a \o SubSeq(b, 1, n)) \o c, b, n)
<1>1. Len(a) \in Nat /\ Len(b) \in Nat /\ Len(c) \in Nat
  BY LenProperties
<1>2. /\ Len(a \o (b \o c)) = Len(a) + Len(b) + Len(c)
      /\ (a \o SubSeq(b, 1, n)) \o c = Queue!Without(a \o (b \o c), Len(a) + n, Len(a) + Len(b))
      /\ \A i \in 1 .. Len(b) : (a \o (b \o c))[Len(a) + i] = b[i]
  BY WithoutMiddle
<1>3. PICK i, j : i = Len(a) + n /\ j = Len(a) + Len(b)
  OBVIOUS
<1>4. /\ i \in 0 .. Len(a \o (b \o c)) /\ j \in i .. Len(a \o (b \o c))
      /\ n < Len(b) => i < j
  BY <1>1, <1>2, <1>3
<1>5. ASSUME n < Len(b) PROVE (a \o (b \o c))[i + 1] = b[n + 1]
  <2>1. n + 1 \in 1 .. Len(b) /\ i + 1 = Len(a) + (n + 1)
    BY <1>1, <1>3, <1>5
  <2> QED
    BY <1>2, <2>1
<1>6. (a \o SubSeq(b, 1, n)) \o c = Queue!Without(a \o (b \o c), i, j)
  BY <1>2, <1>3
<1> QED
  BY <1>4, <1>5, <1>6 DEF CutFrom

(***************************************************************************)
(* What a failed batch executes                                            *)
(***************************************************************************)
LEMMA LeastNatural ==
  ASSUME NEW T \in SUBSET Nat, T # {}
  PROVE  \E i \in T : \A j \in T : i <= j
<1> DEFINE R == OpToRel(<, Nat)
<1>1. PICK i \in T : \A j \in T : ~(<<j, i>> \in R)
  <2> HIDE DEF R
  <2>1. IsWellFoundedOn(R, Nat)
    BY NatLessThanWellFounded DEF R
  <2> QED
    BY <2>1, WFMin
<1>2. ASSUME NEW j \in T PROVE i <= j
  <2>1. ~(j < i)
    BY <1>1 DEF OpToRel
  <2> QED
    BY <2>1
<1> QED
  BY <1>2

LEMMA CleanPrefix ==
  ASSUME NEW S, NEW s \in Seq(S)
  PROVE  \E n \in 0 .. Len(s) :
           /\ Clean(s) = SubSeq(s, 1, n)
           /\ \A i \in 1 .. n : s[i] \notin Poison
           /\ Bad(s) # {} => n < Len(s) /\ s[n + 1] \in Poison
<1>1. Len(s) \in Nat /\ DOMAIN s = 1 .. Len(s)
  BY LenProperties
<1>2. CASE Bad(s) = {}
  <2>1. Clean(s) = SubSeq(s, 1, Len(s))
    BY <1>2, SubSeqFull DEF Clean
  <2>2. \A i \in 1 .. Len(s) : s[i] \notin Poison
    BY <1>1, <1>2 DEF Bad
  <2>3. Len(s) \in 0 .. Len(s)
    BY <1>1
  <2> QED
    BY <1>2, <2>1, <2>2, <2>3
<1>3. CASE Bad(s) # {}
  <2> DEFINE m == CHOOSE i \in Bad(s) : \A j \in Bad(s) : i <= j
  <2>1. Bad(s) \in SUBSET Nat
    BY <1>1 DEF Bad
  <2>2. m \in Bad(s) /\ \A j \in Bad(s) : m <= j
    BY <1>3, <2>1, LeastNatural
  <2>3. Clean(s) = SubSeq(s, 1, m - 1)
    BY <1>3 DEF Clean
  <2> HIDE DEF m
  <2>4. m \in 1 .. Len(s) /\ s[m] \in Poison
    BY <1>1, <2>2 DEF Bad
  <2>5. \A i \in 1 .. m - 1 : s[i] \notin Poison
    <3> SUFFICES ASSUME NEW i \in 1 .. m - 1, s[i] \in Poison PROVE FALSE
      OBVIOUS
    <3>1. i \in Bad(s)
      BY <1>1, <2>4 DEF Bad
    <3> QED
      BY <2>2, <2>4, <3>1
  <2>6. m - 1 \in 0 .. Len(s) /\ m - 1 < Len(s) /\ (m - 1) + 1 = m
    BY <1>1, <2>4
  <2> QED
    BY <2>3, <2>4, <2>5, <2>6
<1> QED
  BY <1>2, <1>3

\* Of each kind a first part without refused rows.
LEMMA ExecutedPrefix ==
  ASSUME NEW S, NEW q \in ByKind(S), NEW k \in Kinds
  PROVE  \E n \in 0 .. Len(q[k]) :
           Executed(q)[k] = SubSeq(q[k], 1, n) /\ \A i \in 1 .. n : q[k][i] \notin Poison
<1>1. Executed(q)[k] = Clean(q[k]) \/ Executed(q)[k] = <<>>
  BY DEF Executed, Kinds
<1>2. CASE Executed(q)[k] = Clean(q[k])
  BY <1>2, CleanPrefix DEF ByKind
<1>3. CASE Executed(q)[k] = <<>>
  <2>1. SubSeq(q[k], 1, 0) = <<>> /\ Len(q[k]) \in Nat
    BY SubSeqEmpty, LenProperties
  <2> QED
    BY <1>3, <2>1
<1> QED
  BY <1>1, <1>2, <1>3

LEMMA ExecutedType ==
  ASSUME NEW S, NEW q \in ByKind(S)
  PROVE  /\ Executed(q) \in ByKind(S)
         /\ In(Executed(q)) \subseteq In(q) \ Poison
<1>1. ASSUME NEW k \in Kinds
      PROVE  Executed(q)[k] \in Seq(S) /\ Elements(Executed(q)[k]) \subseteq Elements(q[k]) \ Poison
  <2>1. PICK n \in 0 .. Len(q[k]) :
           Executed(q)[k] = SubSeq(q[k], 1, n) /\ \A i \in 1 .. n : q[k][i] \notin Poison
    BY ExecutedPrefix
  <2>2. Len(q[k]) \in Nat /\ DOMAIN q[k] = 1 .. Len(q[k])
    BY LenProperties
  <2>3. \A i \in 1 .. n : q[k][i] \in S
    BY <2>2, ElementOfSeq DEF ByKind
  <2>4. /\ SubSeq(q[k], 1, n) \in Seq(S) /\ Len(SubSeq(q[k], 1, n)) = n
        /\ \A i \in 1 .. n : SubSeq(q[k], 1, n)[i] = q[k][i]
    BY <2>2, <2>3, SubSeqProperties
  <2>5. DOMAIN SubSeq(q[k], 1, n) = 1 .. n
    BY <2>4, LenProperties
  <2> QED
    BY <2>1, <2>2, <2>4, <2>5 DEF Elements
<1>2. Executed(q) \in ByKind(S)
  <2>1. Executed(q) = [k \in Kinds |-> Executed(q)[k]]
    BY DEF Executed
  <2> QED
    BY <1>1, <2>1 DEF ByKind
<1> QED
  BY <1>1, <1>2 DEF In

LEMMA NoneBad ==
  ASSUME NEW S, NEW q \in ByKind(S), In(q) \cap Poison = {}
  PROVE  Executed(q) = q
<1>1. \A k \in Kinds : Bad(q[k]) = {}
  BY DEF Bad, In, Elements
<1>2. \A k \in Kinds : Executed(q)[k] = q[k]
  BY <1>1 DEF Executed, Kinds, Clean
<1>3. Executed(q) = [k \in Kinds |-> Executed(q)[k]]
  BY DEF Executed
<1> QED
  BY <1>2, <1>3 DEF ByKind

\* The first kind that has a refused row is executed up to it.
LEMMA SomeBad ==
  ASSUME NEW S, NEW q \in ByKind(S), In(q) \cap Poison # {}
  PROVE  \E k \in Kinds : \E n \in 0 .. Len(q[k]) :
           n < Len(q[k]) /\ q[k][n + 1] \in Poison /\ Executed(q)[k] = SubSeq(q[k], 1, n)
<1>1. PICK k \in Kinds : Bad(q[k]) # {} /\ Executed(q)[k] = Clean(q[k])
  <2>1. \E k \in Kinds : Bad(q[k]) # {}
    BY DEF Bad, In, Elements
  <2>2. CASE Bad(q["log"]) # {}
    BY <2>2 DEF Executed, Kinds
  <2>3. CASE Bad(q["log"]) = {} /\ Bad(q["stats"]) # {}
    BY <2>3 DEF Executed, Kinds
  <2>4. CASE Bad(q["log"]) = {} /\ Bad(q["stats"]) = {}
    BY <2>1, <2>4 DEF Executed, Kinds
  <2> QED
    BY <2>2, <2>3, <2>4
<1>2. q[k] \in Seq(S)
  BY DEF ByKind
<1> QED
  BY <1>1, <1>2, CleanPrefix

(***************************************************************************)
(* Where the rows are                                                      *)
(***************************************************************************)
Types ==
  /\ TypeOK
  /\ pending \in ByKind(1 .. accepted) /\ batch \in ByKind(1 .. accepted)
  /\ tx \in ByKind(1 .. accepted) /\ stored \in ByKind(1 .. accepted)

LEMMA TypesAre == TypeOK <=> Types
BY DEF TypeOK, Types, ByKind

\* The rows 1 .. n that are neither stored nor discarded nor lost.
Owed(n) == ((lost + 1) .. n) \ (In(stored) \cup discarded)

\* What is stored or in the open transaction was executed, so it is not refused;
\* unless the transaction is about to be committed it is left from a batch that was.
Executable ==
  /\ In(stored) \cap Poison = {}
  /\ In(tx) \cap Poison = {}
  /\ pc # "commit" => In(tx) \subseteq discarded

\* No row goes astray.
Nothing == Owed(accepted) \subseteq In(pending) \cup In(batch) \cup In(tx)

\* The thread has the first n rows in hand, or is through with them.
Ahead(n) ==
  /\ pc = "write" => Owed(n) \subseteq In(batch)
  /\ pc = "commit" => Owed(n) \subseteq In(tx)
  /\ pc \in {"ack", "signal"} => Owed(n) = {}

\* Between two flushes none is asked for or answered, and the thread is ahead of
\* the last one.  One that was asked for and not answered will be answered by a
\* thread that is ahead of the one before.
Flushed ==
  ~gaveUp =>
    /\ loop \in {"idle", "console"} => ~flushWait /\ ~flushDone /\ pc # "signal" /\ Ahead(due)
    /\ loop = "flush" /\ flushWait => ~flushDone /\ pc # "signal" /\ Ahead(dueBefore)
    /\ loop = "flush" /\ ~flushWait =>
         /\ Owed(dueBefore) = {}
         /\ pc = "signal" \/ (flushDone /\ Ahead(due))
         /\ flushDone => pc # "signal" /\ Ahead(due)
    /\ loop = "clear" => ~flushWait /\ pc # "signal" /\ Owed(dueBefore) = {} /\ Ahead(due)

Good == Types /\ Executable /\ Nothing /\ Flushed

LEMMA InitGood == Init => Good
<1> SUFFICES ASSUME Init PROVE Good
  OBVIOUS
<1>1. pending = None /\ batch = None /\ tx = None /\ stored = None /\ In(None) = {}
  BY NoneType DEF Init
<1>2. None \in ByKind(1 .. accepted)
  BY NoneType
<1>3. TypeOK
  <2>1. \A q \in {pending, batch, tx, stored} : q \in ByKind(1 .. accepted)
    BY <1>1, <1>2
  <2>2. accepted \in 0 .. MaxRows /\ {due, dueBefore, lost} \subseteq 0 .. accepted /\ discarded = {}
    BY RowAssumption DEF Init
  <2>3. /\ pc = "take" /\ loop = "idle" /\ flushWait = FALSE /\ flushDone = FALSE
        /\ open = FALSE /\ gaveUp = FALSE
    BY DEF Init
  <2> QED
    BY <1>1, <2>1, <2>2, <2>3 DEF TypeOK, ByKind
<1>4. \A n \in {0} : Owed(n) = {}
  BY DEF Init, Owed
<1>5. Executable /\ Nothing /\ Flushed
  BY <1>1, <1>4 DEF Init, Executable, Nothing, Flushed, Ahead
<1> QED
  BY <1>3, <1>5, TypesAre DEF Good

\* A call of the loop that leaves the rows alone.
LEMMA LoopTypes ==
  ASSUME Good, UNCHANGED <<accepted, writer, lost, discarded>>,
         loop' \in {"idle", "console", "flush", "clear"},
         flushWait' \in BOOLEAN, flushDone' \in BOOLEAN, gaveUp' \in BOOLEAN,
         due' \in 0 .. accepted, dueBefore' \in 0 .. accepted
  PROVE  /\ Types' /\ Executable' /\ Nothing'
         /\ \A n \in Nat : Owed(n)' = Owed(n) /\ (Ahead(n)' <=> Ahead(n))
<1>1. Types
  BY DEF Good
<1>2. TypeOK'
  BY <1>1 DEF TypeOK, Types, writer
<1>3. \A n : Owed(n)' = Owed(n)
  BY DEF Owed, writer
<1>4. \A n : Ahead(n)' <=> Ahead(n)
  BY DEF Ahead, Owed, writer
<1>5. Executable' /\ Nothing'
  BY DEF Good, Executable, Nothing, Owed, writer
<1> QED
  BY <1>1, <1>2, <1>3, <1>4, <1>5 DEF Types, writer

LEMMA LoopGood ==
  ASSUME Good, ConsoleCalls \/ ConsoleWrites \/ ConsoleTimesOut
               \/ FlushCalled \/ FlushReturns \/ FlushTimesOut \/ FlushClears
  PROVE  Good'
<1>t. /\ accepted \in Nat /\ due \in 0 .. accepted /\ dueBefore \in 0 .. accepted
      /\ flushWait \in BOOLEAN /\ flushDone \in BOOLEAN /\ gaveUp \in BOOLEAN
  BY RowAssumption DEF Good, Types, TypeOK
<1>f. Flushed
  BY DEF Good
<1>1. CASE ConsoleCalls \/ ConsoleWrites \/ ConsoleTimesOut
  <2>1. /\ UNCHANGED <<accepted, writer, flags, history>>
        /\ loop \in {"idle", "console"} /\ loop' \in {"idle", "console"}
    BY <1>1 DEF ConsoleCalls, ConsoleWrites, ConsoleTimesOut
  <2>2. /\ Types' /\ Executable' /\ Nothing'
        /\ \A n \in Nat : Owed(n)' = Owed(n) /\ (Ahead(n)' <=> Ahead(n))
    BY <1>t, <2>1, LoopTypes DEF flags, history
  <2>3. Flushed'
    BY <1>t, <1>f, <2>1, <2>2 DEF Flushed, Ahead, Owed, flags, history, writer
  <2> QED
    BY <2>2, <2>3 DEF Good
<1>2. CASE FlushCalled
  <2>1. /\ UNCHANGED <<accepted, writer, flushDone, lost, discarded, gaveUp>>
        /\ loop = "idle" /\ loop' = "flush" /\ flushWait' = TRUE /\ dueBefore' = due /\ due' = accepted
    BY <1>2 DEF FlushCalled
  <2>2. /\ Types' /\ Executable' /\ Nothing'
        /\ \A n \in Nat : Owed(n)' = Owed(n) /\ (Ahead(n)' <=> Ahead(n))
    BY <1>t, <2>1, LoopTypes
  <2>3. Flushed'
    BY <1>t, <1>f, <2>1, <2>2 DEF Flushed, Ahead, Owed, writer
  <2> QED
    BY <2>2, <2>3 DEF Good
<1>3. CASE FlushReturns
  <2>1. /\ UNCHANGED <<accepted, writer, flags, history>>
        /\ loop = "flush" /\ flushDone /\ loop' = "clear"
    BY <1>3 DEF FlushReturns
  <2>2. /\ Types' /\ Executable' /\ Nothing'
        /\ \A n \in Nat : Owed(n)' = Owed(n) /\ (Ahead(n)' <=> Ahead(n))
    BY <1>t, <2>1, LoopTypes DEF flags, history
  <2>3. Flushed'
    BY <1>t, <1>f, <2>1, <2>2 DEF Flushed, Ahead, Owed, flags, history, writer
  <2> QED
    BY <2>2, <2>3 DEF Good
<1>4. CASE FlushTimesOut
  <2>1. /\ UNCHANGED <<accepted, writer, flags, due, dueBefore, lost, discarded>>
        /\ loop' = "clear" /\ gaveUp' = TRUE
    BY <1>4 DEF FlushTimesOut
  <2>2. Types' /\ Executable' /\ Nothing'
    BY <1>t, <2>1, LoopTypes DEF flags
  <2> QED
    BY <2>1, <2>2 DEF Good, Flushed
<1>5. CASE FlushClears
  <2>1. /\ UNCHANGED <<accepted, writer, flushWait, history>>
        /\ loop = "clear" /\ loop' = "idle" /\ flushDone' = FALSE
    BY <1>5 DEF FlushClears
  <2>2. /\ Types' /\ Executable' /\ Nothing'
        /\ \A n \in Nat : Owed(n)' = Owed(n) /\ (Ahead(n)' <=> Ahead(n))
    BY <1>t, <2>1, LoopTypes DEF history
  <2>3. Flushed'
    BY <1>t, <1>f, <2>1, <2>2 DEF Flushed, Ahead, Owed, history, writer
  <2> QED
    BY <2>2, <2>3 DEF Good
<1> QED
  BY <1>1, <1>2, <1>3, <1>4, <1>5

Put(q, k, x) == [q EXCEPT ![k] = Append(@, x)]

LEMMA Appended ==
  ASSUME NEW S, NEW q \in ByKind(S), NEW k \in Kinds, NEW x \in S
  PROVE  Put(q, k, x) \in ByKind(S) /\ In(Put(q, k, x)) = In(q) \cup {x}
<1> DEFINE r == Put(q, k, x)
<1>1. q[k] \in Seq(S) /\ Len(q[k]) \in Nat /\ DOMAIN q[k] = 1 .. Len(q[k])
  BY LenProperties DEF ByKind
<1>2. /\ Append(q[k], x) \in Seq(S) /\ Len(Append(q[k], x)) = Len(q[k]) + 1
      /\ \A i \in 1 .. Len(q[k]) : Append(q[k], x)[i] = q[k][i]
      /\ Append(q[k], x)[Len(q[k]) + 1] = x
  BY <1>1, AppendProperties
<1>3. DOMAIN Append(q[k], x) = 1 .. Len(q[k]) + 1
  BY <1>2, LenProperties
<1>4. Elements(Append(q[k], x)) = Elements(q[k]) \cup {x}
  <2> DEFINE a == Append(q[k], x)
             l == Len(q[k])
  <2>1. /\ DOMAIN a = 1 .. l + 1 /\ a[l + 1] = x /\ l \in Nat /\ DOMAIN q[k] = 1 .. l
        /\ \A i \in 1 .. l : a[i] = q[k][i]
    BY <1>1, <1>2, <1>3
  <2> HIDE DEF a, l
  <2>2. ASSUME NEW i \in DOMAIN a PROVE a[i] \in Elements(q[k]) \cup {x}
    <3>1. i = l + 1 \/ i \in 1 .. l
      BY <2>1
    <3> QED
      BY <2>1, <3>1 DEF Elements
  <2>3. ASSUME NEW i \in DOMAIN q[k] PROVE q[k][i] \in Elements(a)
    <3>1. i \in DOMAIN a /\ a[i] = q[k][i]
      BY <2>1
    <3> QED
      BY <3>1 DEF Elements
  <2>4. x \in Elements(a)
    <3>1. l + 1 \in DOMAIN a
      BY <2>1
    <3> QED
      BY <2>1, <3>1 DEF Elements
  <2> QED
    BY <2>2, <2>3, <2>4 DEF Elements, a
<1>5. r \in ByKind(S) /\ r[k] = Append(q[k], x) /\ \A j \in Kinds \ {k} : r[j] = q[j]
  BY <1>2 DEF ByKind, Put
<1> HIDE DEF r
<1>6. \A j \in Kinds : Elements(r[j]) = IF j = k THEN Elements(q[k]) \cup {x} ELSE Elements(q[j])
  BY <1>4, <1>5
<1>7. In(r) = In(q) \cup {x}
  BY <1>6 DEF In
<1> QED
  BY <1>5, <1>7 DEF r

LEMMA EnqueueGood ==
  ASSUME Good, NEW k \in Kinds, Enqueue(k)
  PROVE  Good'
<1>1. /\ accepted \in Nat /\ {due, dueBefore, lost} \subseteq 0 .. accepted
      /\ accepted' = accepted + 1 /\ accepted' \in 0 .. MaxRows
  BY RowAssumption DEF Good, Types, TypeOK, Enqueue
<1>2. /\ pending' = [pending EXCEPT ![k] = Append(@, accepted + 1)]
      /\ UNCHANGED <<batch, open, tx, stored, pc, loop, flags, history>>
  BY DEF Enqueue
<1>3. \A q : q \in ByKind(1 .. accepted) => q \in ByKind(1 .. accepted')
  <2>1. 1 .. accepted \subseteq 1 .. accepted'
    BY <1>1
  <2> QED
    BY <2>1, KindsMonotonic
<1>4. pending' \in ByKind(1 .. accepted') /\ In(pending') = In(pending) \cup {accepted + 1}
  <2>1. PICK x, S : x = accepted + 1 /\ S = 1 .. accepted'
    OBVIOUS
  <2>2. pending \in ByKind(S) /\ x \in S
    BY <1>1, <1>3, <2>1 DEF Good, Types
  <2>3. pending' = Put(pending, k, x)
    BY <1>2, <2>1 DEF Put
  <2>4. Put(pending, k, x) \in ByKind(S) /\ In(Put(pending, k, x)) = In(pending) \cup {x}
    BY <2>2, Appended
  <2> QED
    BY <2>1, <2>3, <2>4
<1>5. /\ batch' \in ByKind(1 .. accepted') /\ tx' \in ByKind(1 .. accepted')
      /\ stored' \in ByKind(1 .. accepted')
  BY <1>2, <1>3 DEF Good, Types
<1>6. TypeOK'
  <2>1. \A q \in {pending', batch', tx', stored'} : q \in ByKind(1 .. accepted')
    BY <1>4, <1>5
  <2>2. {due', dueBefore', lost'} \subseteq 0 .. accepted' /\ discarded' \subseteq 1 .. accepted'
    BY <1>1, <1>2 DEF Good, Types, TypeOK, history
  <2> QED
    BY <1>1, <1>2, <2>1, <2>2 DEF Good, Types, TypeOK, flags, history, ByKind
<1>7. \A n : Owed(n)' = Owed(n)
  BY <1>2 DEF Owed, history
<1>8. \A n : Ahead(n)' <=> Ahead(n)
  BY <1>2, <1>7 DEF Ahead
<1>9. Executable'
  BY <1>2 DEF Good, Executable, history
<1>10. Nothing'
  <2>1. Owed(accepted)' \subseteq Owed(accepted) \cup {accepted + 1}
    BY <1>1, <1>2 DEF Owed, history
  <2>2. In(batch)' = In(batch) /\ In(tx)' = In(tx)
    BY <1>2
  <2> QED
    BY <1>4, <2>1, <2>2 DEF Good, Nothing
<1>11. Flushed'
  BY <1>2, <1>7, <1>8 DEF Good, Flushed, flags, history
<1> QED
  BY <1>4, <1>5, <1>6, <1>9, <1>10, <1>11 DEF Good, Types


\* A step of the thread that does not answer a flush.
LEMMA ThreadFlushed ==
  ASSUME Good, UNCHANGED <<accepted, loop, flags, due, dueBefore, lost, gaveUp>>,
         pc # "signal", pc' # "signal",
         \A n \in 0 .. accepted : Owed(n)' \subseteq Owed(n),
         \A n \in 0 .. accepted : Ahead(n) => Ahead(n)'
  PROVE  Flushed'
<1>1. due \in 0 .. accepted /\ dueBefore \in 0 .. accepted
  BY DEF Good, Types, TypeOK
<1>2. /\ Owed(dueBefore)' \subseteq Owed(dueBefore)
      /\ Ahead(due) => Ahead(due)'
      /\ Ahead(dueBefore) => Ahead(dueBefore)'
  BY <1>1
<1>3. /\ due' = due /\ dueBefore' = dueBefore /\ loop' = loop /\ gaveUp' = gaveUp
      /\ flushWait' = flushWait /\ flushDone' = flushDone
  BY DEF flags
<1>4. (Owed(dueBefore))' \subseteq Owed(dueBefore) /\ (Ahead(due) => (Ahead(due))')
      /\ (Ahead(dueBefore) => (Ahead(dueBefore))')
  BY <1>2, <1>3 DEF Owed, Ahead
<1> QED
  BY <1>3, <1>4 DEF Good, Flushed

\* Everything the thread owes is queued when it comes for more.
LEMMA TakeGood == ASSUME Good, Take PROVE Good'
<1>1. /\ accepted \in Nat /\ pc = "take" /\ batch = None /\ In(batch) = {} /\ In(tx) \subseteq discarded
  BY RowAssumption, NoneType DEF Good, Types, TypeOK, Take, Executable
<1>2. UNCHANGED <<accepted, open, tx, stored, loop, flags, history>>
  BY DEF Take
<1>3. \A n \in 0 .. accepted : Owed(n) \subseteq In(pending)
  <2>1. Owed(accepted) \subseteq In(pending)
    BY <1>1 DEF Good, Nothing, Owed
  <2>2. \A n \in 0 .. accepted : Owed(n) \subseteq Owed(accepted)
    BY <1>1 DEF Owed, Good, Types, TypeOK
  <2> QED
    BY <2>1, <2>2
<1>4. \A n : Owed(n)' = Owed(n)
  BY <1>2 DEF Owed, history
<1>5. CASE pending = None
  <2>1. pc' = "ack" /\ UNCHANGED <<pending, batch>> /\ In(pending) = {}
    BY <1>5, NoneType DEF Take
  <2>2. Types'
    BY <1>1, <1>2, <2>1 DEF Good, Types, TypeOK, flags, history
  <2>3. \A n \in 0 .. accepted : Ahead(n)'
    BY <1>3, <1>4, <2>1 DEF Ahead
  <2>4. Executable' /\ Nothing'
    BY <1>1, <1>2, <1>4, <2>1 DEF Good, Executable, Nothing, Owed, history
  <2>5. Flushed'
    BY <1>1, <1>2, <1>4, <2>1, <2>3, ThreadFlushed DEF history
  <2> QED
    BY <2>2, <2>4, <2>5 DEF Good
<1>6. CASE pending # None
  <2>1. pc' = "write" /\ batch' = pending /\ pending' = None
    BY <1>6 DEF Take
  <2>2. Types'
    <3>1. None \in ByKind(1 .. accepted)
      BY NoneType
    <3>2. \A q \in {pending', batch', tx', stored'} : q \in ByKind(1 .. accepted)
      BY <1>2, <2>1, <3>1 DEF Good, Types
    <3>3. TypeOK'
      BY <1>1, <1>2, <1>6, <2>1, <3>2 DEF Good, Types, TypeOK, flags, history
    <3> QED
      BY <1>2, <3>2, <3>3 DEF Types
  <2>3. \A n \in 0 .. accepted : Ahead(n)'
    BY <1>3, <1>4, <2>1 DEF Ahead
  <2>4. Executable'
    BY <1>1, <1>2, <2>1 DEF Good, Executable, history
  <2>5. Nothing'
    <3>1. (Owed(accepted))' = Owed(accepted) /\ In(batch') = In(pending)
      BY <1>2, <2>1 DEF Owed, history
    <3> QED
      BY <1>1, <1>3, <3>1 DEF Nothing
  <2>6. Flushed'
    BY <1>1, <1>2, <1>4, <2>1, <2>3, ThreadFlushed DEF history
  <2> QED
    BY <2>2, <2>4, <2>5, <2>6 DEF Good
<1> QED
  BY <1>5, <1>6

\* A batch goes into the transaction, or is discarded with what it left there.
LEMMA WriteGood == ASSUME Good, Write PROVE Good'
<1>1. /\ accepted \in Nat /\ pc = "write" /\ In(tx) \subseteq discarded /\ In(tx) \cap Poison = {}
      /\ batch \in ByKind(1 .. accepted) /\ tx \in ByKind(1 .. accepted)
  BY RowAssumption DEF Good, Types, TypeOK, Write, Executable
<1>2. /\ open' = TRUE /\ tx' = Joined(tx, Executed(batch)) /\ batch' = None
      /\ UNCHANGED <<accepted, pending, stored, loop, flags, due, dueBefore, lost, gaveUp>>
  BY DEF Write
<1>3. /\ tx' \in ByKind(1 .. accepted) /\ In(tx') = In(tx) \cup In(Executed(batch))
      /\ In(Executed(batch)) \subseteq In(batch) \ Poison
  <2>1. Executed(batch) \in ByKind(1 .. accepted) /\ In(Executed(batch)) \subseteq In(batch) \ Poison
    BY <1>1, ExecutedType
  <2>2. /\ Joined(tx, Executed(batch)) \in ByKind(1 .. accepted)
        /\ In(Joined(tx, Executed(batch))) = In(tx) \cup In(Executed(batch))
    BY <1>1, <2>1, JoinedType
  <2> QED
    BY <1>2, <2>1, <2>2
<1>4. /\ batch' \in ByKind(1 .. accepted) /\ pending' \in ByKind(1 .. accepted)
      /\ stored' \in ByKind(1 .. accepted) /\ In(batch') = {} /\ In(stored') = In(stored)
  BY <1>2, NoneType DEF Good, Types
<1>5. In(batch) \subseteq 1 .. accepted
  BY <1>1, InType
<1>6. CASE In(batch) \cap Poison = {}
  <2>1. pc' = "commit" /\ UNCHANGED discarded
    BY <1>6 DEF Write
  <2>2. In(tx') = In(tx) \cup In(batch)
    <3>1. Executed(batch) = batch
      BY <1>1, <1>6, NoneBad
    <3> QED
      BY <1>3, <3>1
  <2>3. Types'
    <3>1. \A q \in {pending', batch', tx', stored'} : q \in ByKind(1 .. accepted)
      BY <1>3, <1>4
    <3>2. TypeOK'
      BY <1>2, <2>1, <3>1 DEF Good, Types, TypeOK, flags, ByKind
    <3> QED
      BY <1>2, <1>3, <1>4, <3>2 DEF Types
  <2>4. \A n : Owed(n)' = Owed(n)
    BY <1>2, <2>1 DEF Owed
  <2>5. \A n \in 0 .. accepted : Ahead(n) => Ahead(n)'
    BY <1>1, <2>1, <2>2, <2>4 DEF Ahead
  <2>6. Executable'
    BY <1>1, <1>3, <1>4, <2>1 DEF Good, Executable
  <2>7. Nothing'
    <3>1. (Owed(accepted))' = Owed(accepted) /\ In(pending') = In(pending)
      BY <1>2, <2>1 DEF Owed
    <3> QED
      BY <1>4, <2>2, <3>1 DEF Good, Nothing
  <2>8. Flushed'
    BY <1>1, <1>2, <2>1, <2>4, <2>5, ThreadFlushed
  <2> QED
    BY <2>3, <2>6, <2>7, <2>8 DEF Good
<1>7. CASE In(batch) \cap Poison # {}
  <2>1. pc' = "ack" /\ discarded' = discarded \cup In(batch)
    BY <1>7 DEF Write
  <2>2. Types'
    <3>1. \A q \in {pending', batch', tx', stored'} : q \in ByKind(1 .. accepted)
      BY <1>3, <1>4
    <3>2. TypeOK'
      BY <1>2, <1>5, <2>1, <3>1 DEF Good, Types, TypeOK, flags, ByKind
    <3> QED
      BY <1>2, <1>3, <1>4, <3>2 DEF Types
  <2>3. \A n : Owed(n)' = Owed(n) \ In(batch)
    BY <1>2, <2>1 DEF Owed
  <2>4. \A n \in 0 .. accepted : Ahead(n) => Ahead(n)'
    BY <1>1, <2>1, <2>3 DEF Ahead
  <2>5. Executable'
    BY <1>1, <1>3, <1>4, <2>1 DEF Good, Executable
  <2>6. Nothing'
    <3>1. (Owed(accepted))' = Owed(accepted) \ In(batch) /\ In(pending') = In(pending)
      BY <1>2, <2>1 DEF Owed
    <3> QED
      BY <1>3, <3>1 DEF Good, Nothing
  <2>7. Flushed'
    BY <1>1, <1>2, <2>1, <2>3, <2>4, ThreadFlushed
  <2> QED
    BY <2>2, <2>5, <2>6, <2>7 DEF Good
<1> QED
  BY <1>6, <1>7

LEMMA CommitGood == ASSUME Good, Commit PROVE Good'
<1>1. /\ accepted \in Nat /\ pc = "commit" /\ batch = None
      /\ stored \in ByKind(1 .. accepted) /\ tx \in ByKind(1 .. accepted)
  BY RowAssumption DEF Good, Types, TypeOK, Commit
<1>2. /\ stored' = Joined(stored, tx) /\ tx' = None /\ open' = FALSE /\ pc' = "ack"
      /\ UNCHANGED <<accepted, pending, batch, loop, flags, history>>
  BY DEF Commit
<1>3. stored' \in ByKind(1 .. accepted) /\ In(stored') = In(stored) \cup In(tx)
  <2>1. /\ Joined(stored, tx) \in ByKind(1 .. accepted)
        /\ In(Joined(stored, tx)) = In(stored) \cup In(tx)
    BY <1>1, JoinedType
  <2> QED
    BY <1>2, <2>1
<1>4. tx' \in ByKind(1 .. accepted) /\ In(tx') = {}
  BY <1>2, NoneType
<1>5. Types'
  <2>1. \A q \in {pending', batch', tx', stored'} : q \in ByKind(1 .. accepted)
    BY <1>2, <1>3, <1>4 DEF Good, Types
  <2>2. TypeOK'
    BY <1>1, <1>2, <2>1 DEF Good, Types, TypeOK, flags, history, ByKind
  <2> QED
    BY <1>2, <2>1, <2>2 DEF Types
<1>6. \A n : Owed(n)' = Owed(n) \ In(tx)
  BY <1>2, <1>3 DEF Owed, history
<1>7. \A n \in 0 .. accepted : Ahead(n) => Ahead(n)'
  BY <1>1, <1>2, <1>6 DEF Ahead
<1>8. Executable'
  BY <1>3, <1>4 DEF Good, Executable
<1>9. Nothing'
  <2>1. (Owed(accepted))' = Owed(accepted) \ In(tx) /\ In(pending') = In(pending) /\ In(batch') = In(batch)
    BY <1>2, <1>3 DEF Owed, history
  <2> QED
    BY <2>1 DEF Good, Nothing
<1>10. Flushed'
  BY <1>1, <1>2, <1>6, <1>7, ThreadFlushed DEF history
<1> QED
  BY <1>5, <1>8, <1>9, <1>10 DEF Good


\* A waiting flush is answered after the batch that was in hand when it began.
LEMMA AnswerGood == ASSUME Good, Acknowledge \/ Signal PROVE Good'
<1>1. /\ pc \in {"ack", "signal"} /\ pc' \in {"take", "signal"} /\ pc # "write"
      /\ flushWait' \in BOOLEAN /\ flushDone' \in BOOLEAN
      /\ UNCHANGED <<accepted, pending, batch, open, tx, stored, loop, history>>
  BY DEF Good, Types, TypeOK, Acknowledge, Signal
<1>2. Types'
  BY <1>1 DEF Good, Types, TypeOK, history
<1>3. \A n : Owed(n)' = Owed(n)
  BY <1>1 DEF Owed, history
<1>4. Executable' /\ Nothing'
  BY <1>1, <1>3 DEF Good, Executable, Nothing, Owed, history
<1>5. Flushed'
  <2>1. (Owed(dueBefore))' = Owed(dueBefore)
    BY <1>1 DEF Owed, history
  <2>2. loop' = loop /\ gaveUp' = gaveUp /\ due' = due /\ dueBefore' = dueBefore
    BY <1>1 DEF history
  <2>3. loop \in {"idle", "console", "flush", "clear"}
    BY DEF Good, Types, TypeOK
  <2>4. ASSUME pc' = "take" PROVE (Ahead(due))' /\ (Ahead(dueBefore))'
    BY <2>4 DEF Ahead
  <2>5. CASE Acknowledge
    <3>1. /\ pc = "ack" /\ pc' = (IF flushWait THEN "signal" ELSE "take")
          /\ flushWait' = FALSE /\ flushDone' = flushDone
      BY <2>5 DEF Acknowledge
    <3>2. Ahead(dueBefore) => Owed(dueBefore) = {}
      BY <3>1 DEF Ahead
    <3> QED
      BY <2>1, <2>2, <2>3, <2>4, <3>1, <3>2 DEF Good, Flushed
  <2>6. CASE Signal
    <3>1. pc = "signal" /\ pc' = "take" /\ flushDone' = TRUE /\ flushWait' = flushWait
      BY <2>6 DEF Signal
    <3> QED
      BY <2>1, <2>2, <2>3, <2>4, <3>1 DEF Good, Flushed
  <2> QED
    BY <2>5, <2>6
<1> QED
  BY <1>2, <1>4, <1>5 DEF Good

LEMMA CrashGood == ASSUME Good, Crash PROVE Good'
<1>1. /\ accepted \in Nat /\ pending' = None /\ batch' = None /\ tx' = None /\ In(None) = {}
      /\ open' = FALSE /\ pc' = "take" /\ loop' = "idle" /\ flushWait' = FALSE /\ flushDone' = FALSE
      /\ due' = 0 /\ dueBefore' = 0 /\ lost' = accepted /\ gaveUp' = FALSE
      /\ UNCHANGED <<accepted, stored, discarded>>
  BY RowAssumption, NoneType DEF Good, Types, TypeOK, Crash
<1>2. \A q \in {pending', batch', tx', stored'} : q \in ByKind(1 .. accepted)
  BY <1>1, NoneType DEF Good, Types
<1>3. TypeOK'
  <2>1. /\ accepted' \in 0 .. MaxRows /\ {due', dueBefore', lost'} \subseteq 0 .. accepted'
        /\ discarded' \subseteq 1 .. accepted'
    BY <1>1 DEF Good, Types, TypeOK
  <2>2. \A q \in {pending', batch', tx', stored'} : q \in [Kinds -> Seq(1 .. accepted')]
    BY <1>1, <1>2 DEF ByKind
  <2> QED
    BY <1>1, <2>1, <2>2 DEF TypeOK
<1>4. (Owed(accepted))' = {} /\ (Owed(due))' = {}
  BY <1>1 DEF Owed
<1>5. Executable' /\ Nothing' /\ Flushed'
  BY <1>1, <1>4 DEF Good, Executable, Nothing, Flushed, Ahead
<1> QED
  BY <1>1, <1>2, <1>3, <1>5 DEF Good, Types

LEMMA GoodStep == Good /\ [Next]_vars => Good'
<1> SUFFICES ASSUME Good, [Next]_vars PROVE Good'
  OBVIOUS
<1>1. CASE \E k \in Kinds : Enqueue(k)
  BY <1>1, EnqueueGood
<1>2. CASE ConsoleCalls \/ ConsoleWrites \/ ConsoleTimesOut
           \/ FlushCalled \/ FlushReturns \/ FlushTimesOut \/ FlushClears
  BY <1>2, LoopGood
<1>3. CASE Thread
  BY <1>3, TakeGood, WriteGood, CommitGood, AnswerGood DEF Thread
<1>4. CASE Crash
  BY <1>4, CrashGood
<1>5. CASE UNCHANGED vars
  BY <1>5 DEF vars, writer, flags, history, Good, Types, TypeOK, Executable, Nothing, Owed, Flushed, Ahead
<1> QED
  BY <1>1, <1>2, <1>3, <1>4, <1>5 DEF Next

LEMMA AlwaysGood == Spec => []Good
BY InitGood, GoodStep, PTL DEF Spec

\* The queue, the batch and the transaction hold accepted rows only, and the
\* thread carries a batch exactly while it writes one.
THEOREM WriterTypeCorrect == Spec => []TypeOK
<1>1. Good => TypeOK
  BY DEF Good, Types
<1> QED
  BY <1>1, AlwaysGood, PTL

\* When a second flush returns, what was accepted before the first is stored or
\* was discarded with a refused row.
THEOREM SecondFlushIsEnough == Spec => []SecondFlushStores
<1>1. Good => SecondFlushStores
  BY DEF Good, Flushed, Owed, SecondFlushStores
<1> QED
  BY <1>1, AlwaysGood, PTL

(***************************************************************************)
(* The durable queue                                                       *)
(***************************************************************************)
LEMMA JoinedAssociative ==
  ASSUME NEW S, NEW a \in ByKind(S), NEW b \in ByKind(S), NEW c \in ByKind(S)
  PROVE  Joined(Joined(a, b), c) = Joined(a, Joined(b, c))
<1>1. \A k \in Kinds : (a[k] \o b[k]) \o c[k] = a[k] \o (b[k] \o c[k])
  BY ConcatAssociative DEF ByKind
<1> QED
  BY <1>1 DEF Joined

LEMMA JoinedPut ==
  ASSUME NEW S, NEW a \in ByKind(S), NEW b \in ByKind(S), NEW k \in Kinds, NEW x \in S
  PROVE  Joined(a, Put(b, k, x)) = Put(Joined(a, b), k, x)
<1>1. \A s \in Seq(S) : \A t \in Seq(S) : s \o Append(t, x) = Append(s \o t, x)
  <2> SUFFICES ASSUME NEW s \in Seq(S), NEW t \in Seq(S) PROVE s \o Append(t, x) = Append(s \o t, x)
    OBVIOUS
  <2>1. <<x>> \in Seq(S) /\ s \o t \in Seq(S)
    BY ConcatProperties
  <2>2. Append(t, x) = t \o <<x>> /\ Append(s \o t, x) = (s \o t) \o <<x>>
    BY <2>1, AppendIsConcat
  <2> QED
    BY <2>1, <2>2, ConcatAssociative
<1>2. a[k] \in Seq(S) /\ b[k] \in Seq(S)
  BY DEF ByKind
<1>3. a[k] \o Append(b[k], x) = Append(a[k] \o b[k], x)
  BY <1>1, <1>2
<1>4. \A j \in Kinds : Joined(a, Put(b, k, x))[j] = Put(Joined(a, b), k, x)[j]
  BY <1>3 DEF Joined, Put, ByKind
<1> QED
  BY <1>4 DEF Joined, Put, ByKind

LEMMA Widened ==
  ASSUME Good
  PROVE  /\ pending \in ByKind(Rows) /\ batch \in ByKind(Rows) /\ tx \in ByKind(Rows)
         /\ stored \in ByKind(Rows) /\ None \in ByKind(Rows)
         /\ Unstored \in ByKind(Rows) /\ Joined(batch, pending) \in ByKind(Rows)
<1>1. 1 .. accepted \subseteq Rows
  BY RowAssumption DEF Good, Types, TypeOK, Rows
<1>2. /\ pending \in ByKind(Rows) /\ batch \in ByKind(Rows) /\ tx \in ByKind(Rows)
      /\ stored \in ByKind(Rows) /\ None \in ByKind(Rows)
  BY <1>1, KindsMonotonic, NoneType DEF Good, Types
<1>3. Joined(batch, pending) \in ByKind(Rows)
  BY <1>2, JoinedType
<1> QED
  BY <1>2, <1>3, JoinedType DEF Unstored

LEMMA InitMaps == Init => Queue!Init
<1> SUFFICES ASSUME Init PROVE Queue!Init
  OBVIOUS
<1>1. Joined(None, Joined(None, None)) = None
  BY NoneType
<1>2. Queue!None = None
  BY DEF Queue!None, None
<1> QED
  BY <1>1, <1>2 DEF Init, Unstored, Queue!Init

LEMMA EnqueueMaps ==
  ASSUME Good, NEW k \in Kinds, Enqueue(k)
  PROVE  Queue!Accept(k, accepted + 1) /\ accepted + 1 \in Rows
<1>1. PICK x : x = accepted + 1
  OBVIOUS
<1>2. x \in Rows /\ pending' = Put(pending, k, x) /\ UNCHANGED <<batch, tx, stored>>
  BY <1>1, RowAssumption DEF Good, Types, TypeOK, Enqueue, Rows, Put
<1>3. /\ pending \in ByKind(Rows) /\ batch \in ByKind(Rows) /\ tx \in ByKind(Rows)
      /\ Joined(batch, pending) \in ByKind(Rows)
  BY Widened
<1>4. Joined(batch, Put(pending, k, x)) = Put(Joined(batch, pending), k, x)
  BY <1>2, <1>3, JoinedPut
<1>5. Joined(tx, Put(Joined(batch, pending), k, x)) = Put(Joined(tx, Joined(batch, pending)), k, x)
  BY <1>2, <1>3, JoinedPut
<1>6. Unstored' = Put(Unstored, k, x)
  BY <1>2, <1>4, <1>5 DEF Unstored
<1> QED
  BY <1>1, <1>2, <1>6 DEF Queue!Accept, Put

\* Rows that only change hands inside the thread still wait, in the same order.
LEMMA HandedOn ==
  ASSUME Good, Take \/ (Write /\ In(batch) \cap Poison = {})
  PROVE  UNCHANGED Queue!vars
<1>1. /\ pending \in ByKind(Rows) /\ batch \in ByKind(Rows) /\ tx \in ByKind(Rows)
      /\ None \in ByKind(Rows)
  BY Widened
<1>2. CASE Take /\ pending = None
  BY <1>2 DEF Take, Unstored, Queue!vars
<1>3. CASE Take /\ pending # None
  <2>1. batch = None /\ batch' = pending /\ pending' = None /\ tx' = tx /\ stored' = stored
    BY <1>3 DEF Take, Good, Types, TypeOK
  <2>2. Joined(None, pending) = pending /\ Joined(pending, None) = pending
    BY <1>1, NoneType
  <2> QED
    BY <2>1, <2>2 DEF Unstored, Queue!vars
<1>4. CASE Write /\ In(batch) \cap Poison = {}
  <2>1. tx' = Joined(tx, Executed(batch)) /\ batch' = None /\ pending' = pending /\ stored' = stored
    BY <1>4 DEF Write
  <2>2. Executed(batch) = batch
    BY <1>1, <1>4, NoneBad
  <2>3. Joined(None, pending) = pending
    BY <1>1, NoneType
  <2>4. Joined(Joined(tx, batch), pending) = Joined(tx, Joined(batch, pending))
    BY <1>1, JoinedAssociative
  <2> QED
    BY <2>1, <2>2, <2>3, <2>4 DEF Unstored, Queue!vars
<1> QED
  BY <1>2, <1>3, <1>4

LEMMA CommitMaps == ASSUME Good, Good', Commit PROVE Queue!Store
<1>1. /\ pending \in ByKind(Rows) /\ tx \in ByKind(Rows) /\ stored \in ByKind(Rows)
      /\ Joined(stored, tx) \in ByKind(Rows)
  BY Widened, JoinedType
<1>2. batch = None /\ batch' = None /\ tx' = None /\ pending' = pending /\ stored' = Joined(stored, tx)
  BY DEF Good, Types, TypeOK, Commit
<1>3. Joined(None, pending) = pending
  BY <1>1, NoneType
<1>4. Unstored = Joined(tx, pending) /\ Unstored' = pending
  BY <1>2, <1>3 DEF Unstored
<1>5. stored' \in [Kinds -> Seq(Rows)] /\ Unstored' \in [Kinds -> Seq(Rows)]
  BY <1>1, <1>2, <1>4 DEF ByKind
<1>6. ASSUME NEW k \in Kinds
      PROVE  /\ stored'[k] \o pending[k] = stored[k] \o (tx[k] \o pending[k])
             /\ Len(stored'[k]) >= Len(stored[k])
             /\ Elements(stored'[k]) \cap Poison = {}
  <2>1. stored[k] \in Seq(Rows) /\ tx[k] \in Seq(Rows) /\ pending[k] \in Seq(Rows)
    BY <1>1 DEF ByKind
  <2>2. stored'[k] = stored[k] \o tx[k]
    BY <1>2 DEF Joined
  <2>3. (stored[k] \o tx[k]) \o pending[k] = stored[k] \o (tx[k] \o pending[k])
    <3>1. \A s, t, u \in Seq(Rows) : (s \o t) \o u = s \o (t \o u)
      BY ConcatAssociative
    <3> QED
      BY <2>1, <3>1
  <2>4. \A s, t \in Seq(Rows) : Len(s \o t) >= Len(s)
    <3> SUFFICES ASSUME NEW s \in Seq(Rows), NEW t \in Seq(Rows) PROVE Len(s \o t) >= Len(s)
      OBVIOUS
    <3>1. Len(s) \in Nat /\ Len(t) \in Nat /\ Len(s \o t) = Len(s) + Len(t)
      BY ConcatProperties, LenProperties
    <3> QED
      BY <3>1
  <2>5. In(stored') \cap Poison = {}
    BY DEF Good, Executable
  <2>6. Elements(stored'[k]) \subseteq In(stored')
    BY DEF In
  <2>7. Len(stored[k] \o tx[k]) >= Len(stored[k])
    BY <2>1, <2>4
  <2>8. Elements(stored'[k]) \cap Poison = {}
    BY <2>5, <2>6
  <2> QED
    BY <2>2, <2>3, <2>7, <2>8
<1>7. ASSUME NEW k \in Kinds PROVE Unstored[k] = tx[k] \o pending[k] /\ (Unstored')[k] = pending[k]
  BY <1>4 DEF Joined
<1> QED
  BY <1>5, <1>6, <1>7 DEF Queue!Store, Queue!Elements, Elements

LEMMA CrashMaps == Crash => Queue!Lose
<1> SUFFICES ASSUME Crash PROVE Queue!Lose
  OBVIOUS
<1>1. pending' = None /\ batch' = None /\ tx' = None /\ stored' = stored
  BY DEF Crash
<1>2. Joined(None, Joined(None, None)) = None /\ Queue!None = None
  BY NoneType DEF Queue!None, None
<1>3. Unstored' = None
  BY <1>1, <1>2 DEF Unstored
<1> QED
  BY <1>1, <1>2, <1>3 DEF Queue!Lose

\* A failed batch is dropped from its refused row on.
LEMMA FailureMaps == ASSUME Good, Good', Write, In(batch) \cap Poison # {} PROVE Queue!Drop
<1>1. /\ pending \in ByKind(Rows) /\ batch \in ByKind(Rows) /\ tx \in ByKind(Rows)
  BY Widened
<1>2. tx' = Joined(tx, Executed(batch)) /\ batch' = None /\ pending' = pending /\ stored' = stored
  BY DEF Write
<1>3. Joined(None, pending) = pending
  BY <1>1, NoneType
<1>4. Unstored' = Joined(Joined(tx, Executed(batch)), pending)
  BY <1>2, <1>3 DEF Unstored
<1>5. Unstored' \in ByKind(Rows)
  <2>1. Executed(batch) \in ByKind(Rows)
    BY <1>1, ExecutedType
  <2>2. Joined(tx, Executed(batch)) \in ByKind(Rows)
    BY <1>1, <2>1, JoinedType
  <2> QED
    BY <1>1, <1>4, <2>2, JoinedType
<1>6. ASSUME NEW k \in Kinds
      PROVE  /\ Unstored[k] = tx[k] \o (batch[k] \o pending[k])
             /\ (Unstored')[k] = (tx[k] \o Executed(batch)[k]) \o pending[k]
             /\ tx[k] \in Seq(Rows) /\ batch[k] \in Seq(Rows) /\ pending[k] \in Seq(Rows)
  BY <1>1, <1>4 DEF Joined, Unstored, ByKind
<1>7. ASSUME NEW k \in Kinds, NEW n \in 0 .. Len(batch[k]), Executed(batch)[k] = SubSeq(batch[k], 1, n)
      PROVE  CutFrom(Unstored[k], (Unstored')[k], batch[k], n)
  <2> DEFINE a == tx[k]
             b == batch[k]
             c == pending[k]
  <2>1. a \in Seq(Rows) /\ b \in Seq(Rows) /\ c \in Seq(Rows) /\ n \in 0 .. Len(b)
    BY <1>6
  <2> HIDE DEF a, b, c
  <2>2. CutFrom(a \o (b \o c), (a \o SubSeq(b, 1, n)) \o c, b, n)
    BY <2>1, CutOut
  <2>3. Unstored[k] = a \o (b \o c) /\ (Unstored')[k] = (a \o SubSeq(b, 1, n)) \o c /\ batch[k] = b
    BY <1>6, <1>7 DEF a, b, c
  <2> QED
    BY <2>2, <2>3
<1>8. ASSUME NEW k \in Kinds
      PROVE  \E i \in 0 .. Len(Unstored[k]) : \E j \in i .. Len(Unstored[k]) :
               (Unstored')[k] = Queue!Without(Unstored[k], i, j)
  <2>1. PICK n \in 0 .. Len(batch[k]) : Executed(batch)[k] = SubSeq(batch[k], 1, n)
    BY <1>1, ExecutedPrefix
  <2>2. CutFrom(Unstored[k], (Unstored')[k], batch[k], n)
    BY <1>7, <2>1
  <2> QED
    BY <2>2 DEF CutFrom
<1>9. \E k \in Kinds : \E i \in 0 .. Len(Unstored[k]) : \E j \in i + 1 .. Len(Unstored[k]) :
        /\ (Unstored')[k] = Queue!Without(Unstored[k], i, j)
        /\ \E n \in i + 1 .. j : Unstored[k][n] \in Poison
  <2>1. PICK k \in Kinds : \E n \in 0 .. Len(batch[k]) :
          n < Len(batch[k]) /\ batch[k][n + 1] \in Poison /\ Executed(batch)[k] = SubSeq(batch[k], 1, n)
    BY <1>1, SomeBad
  <2>2. PICK n \in 0 .. Len(batch[k]) :
          n < Len(batch[k]) /\ batch[k][n + 1] \in Poison /\ Executed(batch)[k] = SubSeq(batch[k], 1, n)
    BY <2>1
  <2>3. CutFrom(Unstored[k], (Unstored')[k], batch[k], n)
    BY <1>7, <2>2
  <2>4. PICK i \in 0 .. Len(Unstored[k]) : \E j \in i .. Len(Unstored[k]) :
          (Unstored')[k] = Queue!Without(Unstored[k], i, j) /\ i < j /\ Unstored[k][i + 1] = batch[k][n + 1]
    BY <2>2, <2>3 DEF CutFrom
  <2>5. PICK j \in i .. Len(Unstored[k]) :
          (Unstored')[k] = Queue!Without(Unstored[k], i, j) /\ i < j /\ Unstored[k][i + 1] \in Poison
    BY <2>2, <2>4
  <2>6. j \in i + 1 .. Len(Unstored[k]) /\ i + 1 \in i + 1 .. j
    BY <2>5
  <2> QED
    BY <2>5, <2>6
<1> QED
  BY <1>5, <1>2, <1>8, <1>9 DEF Queue!Drop, ByKind

\* Only the three calls of the event loop add to the queue.
LEMMA NotAccepted ==
  ASSUME Good, Good', [Next]_vars, ~\E k \in Kinds : Enqueue(k)
  PROVE  Queue!Store \/ Queue!Drop \/ Queue!Lose \/ UNCHANGED Queue!vars
<1>1. ASSUME UNCHANGED <<pending, batch, tx, stored>> PROVE UNCHANGED Queue!vars
  BY <1>1 DEF Unstored, Queue!vars
<1>2. CASE ConsoleCalls \/ ConsoleWrites \/ ConsoleTimesOut
           \/ FlushCalled \/ FlushReturns \/ FlushTimesOut \/ FlushClears
  BY <1>1, <1>2 DEF ConsoleCalls, ConsoleWrites, ConsoleTimesOut,
                    FlushCalled, FlushReturns, FlushTimesOut, FlushClears, writer
<1>3. CASE Thread
  <2>1. CASE Acknowledge \/ Signal
    BY <1>1, <2>1 DEF Acknowledge, Signal
  <2> QED
    BY <1>3, <2>1, HandedOn, FailureMaps, CommitMaps DEF Thread
<1>4. CASE Crash
  BY <1>4, CrashMaps
<1>5. CASE UNCHANGED vars
  BY <1>1, <1>5 DEF vars, writer
<1> QED
  BY <1>2, <1>3, <1>4, <1>5 DEF Next

LEMMA StepMaps == Good /\ Good' /\ [Next]_vars => [Queue!Next]_(Queue!vars)
<1> SUFFICES ASSUME Good, Good', [Next]_vars PROVE Queue!Next \/ UNCHANGED Queue!vars
  OBVIOUS
<1>1. CASE \E k \in Kinds : Enqueue(k)
  BY <1>1, EnqueueMaps DEF Queue!Next
<1>2. CASE ~\E k \in Kinds : Enqueue(k)
  BY <1>2, NotAccepted DEF Queue!Next
<1> QED
  BY <1>1, <1>2

\* The thread implements the durable queue: rows are stored once, in order, and
\* lost only with a refused row or in a crash.
THEOREM WriterKeepsEveryRow == Spec => KeepsEveryRow
BY InitMaps, StepMaps, AlwaysGood, PTL DEF Spec, KeepsEveryRow, Queue!Spec

(***************************************************************************)
(* Once, and in the order of acceptance                                    *)
(***************************************************************************)
Rising(s) == \A i, j \in DOMAIN s : i < j => s[i] < s[j]
Below(s, t) == \A x \in Elements(s), y \in Elements(t) : x < y

LEMMA RisingConcat ==
  ASSUME NEW s \in Seq(Rows), NEW t \in Seq(Rows)
  PROVE  Rising(s \o t) <=> Rising(s) /\ Rising(t) /\ Below(s, t)
<1>1. /\ Len(s) \in Nat /\ DOMAIN s = 1 .. Len(s) /\ Len(t) \in Nat /\ DOMAIN t = 1 .. Len(t)
      /\ \A i \in 1 .. Len(s) + Len(t) : (s \o t)[i] = IF i <= Len(s) THEN s[i] ELSE t[i - Len(s)]
      /\ DOMAIN (s \o t) = 1 .. Len(s) + Len(t)
  BY ConcatProperties, LenProperties
<1>2. PICK u, m, n : u = s \o t /\ m = Len(s) /\ n = Len(t)
  OBVIOUS
<1>3. /\ m \in Nat /\ n \in Nat /\ DOMAIN s = 1 .. m /\ DOMAIN t = 1 .. n /\ DOMAIN u = 1 .. m + n
      /\ \A i \in 1 .. m : i \in 1 .. m + n /\ u[i] = s[i]
      /\ \A i \in 1 .. n : m + i \in 1 .. m + n /\ u[m + i] = t[i]
  <2>1. /\ m \in Nat /\ n \in Nat /\ DOMAIN s = 1 .. m /\ DOMAIN t = 1 .. n /\ DOMAIN u = 1 .. m + n
        /\ \A i \in 1 .. m + n : u[i] = IF i <= m THEN s[i] ELSE t[i - m]
    BY <1>1, <1>2
  <2>2. ASSUME NEW i \in 1 .. n PROVE m + i \in 1 .. m + n /\ u[m + i] = t[i]
    <3>1. m + i \in 1 .. m + n /\ ~(m + i <= m) /\ (m + i) - m = i
      BY <2>1
    <3> QED
      BY <2>1, <3>1
  <2> QED
    BY <2>1, <2>2
<1>4. ASSUME Rising(u) PROVE Rising(s) /\ Rising(t) /\ Below(s, t)
  <2>1. ASSUME NEW i \in 1 .. m, NEW j \in 1 .. m, i < j PROVE s[i] < s[j]
    BY <1>3, <1>4, <2>1 DEF Rising
  <2>2. ASSUME NEW i \in 1 .. n, NEW j \in 1 .. n, i < j PROVE t[i] < t[j]
    <3>1. m + i < m + j
      BY <1>3, <2>2
    <3> QED
      BY <1>3, <1>4, <3>1 DEF Rising
  <2>3. ASSUME NEW i \in 1 .. m, NEW j \in 1 .. n PROVE s[i] < t[j]
    <3>1. i < m + j
      BY <1>3
    <3> QED
      BY <1>3, <1>4, <3>1 DEF Rising
  <2> QED
    BY <1>3, <2>1, <2>2, <2>3 DEF Rising, Below, Elements
<1>5. ASSUME Rising(s), Rising(t), Below(s, t) PROVE Rising(u)
  <2> SUFFICES ASSUME NEW i \in 1 .. m + n, NEW j \in 1 .. m + n, i < j PROVE u[i] < u[j]
    BY <1>3 DEF Rising
  <2>1. CASE j <= m
    <3>1. i \in 1 .. m /\ j \in 1 .. m
      BY <1>3, <2>1
    <3> QED
      BY <1>3, <1>5, <3>1 DEF Rising
  <2>2. CASE ~(j <= m) /\ i <= m
    <3>1. PICK b \in 1 .. n : j = m + b
      <4>1. j - m \in 1 .. n /\ j = m + (j - m)
        BY <1>3, <2>2
      <4> QED
        BY <4>1
    <3>2. i \in 1 .. m /\ u[i] = s[i] /\ u[j] = t[b]
      BY <1>3, <2>2, <3>1
    <3> QED
      BY <1>3, <1>5, <3>1, <3>2 DEF Below, Elements
  <2>3. CASE ~(i <= m)
    <3>1. PICK a \in 1 .. n, b \in 1 .. n : i = m + a /\ j = m + b /\ a < b
      <4>1. /\ i - m \in 1 .. n /\ j - m \in 1 .. n /\ i - m < j - m
            /\ i = m + (i - m) /\ j = m + (j - m)
        BY <1>3, <2>3
      <4> QED
        BY <4>1
    <3>2. u[i] = t[a] /\ u[j] = t[b]
      BY <1>3, <3>1
    <3> QED
      BY <1>3, <1>5, <3>1, <3>2 DEF Rising
  <2> QED
    BY <2>1, <2>2, <2>3
<1> QED
  BY <1>2, <1>4, <1>5

LEMMA RisingPart ==
  ASSUME NEW s \in Seq(Rows), NEW first \in Nat, NEW last \in Nat,
         first >= 1, first <= last + 1, last <= Len(s)
  PROVE  /\ SubSeq(s, first, last) \in Seq(Rows)
         /\ \A x \in Elements(SubSeq(s, first, last)) : \E n \in first .. last : x = s[n]
         /\ Rising(s) => Rising(SubSeq(s, first, last))
<1>0. PICK i \in Nat, j \in Nat : i + 1 = first /\ i + j = last
  <2>1. /\ first - 1 \in Nat /\ last - (first - 1) \in Nat
        /\ (first - 1) + 1 = first /\ (first - 1) + (last - (first - 1)) = last
    OBVIOUS
  <2> QED
    BY <2>1
<1>1. Len(s) \in Nat /\ DOMAIN s = 1 .. Len(s)
  BY LenProperties
<1>2. \A n \in i + 1 .. i + j : n \in 1 .. Len(s) /\ s[n] \in Rows
  BY <1>0, <1>1, ElementOfSeq
<1>3. PICK t : t = SubSeq(s, first, last) /\ t = SubSeq(s, i + 1, i + j)
  BY <1>0
<1>4. t \in Seq(Rows) /\ Len(t) = j /\ \A n \in 1 .. j : t[n] = s[i + n]
  <2>1. t \in Seq(Rows) /\ Len(t) = (IF i + 1 <= i + j THEN (i + j) - (i + 1) + 1 ELSE 0)
        /\ \A n \in 1 .. (i + j) - (i + 1) + 1 : t[n] = s[(i + 1) + n - 1]
    BY <1>2, <1>3, SubSeqProperties
  <2>2. (i + j) - (i + 1) + 1 = j /\ (~(i + 1 <= i + j) => j = 0)
    OBVIOUS
  <2>3. \A n \in 1 .. j : (i + 1) + n - 1 = i + n
    OBVIOUS
  <2> QED
    BY <2>1, <2>2, <2>3
<1>5. DOMAIN t = 1 .. j
  BY <1>4, LenProperties
<1>6. \A n \in 1 .. j : i + n \in i + 1 .. i + j
  OBVIOUS
<1>7. ASSUME Rising(s), NEW a \in 1 .. j, NEW b \in 1 .. j, a < b PROVE t[a] < t[b]
  <2>1. i + a \in DOMAIN s /\ i + b \in DOMAIN s /\ i + a < i + b
    BY <1>1, <1>2, <1>6, <1>7
  <2> QED
    BY <1>4, <1>7, <2>1 DEF Rising
<1>8. \A x \in Elements(t) : \E n \in i + 1 .. i + j : x = s[n]
  BY <1>4, <1>5, <1>6 DEF Elements
<1> QED
  BY <1>0, <1>3, <1>4, <1>5, <1>7, <1>8 DEF Rising

LEMMA RisingWithout ==
  ASSUME NEW s \in Seq(Rows), NEW i \in 0 .. Len(s), NEW j \in i .. Len(s)
  PROVE  /\ Queue!Without(s, i, j) \in Seq(Rows)
         /\ Elements(Queue!Without(s, i, j)) \subseteq Elements(s)
         /\ Rising(s) => Rising(Queue!Without(s, i, j))
<1>1. Len(s) \in Nat /\ DOMAIN s = 1 .. Len(s)
  BY LenProperties
<1>2. PICK p, q : p = SubSeq(s, 1, i) /\ q = SubSeq(s, j + 1, Len(s))
  OBVIOUS
<1>3. /\ i \in Nat /\ j \in Nat /\ i <= j /\ i <= Len(s) /\ j <= Len(s)
      /\ j + 1 \in Nat /\ j + 1 >= 1 /\ j + 1 <= Len(s) + 1 /\ 1 <= i + 1
  BY <1>1
<1>4. /\ p \in Seq(Rows) /\ (Rising(s) => Rising(p))
      /\ \A x \in Elements(p) : \E n \in 1 .. i : x = s[n]
  BY <1>2, <1>3, RisingPart
<1>5. /\ q \in Seq(Rows) /\ (Rising(s) => Rising(q))
      /\ \A x \in Elements(q) : \E n \in j + 1 .. Len(s) : x = s[n]
  BY <1>1, <1>2, <1>3, RisingPart
<1>6. Rising(s) => Below(p, q)
  <2> SUFFICES ASSUME Rising(s), NEW x \in Elements(p), NEW y \in Elements(q) PROVE x < y
    BY DEF Below
  <2>1. PICK a \in 1 .. i : x = s[a]
    BY <1>4
  <2>2. PICK b \in j + 1 .. Len(s) : y = s[b]
    BY <1>5
  <2>3. a \in DOMAIN s /\ b \in DOMAIN s /\ a < b
    BY <1>1, <1>3
  <2> QED
    BY <2>1, <2>2, <2>3 DEF Rising
<1>7. Elements(p) \cup Elements(q) \subseteq Elements(s)
  <2>1. \A n \in 1 .. i : n \in DOMAIN s
    BY <1>1, <1>3
  <2>2. \A n \in j + 1 .. Len(s) : n \in DOMAIN s
    BY <1>1, <1>3
  <2> QED
    BY <1>4, <1>5, <2>1, <2>2 DEF Elements
<1>8. Queue!Without(s, i, j) = p \o q
  BY <1>2 DEF Queue!Without
<1>9. p \o q \in Seq(Rows) /\ Elements(p \o q) = Elements(p) \cup Elements(q)
  BY <1>4, <1>5, ConcatProperties, ElementsConcat
<1> QED
  BY <1>4, <1>5, <1>6, <1>7, <1>8, <1>9, RisingConcat

\* What was accepted of one kind and neither dropped nor lost, stored rows first.
Line(k) == stored[k] \o Unstored[k]

InLine ==
  /\ \A k \in Kinds : Line(k) \in Seq(1 .. accepted) /\ Rising(Line(k))
  /\ \A j, k \in Kinds : j # k => Elements(Line(j)) \cap Elements(Line(k)) = {}

\* No row is stored twice, and those of one kind in the order of acceptance.
StoredOnceInOrder ==
  /\ \A k \in Kinds : Rising(stored[k])
  /\ \A j, k \in Kinds : j # k => Elements(stored[j]) \cap Elements(stored[k]) = {}

LEMMA LineType ==
  ASSUME Good, NEW k \in Kinds
  PROVE  /\ stored[k] \in Seq(Rows) /\ Unstored[k] \in Seq(Rows) /\ Line(k) \in Seq(Rows)
         /\ Elements(Line(k)) = Elements(stored[k]) \cup Elements(Unstored[k])
         /\ Line(k) \in Seq(1 .. accepted)
<1>1. stored[k] \in Seq(Rows) /\ Unstored[k] \in Seq(Rows)
  BY Widened DEF ByKind
<1>2. stored[k] \in Seq(1 .. accepted) /\ Unstored[k] \in Seq(1 .. accepted)
  <2>1. /\ pending \in ByKind(1 .. accepted) /\ batch \in ByKind(1 .. accepted)
        /\ tx \in ByKind(1 .. accepted) /\ stored \in ByKind(1 .. accepted)
    BY DEF Good, Types
  <2>2. Unstored \in ByKind(1 .. accepted)
    BY <2>1, JoinedType DEF Unstored
  <2> QED
    BY <2>1, <2>2 DEF ByKind
<1> QED
  BY <1>1, <1>2, ConcatProperties, ElementsConcat DEF Line

LEMMA LineTypeAfter ==
  ASSUME Good', NEW k \in Kinds
  PROVE  Line(k)' \in Seq(1 .. accepted')
<1>1. /\ pending' \in ByKind(1 .. accepted') /\ batch' \in ByKind(1 .. accepted')
      /\ tx' \in ByKind(1 .. accepted') /\ stored' \in ByKind(1 .. accepted')
  BY DEF Good, Types
<1>2. Unstored' \in ByKind(1 .. accepted')
  BY <1>1, JoinedType DEF Unstored
<1> QED
  BY <1>1, <1>2, ConcatProperties DEF ByKind, Line

\* A row that joins a line has a greater number than those in it.
LEMMA RisingAppend ==
  ASSUME NEW s \in Seq(Rows), NEW n \in Rows, \A x \in Elements(s) : x < n
  PROVE  /\ Append(s, n) \in Seq(Rows)
         /\ Elements(Append(s, n)) = Elements(s) \cup {n}
         /\ Rising(s) => Rising(Append(s, n))
<1>1. <<n>> \in Seq(Rows) /\ Elements(<<n>>) = {n} /\ Rising(<<n>>)
  <2>1. \A i \in 1 .. 1 : i = 1
    OBVIOUS
  <2>2. <<n>> \in Seq(Rows) /\ DOMAIN <<n>> = 1 .. 1 /\ <<n>>[1] = n
    OBVIOUS
  <2> QED
    BY <2>1, <2>2 DEF Elements, Rising
<1>2. Append(s, n) = s \o <<n>>
  BY AppendIsConcat
<1>3. s \o <<n>> \in Seq(Rows) /\ Elements(s \o <<n>>) = Elements(s) \cup Elements(<<n>>)
  BY <1>1, ConcatProperties, ElementsConcat
<1>4. Below(s, <<n>>)
  BY <1>1 DEF Below
<1> QED
  BY <1>1, <1>2, <1>3, <1>4, RisingConcat

LEMMA EnqueueInLine ==
  ASSUME Good, Good', InLine, NEW k \in Kinds, Enqueue(k)
  PROVE  InLine'
<1>1. PICK n : n = accepted + 1
  OBVIOUS
<1>2. n \in Rows /\ Unstored' = Put(Unstored, k, n) /\ stored' = stored /\ Unstored \in ByKind(Rows)
  BY <1>1, EnqueueMaps, Widened DEF Queue!Accept, Put
<1>3. accepted \in Nat
  BY RowAssumption DEF Good, Types, TypeOK
<1>4. ASSUME NEW j \in Kinds PROVE \A x \in Elements(Line(j)) : x < n
  <2>1. Line(j) \in Seq(1 .. accepted)
    BY <1>4, LineType
  <2>2. \A i \in DOMAIN Line(j) : Line(j)[i] \in 1 .. accepted
    BY <2>1, LenProperties, ElementOfSeq
  <2>3. \A x \in 1 .. accepted : x < n
    BY <1>1, <1>3
  <2> QED
    BY <2>2, <2>3 DEF Elements
<1>5. Line(k)' = Append(Line(k), n)
  <2>1. stored[k] \in Seq(Rows) /\ Unstored[k] \in Seq(Rows) /\ <<n>> \in Seq(Rows)
    BY <1>2, LineType
  <2>2. (Unstored')[k] = Append(Unstored[k], n)
    BY <1>2 DEF Put, ByKind
  <2>3. /\ Append(Unstored[k], n) = Unstored[k] \o <<n>>
        /\ Append(stored[k] \o Unstored[k], n) = (stored[k] \o Unstored[k]) \o <<n>>
    BY <1>2, <2>1, ConcatProperties, AppendIsConcat
  <2>4. (stored[k] \o Unstored[k]) \o <<n>> = stored[k] \o (Unstored[k] \o <<n>>)
    <3>1. \A s, t, u \in Seq(Rows) : (s \o t) \o u = s \o (t \o u)
      BY ConcatAssociative
    <3> QED
      BY <2>1, <3>1
  <2> QED
    BY <1>2, <2>2, <2>3, <2>4 DEF Line
<1>6. ASSUME NEW j \in Kinds, j # k PROVE Line(j)' = Line(j)
  BY <1>2, <1>6 DEF Line, Put, ByKind
<1>7. /\ Elements(Line(k)') = Elements(Line(k)) \cup {n}
      /\ Rising(Line(k)')
  BY <1>2, <1>4, <1>5, LineType, RisingAppend DEF InLine
<1>8. ASSUME NEW j \in Kinds, j # k PROVE n \notin Elements(Line(j))
  BY <1>1, <1>3, <1>4
<1>9. ASSUME NEW j \in Kinds PROVE Line(j)' \in Seq(1 .. accepted')
  BY <1>9, LineTypeAfter
<1>10. ASSUME NEW j \in Kinds PROVE Rising(Line(j)')
  BY <1>6, <1>7, <1>10 DEF InLine
<1>11. ASSUME NEW i \in Kinds, NEW j \in Kinds, i # j
       PROVE  Elements(Line(i)') \cap Elements(Line(j)') = {}
  <2>1. Elements(Line(i)) \cap Elements(Line(j)) = {}
    BY <1>11 DEF InLine
  <2>2. CASE i = k
    BY <1>6, <1>7, <1>8, <1>11, <2>1, <2>2
  <2>3. CASE j = k
    BY <1>6, <1>7, <1>8, <1>11, <2>1, <2>3
  <2>4. CASE i # k /\ j # k
    BY <1>6, <2>1, <2>4
  <2> QED
    BY <2>2, <2>3, <2>4
<1> QED
  BY <1>9, <1>10, <1>11 DEF InLine, Elements, Rising

\* The other steps leave a line as it is, or take rows out of it.
LEMMA OthersInLine ==
  ASSUME Good, Good', InLine,
         Queue!Store \/ Queue!Drop \/ Queue!Lose \/ UNCHANGED Queue!vars
  PROVE  /\ \A k \in Kinds : Rising(Line(k)')
         /\ \A k \in Kinds : Elements(Line(k)') \subseteq Elements(Line(k))
<1> SUFFICES ASSUME NEW k \in Kinds
             PROVE  Rising(Line(k)') /\ Elements(Line(k)') \subseteq Elements(Line(k))
  OBVIOUS
<1>1. /\ stored[k] \in Seq(Rows) /\ Unstored[k] \in Seq(Rows) /\ Rising(Line(k))
      /\ Elements(Line(k)) = Elements(stored[k]) \cup Elements(Unstored[k])
  BY LineType DEF InLine
<1>2. Rising(stored[k]) /\ Rising(Unstored[k]) /\ Below(stored[k], Unstored[k])
  BY <1>1, RisingConcat DEF Line
<1>3. CASE Queue!Store \/ UNCHANGED Queue!vars
  <2>1. Line(k)' = Line(k)
    BY <1>3 DEF Queue!Store, Queue!vars, Line
  <2> QED
    BY <1>1, <2>1
<1>4. ASSUME stored' = stored, Unstored'[k] \in Seq(Rows), Rising(Unstored'[k]),
             Elements(Unstored'[k]) \subseteq Elements(Unstored[k])
      PROVE  Rising(Line(k)') /\ Elements(Line(k)') \subseteq Elements(Line(k))
  <2>1. Line(k)' = stored[k] \o Unstored'[k]
    BY <1>4 DEF Line
  <2>2. Below(stored[k], Unstored'[k])
    BY <1>2, <1>4 DEF Below
  <2>3. Elements(stored[k] \o Unstored'[k]) = Elements(stored[k]) \cup Elements(Unstored'[k])
    BY <1>1, <1>4, ElementsConcat
  <2> QED
    BY <1>1, <1>2, <1>4, <2>1, <2>2, <2>3, RisingConcat
<1>5. CASE Queue!Drop
  <2>1. PICK i \in 0 .. Len(Unstored[k]) : \E j \in i .. Len(Unstored[k]) :
          Unstored'[k] = Queue!Without(Unstored[k], i, j)
    BY <1>5 DEF Queue!Drop
  <2>2. stored' = stored
    BY <1>5 DEF Queue!Drop
  <2> QED
    BY <1>1, <1>2, <1>4, <2>1, <2>2, RisingWithout
<1>6. CASE Queue!Lose
  <2>1. Unstored'[k] = <<>> /\ stored' = stored
    BY <1>6 DEF Queue!Lose, Queue!None
  <2>2. <<>> \in Seq(Rows) /\ Rising(<<>>) /\ Elements(<<>>) = {}
    BY EmptySeq DEF Rising, Elements
  <2> QED
    BY <1>4, <2>1, <2>2
<1> QED
  BY <1>3, <1>4, <1>5, <1>6

LEMMA InLineStep == Good /\ Good' /\ InLine /\ [Next]_vars => InLine'
<1> SUFFICES ASSUME Good, Good', InLine, [Next]_vars PROVE InLine'
  OBVIOUS
<1>1. CASE \E k \in Kinds : Enqueue(k)
  BY <1>1, EnqueueInLine
<1>2. CASE ~\E k \in Kinds : Enqueue(k)
  <2>1. Queue!Store \/ Queue!Drop \/ Queue!Lose \/ UNCHANGED Queue!vars
    BY <1>2, NotAccepted
  <2>2. ASSUME NEW k \in Kinds PROVE Line(k)' \in Seq(1 .. accepted')
    BY <2>2, LineTypeAfter
  <2> QED
    BY <2>1, <2>2, OthersInLine DEF InLine
<1> QED
  BY <1>1, <1>2

\* No row is stored twice, and the rows of one kind are stored in the order in
\* which enqueue_log, enqueue_stats or enqueue_key accepted them, whatever the
\* failures of batches and commits and the crashes in between.
THEOREM RowsStoredOnceInOrder == Spec => []StoredOnceInOrder
<1>1. Init => InLine
  <2> SUFFICES ASSUME Init PROVE InLine
    OBVIOUS
  <2>1. Good /\ Unstored = None /\ stored = None
    BY InitGood, InitMaps DEF Queue!Init, Queue!None, None
  <2>2. <<>> \o <<>> = <<>> /\ <<>> \in Seq(Nat)
    BY EmptySeq, ConcatEmptySeq
  <2>3. \A k \in Kinds : Line(k) = <<>>
    BY <2>1, <2>2 DEF Line, None
  <2>4. Rising(<<>>) /\ Elements(<<>>) = {}
    BY DEF Rising, Elements
  <2> QED
    BY <2>1, <2>3, <2>4, LineType DEF InLine
<1>2. Good /\ InLine => StoredOnceInOrder
  <2> SUFFICES ASSUME Good, InLine PROVE StoredOnceInOrder
    OBVIOUS
  <2>1. ASSUME NEW k \in Kinds PROVE Rising(stored[k]) /\ Elements(stored[k]) \subseteq Elements(Line(k))
    BY <2>1, LineType, RisingConcat DEF InLine, Line
  <2> QED
    BY <2>1 DEF InLine, StoredOnceInOrder
<1> QED
  BY <1>1, <1>2, InLineStep, AlwaysGood, PTL DEF Spec
=============================================================================
