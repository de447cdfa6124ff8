---------------------------- MODULE AccessProofs ----------------------------
(***************************************************************************)
(* Theorems about Access, for any processes, keys, grants, settings and    *)
(* any time to live of a copy.                                             *)
(*                                                                         *)
(* The argument: a copy in use says of a key what the list said no longer  *)
(* ago than the copy's age, or was made by a read that failed no longer    *)
(* ago than that (CopiesAreRecent); and the console's copy is dropped      *)
(* whenever the list changes (ConsoleIsCurrent).  Both need that the       *)
(* history knows what the list says now (PresentIsKnown).                  *)
(***************************************************************************)
EXTENDS Access, TLAPS

InUse(p) == copy[p] # NoCopy /\ age[p] <= Ttl

PresentIsKnown == \A k \in Keys : gone[k][stored[k]] = 0

CopiesAreRecent ==
  \A p \in Procs, k \in Keys : InUse(p) =>
    gone[k][copy[p][k]] <= age[p] \/ (copy[p][k] = "none" /\ failed[p] <= age[p])

ConsoleIsCurrent ==
  \A k \in Keys : InUse(Console) =>
    stored[k] = copy[Console][k] \/ (copy[Console][k] = "none" /\ failed[Console] <= age[Console])

Good == TypeOK /\ PresentIsKnown /\ CopiesAreRecent /\ ConsoleIsCurrent

\* Ages stay in their range and keep their order when time passes.
LEMMA LaterType ==
  ASSUME NEW s \in 0 .. Ttl + 1, NEW t \in 0 .. Ttl + 1
  PROVE  /\ Later(t) \in 0 .. Ttl + 1
         /\ s <= t => Later(s) <= Later(t)
         /\ Later(t) <= Ttl => t <= Ttl
BY TtlAssumption DEF Later

\* What a look-up finds is a grant.
LEMMA GrantOfType ==
  ASSUME NEW list \in Lists, NEW x PROVE GrantOf(list, x) \in Grants
BY GrantAssumption DEF GrantOf, Lists

LEMMA NoKeysType == NoKeys \in Lists
BY GrantAssumption DEF NoKeys, Lists

\* A freshly started system is good.
LEMMA InitGood == Init => Good
<1> SUFFICES ASSUME Init PROVE Good
  OBVIOUS
<1>1. saved \in Settings /\ mine \in [Procs -> Settings]
  BY ConfigAssumption DEF Init
<1>2. TypeOK
  BY <1>1, TtlAssumption DEF Init, TypeOK
<1>3. PresentIsKnown
  BY DEF Init, PresentIsKnown, Lists
<1>4. CopiesAreRecent /\ ConsoleIsCurrent
  BY DEF Init, CopiesAreRecent, ConsoleIsCurrent, InUse, Procs
<1> QED
  BY <1>2, <1>3, <1>4 DEF Good

\* Time passes.
LEMMA TickGood == Good /\ Tick => Good'
<1> SUFFICES ASSUME Good, Tick PROVE Good'
  OBVIOUS
<1> USE DEF Good
<1>1. \A k \in Keys, g \in Grants : gone[k][g] \in 0 .. Ttl + 1
  BY DEF TypeOK
<1>2. \A p \in Procs : age[p] \in 0 .. Ttl + 1 /\ failed[p] \in 0 .. Ttl + 1
  BY DEF TypeOK
<1>3. \A k \in Keys, g \in Grants : gone'[k][g] = IF stored[k] = g THEN 0 ELSE Later(gone[k][g])
  BY DEF Tick
<1>4. \A p \in Procs : age'[p] = Later(age[p]) /\ failed'[p] = Later(failed[p])
  BY DEF Tick
<1>5. stored' = stored /\ copy' = copy
  BY DEF Tick
<1>6. TypeOK'
  <2>1. \A k \in Keys, g \in Grants : (IF stored[k] = g THEN 0 ELSE Later(gone[k][g])) \in 0 .. Ttl + 1
    BY <1>1, LaterType, TtlAssumption
  <2>2. gone' \in [Keys -> [Grants -> 0 .. Ttl + 1]]
    BY <2>1 DEF Tick
  <2>3. age' \in [Procs -> 0 .. Ttl + 1] /\ failed' \in [Procs -> 0 .. Ttl + 1]
    BY <1>2, LaterType DEF Tick
  <2> QED
    BY <2>2, <2>3 DEF TypeOK, Tick, config
<1>7. PresentIsKnown'
  BY <1>3, <1>5 DEF PresentIsKnown, TypeOK, Lists
<1>8. ASSUME NEW p \in Procs, InUse(p)' PROVE InUse(p)
  BY <1>8, <1>2, <1>4, <1>5, LaterType DEF InUse
<1>9. CopiesAreRecent'
  <2> SUFFICES ASSUME NEW p \in Procs, NEW k \in Keys, InUse(p)'
               PROVE  \/ gone'[k][copy[p][k]] <= age'[p]
                      \/ copy[p][k] = "none" /\ failed'[p] <= age'[p]
    BY <1>5 DEF CopiesAreRecent
  <2>1. copy[p] \in Lists /\ copy[p][k] \in Grants
    BY <1>8 DEF InUse, TypeOK, Lists
  <2>2. CASE gone[k][copy[p][k]] <= age[p]
    <3>1. Later(gone[k][copy[p][k]]) <= Later(age[p])
      BY <2>1, <2>2, <1>1, <1>2, LaterType
    <3>2. Later(age[p]) >= 0
      BY <1>2, LaterType
    <3> QED
      BY <2>1, <3>1, <3>2, <1>3, <1>4
  <2>3. CASE copy[p][k] = "none" /\ failed[p] <= age[p]
    BY <2>3, <1>2, <1>4, LaterType
  <2> QED
    BY <2>2, <2>3, <1>8 DEF CopiesAreRecent
<1>10. ConsoleIsCurrent'
  <2>1. Console \in Procs
    BY DEF Procs
  <2> QED
    BY <2>1, <1>2, <1>4, <1>5, <1>8, LaterType DEF ConsoleIsCurrent
<1> QED
  BY <1>6, <1>7, <1>9, <1>10

\* A request reads the list anew, or fails to.
LEMMA ReadingGood ==
  ASSUME NEW r \in Requests, NEW p \in Procs, NEW x \in Presented, Good, ByReading(r, p, x)
  PROVE  Good'
<1> USE DEF Good
<1>1. copy'[p] \in Lists
  BY NoKeysType DEF ByReading, TypeOK
<1>2. TypeOK'
  <2>1. copy' \in [Procs -> Lists \cup {NoCopy}] /\ age' \in [Procs -> 0 .. Ttl + 1]
    BY NoKeysType, TtlAssumption DEF ByReading, TypeOK
  <2>2. failed' \in [Procs -> 0 .. Ttl + 1]
    BY TtlAssumption DEF ByReading, TypeOK
  <2>3. request' \in [Requests -> Seen \cup {Idle}]
    <3>1. [proc |-> p, key |-> x, grant |-> GrantOf(copy'[p], x)] \in Seen
      BY <1>1, GrantOfType DEF Seen
    <3> QED
      BY <3>1 DEF ByReading, Finds, TypeOK
  <2> QED
    BY <2>1, <2>2, <2>3 DEF ByReading, TypeOK, config
<1>3. PresentIsKnown'
  BY DEF ByReading, PresentIsKnown
<1>4. \A k \in Keys : /\ age'[p] = 0
                      /\ \/ copy'[p][k] = stored[k]
                         \/ copy'[p][k] = "none" /\ failed'[p] = 0
  BY DEF ByReading, TypeOK, NoKeys
<1>5. \A q \in Procs \ {p} : copy'[q] = copy[q] /\ age'[q] = age[q] /\ failed'[q] = failed[q]
  BY DEF ByReading, TypeOK
<1>6. gone' = gone /\ stored' = stored
  BY DEF ByReading
<1>7. CopiesAreRecent'
  BY <1>4, <1>5, <1>6 DEF CopiesAreRecent, PresentIsKnown, InUse
<1>8. ConsoleIsCurrent'
  <2>1. Console \in Procs
    BY DEF Procs
  <2> QED
    BY <2>1, <1>4, <1>5, <1>6 DEF ConsoleIsCurrent, InUse
<1> QED
  BY <1>2, <1>3, <1>7, <1>8

\* The console stores another list.
LEMMA PutKeysGood ==
  ASSUME NEW list \in Lists, Good, PutKeys(list) PROVE Good'
<1> USE DEF Good
<1>1. Console \in Procs
  BY DEF Procs
<1>2. \A k \in Keys, g \in Grants : gone'[k][g] = IF g = list[k] THEN 0 ELSE gone[k][g]
  BY DEF PutKeys, Stored, TypeOK, Lists
<1>3. TypeOK'
  <2>1. gone' \in [Keys -> [Grants -> 0 .. Ttl + 1]]
    BY TtlAssumption DEF PutKeys, Stored, TypeOK, Lists
  <2>2. copy' \in [Procs -> Lists \cup {NoCopy}]
    BY DEF PutKeys, TypeOK
  <2>3. age' \in [Procs -> 0 .. Ttl + 1]
    <3>1. 0 \in 0 .. Ttl + 1
      BY TtlAssumption
    <3>2. age \in [Procs -> 0 .. Ttl + 1] /\ age' = [age EXCEPT ![Console] = 0]
      BY DEF PutKeys, TypeOK
    <3> QED
      BY <3>1, <3>2, <1>1
  <2> QED
    BY <2>1, <2>2, <2>3 DEF PutKeys, Stored, TypeOK, config
<1>4. PresentIsKnown'
  BY <1>2 DEF PresentIsKnown, PutKeys, Stored, Lists
<1>5. copy'[Console] = NoCopy
  BY <1>1 DEF PutKeys, TypeOK
<1>6. \A p \in Procs \ {Console} : copy'[p] = copy[p] /\ age'[p] = age[p]
  BY DEF PutKeys, TypeOK
<1>7. CopiesAreRecent'
  <2> SUFFICES ASSUME NEW p \in Procs, NEW k \in Keys, InUse(p)'
               PROVE  \/ gone'[k][copy'[p][k]] <= age'[p]
                      \/ copy'[p][k] = "none" /\ failed'[p] <= age'[p]
    BY DEF CopiesAreRecent
  <2>1. p # Console /\ copy'[p] = copy[p] /\ age'[p] = age[p] /\ failed' = failed
    BY <1>5, <1>6 DEF InUse, PutKeys
  <2>2. InUse(p) /\ copy[p][k] \in Grants /\ age[p] \in Nat
    BY <2>1, TtlAssumption DEF InUse, TypeOK, Lists
  <2> QED
    BY <2>1, <2>2, <1>2 DEF CopiesAreRecent
<1>8. ConsoleIsCurrent'
  BY <1>5 DEF ConsoleIsCurrent, InUse
<1> QED
  BY <1>3, <1>4, <1>7, <1>8

\* All steps keep the system good; those not named above leave the list, the
\* copies and the history alone, or drop all copies.
LEMMA GoodStep == Good /\ [Next]_vars => Good'
<1> SUFFICES ASSUME Good, [Next]_vars PROVE Good'
  OBVIOUS
<1>1. CASE Tick
  BY <1>1, TickGood
<1>2. ASSUME NEW r \in Requests, Decided(r) PROVE Good'
  BY <1>2 DEF Decided, config, cache, history, Good, TypeOK, PresentIsKnown, CopiesAreRecent,
              ConsoleIsCurrent, InUse
<1>3. ASSUME NEW r \in Requests, NEW p \in Procs, NEW x \in Presented, OpenDoor(r, p, x) PROVE Good'
  <2>1. [proc |-> p, key |-> x, grant |-> "full"] \in Seen
    BY GrantAssumption DEF Seen
  <2>2. request' \in [Requests -> Seen \cup {Idle}]
    BY <1>3, <2>1 DEF OpenDoor, Finds, Good, TypeOK
  <2> QED
    BY <1>3, <2>2 DEF OpenDoor, config, cache, history, Good, TypeOK, PresentIsKnown,
                      CopiesAreRecent, ConsoleIsCurrent, InUse
<1>4. ASSUME NEW r \in Requests, NEW p \in Procs, NEW x \in Presented, ByCopy(r, p, x) PROVE Good'
  <2>1. copy[p] \in Lists
    BY <1>4 DEF ByCopy, Good, TypeOK
  <2>2. [proc |-> p, key |-> x, grant |-> GrantOf(copy[p], x)] \in Seen
    BY <2>1, GrantOfType DEF Seen
  <2>3. request' \in [Requests -> Seen \cup {Idle}]
    BY <1>4, <2>2 DEF ByCopy, Finds, Good, TypeOK
  <2> QED
    BY <1>4, <2>3 DEF ByCopy, config, cache, history, Good, TypeOK, PresentIsKnown,
                      CopiesAreRecent, ConsoleIsCurrent, InUse
<1>5. ASSUME NEW r \in Requests, NEW p \in Procs, NEW x \in Presented, ByReading(r, p, x) PROVE Good'
  BY <1>5, ReadingGood
<1>6. ASSUME NEW list \in Lists, PutKeys(list) PROVE Good'
  BY <1>6, PutKeysGood
<1>7. ASSUME NEW s \in Configs, PutSettings(s) PROVE Good'
  <2>1. saved' \in Settings /\ mine' \in [Procs -> Settings]
    BY <1>7, ConfigAssumption DEF PutSettings, Good, TypeOK
  <2> QED
    BY <1>7, <2>1 DEF PutSettings, cache, history, Good, TypeOK, PresentIsKnown, CopiesAreRecent,
                      ConsoleIsCurrent, InUse
<1>8. CASE Restart
  <2>1. TypeOK' /\ PresentIsKnown'
    BY <1>8, TtlAssumption DEF Restart, history, Good, TypeOK, PresentIsKnown
  <2>2. \A p \in Procs : ~InUse(p)'
    BY <1>8 DEF Restart, InUse
  <2>3. Console \in Procs
    BY DEF Procs
  <2> QED
    BY <2>1, <2>2, <2>3 DEF Good, CopiesAreRecent, ConsoleIsCurrent
<1>9. CASE UNCHANGED vars
  BY <1>9 DEF vars, config, cache, history, Good, TypeOK, PresentIsKnown, CopiesAreRecent,
              ConsoleIsCurrent, InUse
<1> QED
  BY <1>1, <1>2, <1>3, <1>4, <1>5, <1>6, <1>7, <1>8, <1>9 DEF Next

LEMMA AlwaysGood == Spec => []Good
BY InitGood, GoodStep, PTL DEF Spec

\* Every variable of Access keeps its type.
THEOREM AccessTypeCorrect == Spec => []TypeOK
<1>1. Good => TypeOK
  BY DEF Good
<1> QED
  BY <1>1, AlwaysGood, PTL

\* A step that judges a key by the list uses a copy in use, or reads one.
LEMMA HowJudged ==
  ASSUME Good, [Next]_vars, NEW r \in Requests, NEW p \in Procs, NEW k \in Keys, NEW g \in Grants,
         Judged(r, p, k, g)
  PROVE  \/ InUse(p) /\ g = copy[p][k] /\ failed' = failed
         \/ g = stored[k]
         \/ g = "none" /\ failed'[p] = 0
<1> USE DEF Good
<1>1. request[r] = Idle /\ ~Open(p, k) /\ request'[r] = [proc |-> p, key |-> k, grant |-> g]
  BY DEF Judged
<1>2. k \in Presented /\ request'[r] \in Seen /\ request'[r] # Idle
  BY <1>1, NoneAssumption DEF Presented, Seen
<1>3. ASSUME NEW s \in Requests, NEW q \in Procs, NEW x \in Presented, NEW a, Finds(s, q, x, a)
      PROVE  q = p /\ x = k /\ a = g
  BY <1>1, <1>2, <1>3 DEF Finds, TypeOK
<1>4. ASSUME NEW s \in Requests, NEW q \in Procs, NEW x \in Presented, OpenDoor(s, q, x) PROVE FALSE
  BY <1>1, <1>3, <1>4 DEF OpenDoor
<1>5. ASSUME NEW s \in Requests, NEW q \in Procs, NEW x \in Presented, ByCopy(s, q, x)
      PROVE  InUse(p) /\ g = copy[p][k] /\ failed' = failed
  BY <1>3, <1>5 DEF ByCopy, history, InUse, GrantOf
<1>6. ASSUME NEW s \in Requests, NEW q \in Procs, NEW x \in Presented, ByReading(s, q, x)
      PROVE  g = stored[k] \/ (g = "none" /\ failed'[p] = 0)
  <2>1. q = p /\ g = copy'[p][k]
    BY <1>3, <1>6 DEF ByReading, GrantOf
  <2> QED
    BY <1>6, <2>1 DEF ByReading, TypeOK, NoKeys
<1>7. \E s \in Requests, q \in Procs, x \in Presented :
        OpenDoor(s, q, x) \/ ByCopy(s, q, x) \/ ByReading(s, q, x)
  <2>1. request' # request
    BY <1>1, <1>2
  <2>2. ~Restart
    BY <1>2 DEF Restart
  <2>3. \A s \in Requests : ~Decided(s)
    BY <1>1, <1>2 DEF Decided, TypeOK
  <2> QED
    BY <2>1, <2>2, <2>3 DEF Next, vars, Tick, PutKeys, PutSettings
<1> QED
  BY <1>4, <1>5, <1>6, <1>7

\* Whatever the processes, the settings and the failures: what a process takes a
\* key for was in the list no longer ago than a copy may be used.
THEOREM VerdictsFollowTheList == Spec => VerdictsAreRecent
<1>1. ASSUME Good, [Next]_vars, NEW r \in Requests, NEW p \in Procs, NEW k \in Keys, NEW g \in Grants,
             Judged(r, p, k, g)
      PROVE  gone[k][g] <= Ttl \/ (g = "none" /\ failed'[p] <= Ttl)
  <2>1. CASE InUse(p) /\ g = copy[p][k] /\ failed' = failed
    <3>1. age[p] \in Nat /\ failed[p] \in Nat /\ gone[k][g] \in Nat
      BY <1>1, TtlAssumption DEF Good, TypeOK
    <3> QED
      BY <1>1, <2>1, <3>1, TtlAssumption DEF Good, CopiesAreRecent, InUse
  <2>2. CASE g = stored[k]
    BY <1>1, <2>2, TtlAssumption DEF Good, PresentIsKnown
  <2>3. CASE g = "none" /\ failed'[p] = 0
    BY <2>3, TtlAssumption
  <2> QED
    BY <1>1, <2>1, <2>2, <2>3, HowJudged
<1>2. Good /\ [Next]_vars =>
        [\A r \in Requests, p \in Procs, k \in Keys, g \in Grants :
           Judged(r, p, k, g) => gone[k][g] <= Ttl \/ (g = "none" /\ failed'[p] <= Ttl)]_vars
  BY <1>1
<1> QED
  BY <1>2, AlwaysGood, PTL DEF Spec, VerdictsAreRecent

\* In the console's process nothing but the stored list counts.
THEOREM TheConsoleKnows == Spec => ConsoleKnowsAtOnce
<1>1. ASSUME Good, [Next]_vars, NEW r \in Requests, NEW k \in Keys, NEW g \in Grants,
             Judged(r, Console, k, g)
      PROVE  stored[k] = g \/ (g = "none" /\ failed'[Console] <= Ttl)
  <2>1. Console \in Procs
    BY DEF Procs
  <2>2. CASE InUse(Console) /\ g = copy[Console][k] /\ failed' = failed
    <3>1. age[Console] \in Nat /\ failed[Console] \in Nat
      BY <1>1, <2>1, TtlAssumption DEF Good, TypeOK
    <3> QED
      BY <1>1, <2>2, <3>1, TtlAssumption DEF Good, ConsoleIsCurrent, InUse
  <2>3. CASE g = "none" /\ failed'[Console] = 0
    BY <2>3, TtlAssumption
  <2> QED
    BY <1>1, <2>1, <2>2, <2>3, HowJudged
<1>2. Good /\ [Next]_vars =>
        [\A r \in Requests, k \in Keys, g \in Grants :
           Judged(r, Console, k, g) => stored[k] = g \/ (g = "none" /\ failed'[Console] <= Ttl)]_vars
  BY <1>1
<1> QED
  BY <1>2, AlwaysGood, PTL DEF Spec, ConsoleKnowsAtOnce
=============================================================================
