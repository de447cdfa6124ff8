-------------------------- MODULE ModelSyncProofs --------------------------
(***************************************************************************)
(* Theorems about ModelSync, for any keys, ids, endpoints, number of       *)
(* overlapping synchronisations and limit of keys asked.                   *)
(***************************************************************************)
EXTENDS ModelSync, FiniteSetTheorems, SequenceTheorems, TLAPS

(***************************************************************************)
(* The numbers of public ids                                               *)
(***************************************************************************)

LEMMA Appended ==
  ASSUME NEW S, NEW s \in Seq(S), NEW u \in Seq(S), NEW a, NEW b, Append(s, a) = Append(u, b)
  PROVE  s = u /\ a = b
<1> DEFINE T == S \cup {a, b}
<1>0. s \in Seq(T) /\ u \in Seq(T) /\ a \in T /\ b \in T
  OBVIOUS
<1> HIDE DEF T
<1>1. Len(s) = Len(u) /\ Len(s) \in Nat
  <2>1. Len(Append(s, a)) = Len(s) + 1 /\ Len(Append(u, b)) = Len(u) + 1
    BY <1>0
  <2> QED
    BY <1>0, <2>1, LenProperties
<1>2. a = b
  <2>1. Append(s, a)[Len(s) + 1] = a /\ Append(u, b)[Len(u) + 1] = b
    BY <1>0
  <2> QED
    BY <1>1, <2>1
<1>3. ASSUME NEW i \in 1 .. Len(s) PROVE s[i] = u[i]
  <2>1. Append(s, a)[i] = s[i] /\ Append(u, b)[i] = u[i]
    BY <1>0, <1>1
  <2> QED
    BY <2>1
<1> QED
  BY <1>0, <1>1, <1>2, <1>3, SeqEqual

LEMMA Prefixes ==
  ASSUME NEW S, NEW s \in Seq(S), NEW u \in Seq(S), NEW t \in Seq(S), s \o t = u \o t
  PROVE  s = u
<1>1. Len(s) + Len(t) = Len(u) + Len(t)
  <2>1. Len(s \o t) = Len(s) + Len(t) /\ Len(u \o t) = Len(u) + Len(t)
    OBVIOUS
  <2> QED
    BY <2>1
<1>2. Len(s) = Len(u)
  BY <1>1, LenProperties
<1>3. ASSUME NEW i \in 1 .. Len(s) PROVE s[i] = u[i]
  <2>1. (s \o t)[i] = s[i] /\ (u \o t)[i] = u[i]
    BY <1>2
  <2> QED
    BY <2>1
<1> QED
  BY <1>2, <1>3, SeqEqual

LEMMA ModelFields ==
  ASSUME NEW m \in Models
  PROVE  /\ m.id \in Ids /\ m.id \in Nat /\ m.at.base \in Nat
         /\ m.at.name \in Texts /\ TextOf[m.id] \in Texts /\ Named(m) \in Texts
<1>1. m.id \in Ids /\ m.id \in Nat /\ TextOf[m.id] \in Texts
  BY IdAssumption DEF Models
<1>2. m.at.base \in Nat /\ m.at.name \in Texts
  BY SyncAssumption DEF Models, Endpoints
<1>3. Named(m) \in Texts
  BY <1>1, <1>2 DEF Named, Texts
<1> QED
  BY <1>1, <1>2, <1>3

\* Models of one {name}-{id} differ in the base URL or in the id.
LEMMA ModelsApart ==
  ASSUME NEW m \in Models, NEW n \in Models, Named(m) = Named(n),
         m.id = n.id, m.at.base = n.at.base
  PROVE  m = n
<1>1. m.at.name = n.at.name
  <2>1. m.at.name \in Texts /\ n.at.name \in Texts /\ TextOf[m.id] \in Texts
    BY ModelFields
  <2>2. m.at.name \o TextOf[m.id] = n.at.name \o TextOf[m.id]
    BY DEF Named
  <2> QED
    BY <2>1, <2>2, Prefixes DEF Texts
<1>2. m.at = n.at
  BY <1>1, EndpointAssumption DEF Models, Endpoints
<1> QED
  BY <1>2 DEF Models

LEMMA ModelsFinite == IsFiniteSet(Models) /\ Cardinality(Models) \in Nat
<1> DEFINE f == [e \in Endpoints |-> CHOOSE k \in Keys : EndpointOf[k] = e]
           g == [m \in Models |-> <<m.id, m.at>>]
<1>1. IsFiniteSet(Endpoints)
  <2>1. \A e \in Endpoints : f[e] \in Keys /\ EndpointOf[f[e]] = e
    BY DEF Endpoints
  <2>2. f \in [Endpoints -> Keys]
    BY <2>1
  <2> HIDE DEF f
  <2>3. f \in Injection(Endpoints, Keys)
    BY <2>1, <2>2 DEF Injection, IsInjective
  <2> QED
    BY <2>3, FiniteAssumption, FS_Injection
<1>2. IsFiniteSet(Ids \X Endpoints)
  BY <1>1, IdAssumption, FS_Product
<1>3. g \in Injection(Models, Ids \X Endpoints)
  <2>1. g \in [Models -> Ids \X Endpoints]
    BY DEF Models
  <2>2. ASSUME NEW m \in Models, NEW n \in Models, g[m] = g[n] PROVE m = n
    BY <2>2 DEF Models
  <2> HIDE DEF g
  <2> QED
    BY <2>1, <2>2 DEF Injection, IsInjective
<1>4. IsFiniteSet(Models)
  <2> HIDE DEF g
  <2> QED
    BY <1>2, <1>3, FS_Injection
<1> QED
  BY <1>4, FS_CardinalityType

LEMMA FewModels ==
  ASSUME NEW S \in SUBSET Models
  PROVE  IsFiniteSet(S) /\ Cardinality(S) \in 0 .. Cardinality(Models)
BY ModelsFinite, FS_Subset, FS_CardinalityType

LEMMA NumberedType ==
  ASSUME NEW S \in SUBSET Models
  PROVE  Numbered(S) \in [S -> 0 .. Cardinality(Models)]
<1> SUFFICES ASSUME NEW m \in S PROVE Numbered(S)[m] \in 0 .. Cardinality(Models)
  BY DEF Numbered
<1> DEFINE same == {x \in S : Named(x) = Named(m)}
           below == {x \in same : UpTo(x, m)}
<1>1. Cardinality(below) \in 0 .. Cardinality(Models)
  <2>1. below \in SUBSET Models
    OBVIOUS
  <2> HIDE DEF below
  <2> QED
    BY <2>1, FewModels
<1>2. Numbered(S)[m] = IF same = {m} THEN 0 ELSE Cardinality(below)
  BY DEF Numbered
<1> HIDE DEF same, below
<1> QED
  BY <1>1, <1>2, ModelsFinite

\* A model that comes before another in the order has a lower number.
LEMMA LowerFirst ==
  ASSUME NEW S \in SUBSET Models, NEW m \in S, NEW n \in S,
         Named(m) = Named(n), m # n, UpTo(m, n)
  PROVE  Numbered(S)[m] < Numbered(S)[n]
<1> DEFINE same == {x \in S : Named(x) = Named(m)}
           low == {x \in same : UpTo(x, m)}
           high == {x \in same : UpTo(x, n)}
<1>b. \A x \in Models : x.at.base \in Nat /\ x.id \in Nat
  BY ModelFields
<1>1. m \in same /\ n \in same /\ m # n
  OBVIOUS
<1>2. Numbered(S)[m] = Cardinality(low) /\ Numbered(S)[n] = Cardinality(high)
  BY <1>1 DEF Numbered
<1>3. low \in SUBSET high /\ low # high
  <2>1. n \in high
    BY <1>1, <1>b DEF UpTo
  <2>2. n \notin low
    <3>1. m \in Models /\ n \in Models
      OBVIOUS
    <3>2. UpTo(n, m) => m.at.base = n.at.base /\ m.id = n.id
      BY <1>b, <3>1 DEF UpTo
    <3> QED
      BY <3>1, <3>2, ModelsApart
  <2>3. ASSUME NEW x \in low PROVE x \in high
    <3>1. x \in Models /\ m \in Models /\ n \in Models /\ UpTo(x, m) /\ x \in same
      OBVIOUS
    <3>2. UpTo(x, n)
      BY <1>b, <3>1 DEF UpTo
    <3> QED
      BY <3>1, <3>2
  <2> QED
    BY <2>1, <2>2, <2>3
<1>4. high \in SUBSET Models
  OBVIOUS
<1> HIDE DEF low, high, same
<1>5. IsFiniteSet(high)
  BY <1>4, FewModels
<1>6. Cardinality(low) <= Cardinality(high) /\ Cardinality(low) # Cardinality(high)
  BY <1>3, <1>5, FS_Subset
<1>7. Cardinality(low) \in Nat /\ Cardinality(high) \in Nat
  BY <1>3, <1>5, FS_Subset, FS_CardinalityType
<1> QED
  BY <1>2, <1>6, <1>7

\* What keeps public ids apart: one {name}-{id} has every number once.
Apart(s) == \A m, n \in DOMAIN s : Named(m) = Named(n) /\ s[m] = s[n] => m = n

LEMMA NumberedApart ==
  ASSUME NEW S \in SUBSET Models
  PROVE  Apart(Numbered(S))
<1> SUFFICES ASSUME NEW m \in S, NEW n \in S, Named(m) = Named(n),
                    Numbered(S)[m] = Numbered(S)[n]
             PROVE  m = n
  BY DEF Apart, Numbered
<1>1. m \in Models /\ n \in Models
  OBVIOUS
<1>2. Numbered(S)[m] \in Nat /\ Numbered(S)[n] \in Nat
  BY NumberedType, ModelsFinite
<1>3. UpTo(m, n) \/ UpTo(n, m)
  <2>1. m.at.base \in Nat /\ n.at.base \in Nat /\ m.id \in Nat /\ n.id \in Nat
    BY <1>1, ModelFields
  <2> QED
    BY <2>1 DEF UpTo
<1>4. CASE m # n /\ UpTo(m, n)
  BY <1>2, <1>4, LowerFirst
<1>5. CASE m # n /\ UpTo(n, m)
  <2>1. Numbered(S)[n] < Numbered(S)[m]
    BY <1>5, LowerFirst
  <2> QED
    BY <1>2, <2>1
<1> QED
  BY <1>3, <1>4, <1>5

\* Then two models share a public id only if one of them has no number.
LEMMA SharedPublicId ==
  ASSUME NEW s, Apart(s), DOMAIN s \subseteq Models, NEW m \in DOMAIN s, NEW n \in DOMAIN s,
         m # n, PublicId(s, m) = PublicId(s, n)
  PROVE  (s[m] = 0) # (s[n] = 0)
<1>1. Named(m) \in Texts /\ Named(n) \in Texts
  BY ModelFields
<1>2. CASE s[m] = 0 /\ s[n] = 0
  BY <1>2 DEF Apart, PublicId
<1>3. CASE s[m] # 0 /\ s[n] # 0
  <2>1. Append(Named(m), s[m]) = Append(Named(n), s[n])
    BY <1>3 DEF PublicId
  <2>2. Named(m) = Named(n) /\ s[m] = s[n]
    <3> DEFINE a == Named(m)
               b == Named(n)
    <3>1. a \in Seq(Nat \cup Words) /\ b \in Seq(Nat \cup Words)
      BY <1>1 DEF Texts
    <3> HIDE DEF a, b
    <3>2. Append(a, s[m]) = Append(b, s[n]) => a = b /\ s[m] = s[n]
      BY <3>1, Appended
    <3> QED
      BY <2>1, <3>2 DEF a, b
  <2> QED
    BY <2>2 DEF Apart
<1> QED
  BY <1>2, <1>3

(***************************************************************************)
(* The inductive invariant                                                 *)
(***************************************************************************)

\* What a synchronisation has merged is where the keys are, none of it is of a
\* calm key and none of those that it waits for is calm.
Merging ==
  \A j \in Jobs :
    /\ \A p \in job[j].merged : p[1].at = EndpointOf[p[2]] /\ p[2] \notin calm
    /\ job[j].waits \cap calm = {}

\* What it has merged has the positions of the switches that nobody touched.
Positioned ==
  \A j \in Jobs : \A m \in ModelsOf(job[j].merged) :
    m.id \in settled => (m \in job[j].on <=> m.id \notin switches)

Public == index \in Indexes(suffix) /\ Apart(suffix)

Good ==
  /\ TypeOK /\ Merging /\ Positioned /\ Public
  /\ CalmKeysOfferNothing /\ SettledSwitchHolds

\* A synchronisation that is not under way, or has just begun, has nothing.
LEMMA NothingMerged ==
  /\ Idle \in Tasks /\ Idle.waits = {} /\ Idle.merged = {} /\ Idle.on = {}
  /\ ModelsOf(Idle.merged) = {}
  /\ \A asked \in SUBSET Keys :
       /\ Begun(asked) \in Tasks /\ Begun(asked).busy = TRUE /\ Begun(asked).waits = asked
       /\ Begun(asked).merged = {} /\ Begun(asked).on = {} /\ ModelsOf(Begun(asked).merged) = {}
BY DEF Idle, Begun, Tasks, ModelsOf

LEMMA InitGood == Init => Good
<1> SUFFICES ASSUME Init PROVE Good
  OBVIOUS
<1>1. ModelsOf(offer) = {} /\ ModelsOf({}) = {}
  BY DEF Init, ModelsOf
<1>2. suffix \in [{} -> 0 .. Cardinality(Models)] /\ Apart(suffix)
  BY NumberedType, NumberedApart DEF Init
<1>3. \A j \in Jobs : job[j] = Idle
  BY DEF Init
<1>4. TypeOK
  BY <1>1, <1>2, <1>3, NothingMerged DEF Init, TypeOK
<1>5. Merging /\ Positioned /\ Public
  <2>1. \A j \in Jobs : job[j].waits = {} /\ job[j].merged = {} /\ ModelsOf(job[j].merged) = {}
    BY <1>3, NothingMerged
  <2> QED
    BY <1>2, <2>1 DEF Init, Merging, Positioned, Public
<1>6. CalmKeysOfferNothing /\ SettledSwitchHolds
  BY <1>1 DEF Init, CalmKeysOfferNothing, SettledSwitchHolds
<1> QED
  BY <1>4, <1>5, <1>6 DEF Good

LEMMA ModelsType ==
  ASSUME NEW P \in SUBSET Pairs
  PROVE  ModelsOf(P) \in SUBSET Models
BY DEF ModelsOf, Pairs

LEMMA StartGood ==
  ASSUME Good, NEW j \in Jobs, Start(j)
  PROVE  Good'
<1> USE DEF Good
<1>1. PICK asked \in SUBSET usable : job' = [job EXCEPT ![j] = Begun(asked)]
  BY DEF Start, FirstOf
<1>2. UNCHANGED <<usable, list, switches, history>>
  BY DEF Start
<1>3. asked \in SUBSET Keys /\ asked \cap calm = {}
  BY DEF TypeOK
<1>4. Begun(asked) \in Tasks
  BY <1>3, NothingMerged
<1>5. \A i \in Jobs : job'[i] = IF i = j THEN Begun(asked) ELSE job[i]
  BY <1>1 DEF TypeOK
<1>6. /\ Begun(asked).busy = TRUE /\ Begun(asked).waits = asked /\ Begun(asked).merged = {}
      /\ Begun(asked).on = {} /\ ModelsOf(Begun(asked).merged) = {}
  BY <1>3, NothingMerged
<1>7. job' \in [Jobs -> Tasks]
  BY <1>1, <1>4 DEF TypeOK
<1>8. TypeOK'
  BY <1>2, <1>5, <1>6, <1>7 DEF TypeOK, list, public, history
<1>9. Merging'
  BY <1>2, <1>3, <1>5, <1>6 DEF Merging, history
<1>10. Positioned'
  <2> SUFFICES ASSUME NEW i \in Jobs, NEW m \in ModelsOf(job'[i].merged), m.id \in settled
               PROVE  m \in job'[i].on <=> m.id \notin switches
    BY <1>2 DEF Positioned, history
  <2>1. i # j /\ job'[i] = job[i]
    BY <1>5, <1>6
  <2> QED
    BY <2>1 DEF Positioned
<1>11. Public' /\ CalmKeysOfferNothing' /\ SettledSwitchHolds'
  BY <1>2 DEF Public, CalmKeysOfferNothing, SettledSwitchHolds, list, public, history
<1> QED
  BY <1>8, <1>9, <1>10, <1>11

LEMMA PullGood ==
  ASSUME Good, NEW j \in Jobs, NEW k \in Keys, NEW ids \in SUBSET Ids, Pull(j, k, ids)
  PROVE  Good'
<1> DEFINE found == {[id |-> i, at |-> EndpointOf[k]] : i \in ids}
           fresh == found \ ModelsOf(job[j].merged)
           merged == job[j].merged \cup {<<m, k>> : m \in found}
           ons == job[j].on \cup {m \in fresh : m.id \notin switches}
           now == [busy |-> TRUE, waits |-> job[j].waits \ {k}, merged |-> merged, on |-> ons]
<1>1. k \in job[j].waits /\ job' = [job EXCEPT ![j] = now]
      /\ UNCHANGED <<usable, list, switches, history>>
  BY DEF Pull
<1>2. job[j] \in Tasks /\ job[j].on \subseteq ModelsOf(job[j].merged)
  BY DEF Good, TypeOK
<1>3. found \in SUBSET Models /\ \A m \in found : m.at = EndpointOf[k]
  BY DEF Models, Endpoints
<1>4. merged \in SUBSET Pairs
  BY <1>2, <1>3 DEF Tasks, Pairs
<1>5. ModelsOf(merged) = ModelsOf(job[j].merged) \cup found
  <2>1. ASSUME NEW m \in ModelsOf(merged) PROVE m \in ModelsOf(job[j].merged) \cup found
    BY DEF ModelsOf
  <2>2. ASSUME NEW m \in found PROVE m \in ModelsOf(merged)
    <3>1. <<m, k>> \in merged /\ <<m, k>>[1] = m
      BY <2>2
    <3> QED
      BY <3>1 DEF ModelsOf
  <2>3. ASSUME NEW m \in ModelsOf(job[j].merged) PROVE m \in ModelsOf(merged)
    BY DEF ModelsOf
  <2> QED
    BY <2>1, <2>2, <2>3
<1>6. ons \in SUBSET Models /\ ons \subseteq ModelsOf(merged)
  BY <1>2, <1>3, <1>5 DEF Tasks
<1>7. now \in Tasks
  BY <1>2, <1>4, <1>6 DEF Tasks
<1>8. \A p \in merged : p[1].at = EndpointOf[p[2]] /\ p[2] \notin calm
  <2>1. k \notin calm
    BY <1>1 DEF Good, Merging
  <2>2. \A p \in job[j].merged : p[1].at = EndpointOf[p[2]] /\ p[2] \notin calm
    BY DEF Good, Merging
  <2> QED
    BY <1>3, <2>1, <2>2
<1>9. \A m \in ModelsOf(merged) : m.id \in settled => (m \in ons <=> m.id \notin switches)
  BY <1>2, <1>5 DEF Good, Positioned
<1>10. now.merged = merged /\ now.on = ons /\ now.waits = job[j].waits \ {k} /\ now.busy = TRUE
  OBVIOUS
<1> HIDE DEF found, fresh, merged, ons, now
<1> USE DEF Good
<1>11. \A i \in Jobs : job'[i] = IF i = j THEN now ELSE job[i]
  BY <1>1 DEF TypeOK
<1>12. TypeOK'
  BY <1>1, <1>6, <1>7, <1>10, <1>11 DEF TypeOK, list, public, history
<1>13. Merging'
  BY <1>1, <1>8, <1>10, <1>11 DEF Merging, history
<1>14. Positioned'
  BY <1>1, <1>9, <1>10, <1>11 DEF Positioned, history
<1>15. Public' /\ CalmKeysOfferNothing' /\ SettledSwitchHolds'
  BY <1>1 DEF Public, CalmKeysOfferNothing, SettledSwitchHolds, list, public, history
<1> QED
  BY <1>12, <1>13, <1>14, <1>15

LEMMA FinishGood ==
  ASSUME Good, NEW j \in Jobs, Finish(j)
  PROVE  Good'
<1> USE DEF Good
<1>1. /\ offer' = job[j].merged /\ on' = job[j].on
      /\ suffix' = Numbered(ModelsOf(offer')) /\ index' \in Indexes(suffix')
      /\ job' = [job EXCEPT ![j] = Idle]
      /\ UNCHANGED <<usable, switches, history>>
  BY DEF Finish
<1>2. job[j] \in Tasks /\ job[j].on \subseteq ModelsOf(job[j].merged)
  BY DEF TypeOK
<1>3. ModelsOf(offer') \in SUBSET Models
  BY <1>1, <1>2, ModelsType DEF Tasks
<1>4. suffix' \in [ModelsOf(offer') -> 0 .. Cardinality(Models)] /\ Apart(suffix')
  BY <1>1, <1>3, NumberedType, NumberedApart
<1>5. \A i \in Jobs : job'[i] = IF i = j THEN Idle ELSE job[i]
  BY <1>1 DEF TypeOK
<1>7. job' \in [Jobs -> Tasks]
  BY <1>1, NothingMerged DEF TypeOK
<1>9. TypeOK'
  <2>1. offer' \in SUBSET Pairs /\ on' \in SUBSET ModelsOf(offer')
    BY <1>1, <1>2 DEF Tasks
  <2>2. \A p \in offer' : p[1].at = EndpointOf[p[2]]
    BY <1>1 DEF Merging
  <2>3. \A i \in Jobs : job'[i].on \subseteq ModelsOf(job'[i].merged) /\ (job'[i].busy \/ job'[i] = Idle)
    BY <1>5, NothingMerged DEF TypeOK
  <2> QED
    BY <1>1, <1>4, <1>7, <2>1, <2>2, <2>3 DEF TypeOK, history
<1>10. Merging'
  BY <1>1, <1>5, NothingMerged DEF Merging, history
<1>11. Positioned'
  <2> SUFFICES ASSUME NEW i \in Jobs, NEW m \in ModelsOf(job'[i].merged), m.id \in settled
               PROVE  m \in job'[i].on <=> m.id \notin switches
    BY <1>1 DEF Positioned, history
  <2>1. i # j /\ job'[i] = job[i]
    BY <1>5, NothingMerged
  <2> QED
    BY <2>1 DEF Positioned
<1>12. Public'
  BY <1>1, <1>4 DEF Public
<1>13. CalmKeysOfferNothing' /\ SettledSwitchHolds'
  BY <1>1 DEF Merging, Positioned, CalmKeysOfferNothing, SettledSwitchHolds, history
<1> QED
  BY <1>9, <1>10, <1>11, <1>12, <1>13

LEMMA StopGood ==
  ASSUME Good, NEW k \in Keys, Stop(k)
  PROVE  Good'
<1> USE DEF Good
<1>1. /\ usable' = usable \ {k} /\ offer' = {p \in offer : p[2] # k}
      /\ on' = on \cap ModelsOf(offer')
      /\ suffix' = [m \in ModelsOf(offer') |-> suffix[m]] /\ index' \in Indexes(suffix')
      /\ calm' = IF Busy = {} THEN calm \cup {k} ELSE calm \ {k}
      /\ UNCHANGED <<switches, job, settled>>
  BY DEF Stop, Restrict
<1>2. ModelsOf(offer') \subseteq ModelsOf(offer)
  BY <1>1 DEF ModelsOf
<1>3. suffix' \in [ModelsOf(offer') -> 0 .. Cardinality(Models)]
  BY <1>1, <1>2 DEF TypeOK
<1>4. Apart(suffix')
  BY <1>1, <1>2 DEF Apart, Public, TypeOK
<1>5. TypeOK'
  <2>1. offer' \in SUBSET Pairs /\ on' \in SUBSET ModelsOf(offer')
    BY <1>1 DEF TypeOK
  <2>2. usable' \in SUBSET Keys /\ calm' \in SUBSET (Keys \ usable')
    BY <1>1 DEF TypeOK
  <2>3. \A p \in offer' : p[1].at = EndpointOf[p[2]]
    BY <1>1 DEF TypeOK
  <2> QED
    BY <1>1, <1>3, <2>1, <2>2, <2>3 DEF TypeOK
<1>6. Merging'
  <2>1. CASE Busy = {}
    <3>1. \A j \in Jobs : job[j] = Idle
      BY <2>1 DEF Busy, TypeOK
    <3> QED
      BY <1>1, <3>1, NothingMerged DEF Merging
  <2>2. CASE Busy # {}
    BY <1>1, <2>2 DEF Merging
  <2> QED
    BY <2>1, <2>2
<1>7. Positioned' /\ Public'
  BY <1>1, <1>4 DEF Positioned, Public
<1>8. CalmKeysOfferNothing'
  BY <1>1 DEF CalmKeysOfferNothing
<1>9. SettledSwitchHolds'
  BY <1>1, <1>2 DEF SettledSwitchHolds
<1> QED
  BY <1>5, <1>6, <1>7, <1>8, <1>9

LEMMA TurnGood ==
  ASSUME Good, NEW chosen \in SUBSET ModelsOf(offer), NEW off \in BOOLEAN, Turn(chosen, off)
  PROVE  Good'
<1> DEFINE ids == IdsOf(chosen)
           whole == WholeIds(chosen)
<1>1. /\ switches' = IF off THEN switches \cup ids ELSE switches \ ids
      /\ on' = IF off THEN on \ chosen ELSE on \cup chosen
      /\ settled' = (settled \ ids) \cup (IF Busy = {} THEN whole ELSE {})
      /\ UNCHANGED <<usable, offer, public, job, calm>>
  BY DEF Turn
<1>2. ids \in SUBSET Ids
  BY ModelsType DEF Good, TypeOK, Models, IdsOf
<1>3. \A m \in chosen : m.id \in ids
  BY DEF IdsOf
<1>w. whole \subseteq ids /\ \A m \in ModelsOf(offer) : m.id \in whole => m \in chosen
  BY DEF WholeIds
<1> HIDE DEF ids, whole
<1> USE DEF Good
<1>4. TypeOK'
  BY <1>1, <1>2, <1>w DEF TypeOK, public
<1>5. Merging' /\ Public' /\ CalmKeysOfferNothing'
  BY <1>1 DEF Merging, Public, CalmKeysOfferNothing, public
<1>6. Positioned'
  <2>1. CASE Busy = {}
    <3>1. \A j \in Jobs : job[j] = Idle
      BY <2>1 DEF Busy, TypeOK
    <3>2. \A j \in Jobs : ModelsOf(job[j].merged) = {}
      BY <3>1, NothingMerged
    <3> QED
      BY <1>1, <3>2 DEF Positioned
  <2>2. CASE Busy # {}
    BY <1>1, <2>2, <1>w DEF Positioned
  <2> QED
    BY <2>1, <2>2
<1>7. SettledSwitchHolds'
  <2> SUFFICES ASSUME NEW m \in ModelsOf(offer), m.id \in settled' PROVE m \in on' <=> m.id \notin switches'
    BY <1>1 DEF SettledSwitchHolds
  <2>1. CASE m.id \in ids
    <3>1. m \in chosen
      BY <1>1, <1>w, <2>1
    <3> QED
      BY <1>1, <2>1, <3>1
  <2>2. CASE m.id \notin ids
    <3>1. m \notin chosen /\ m.id \in settled
      BY <1>1, <1>3, <1>w, <2>2
    <3> QED
      BY <1>1, <2>2, <3>1 DEF SettledSwitchHolds
  <2> QED
    BY <2>1, <2>2
<1> QED
  BY <1>4, <1>5, <1>6, <1>7

LEMMA RestartGood ==
  ASSUME Good, Restart
  PROVE  Good'
<1> USE DEF Good
<1>1. /\ on' = {m \in ModelsOf(offer) : m.id \notin switches}
      /\ suffix' = Numbered(ModelsOf(offer)) /\ index' \in Indexes(suffix')
      /\ job' = [j \in Jobs |-> Idle] /\ settled' = Ids
      /\ UNCHANGED <<usable, offer, switches, calm>>
  BY DEF Restart
<1>2. suffix' \in [ModelsOf(offer) -> 0 .. Cardinality(Models)] /\ Apart(suffix')
  BY <1>1, ModelsType, NumberedType, NumberedApart DEF TypeOK
<1>3. \A j \in Jobs : job'[j] = Idle
  BY <1>1
<1>4. TypeOK'
  BY <1>1, <1>2, <1>3, NothingMerged DEF TypeOK
<1>5. Merging' /\ Positioned' /\ Public'
  BY <1>1, <1>2, <1>3, NothingMerged DEF Merging, Positioned, Public
<1>6. CalmKeysOfferNothing' /\ SettledSwitchHolds'
  BY <1>1 DEF CalmKeysOfferNothing, SettledSwitchHolds
<1> QED
  BY <1>4, <1>5, <1>6

LEMMA GoodStep == Good /\ [Next]_vars => Good'
<1> SUFFICES ASSUME Good, [Next]_vars PROVE Good'
  OBVIOUS
<1>1. ASSUME NEW j \in Jobs, Start(j) \/ Finish(j) PROVE Good'
  BY <1>1, StartGood, FinishGood
<1>2. ASSUME NEW j \in Jobs, NEW k \in Keys, NEW ids \in AnswersOf[k], Pull(j, k, ids) PROVE Good'
  <2>1. ids \in SUBSET Ids
    BY SyncAssumption
  <2> QED
    BY <1>2, <2>1, PullGood
<1>3. ASSUME NEW k \in Keys, Stop(k) PROVE Good'
  BY <1>3, StopGood
<1>4. ASSUME NEW k \in Keys, Suspend(k) \/ Resume(k) PROVE Good'
  BY <1>4 DEF Good, Suspend, Resume, list, public, history, TypeOK, Merging, Positioned, Public,
              CalmKeysOfferNothing, SettledSwitchHolds
<1>5. ASSUME NEW off \in BOOLEAN, Switch(off) PROVE Good'
  <2>1. \E chosen \in SUBSET ModelsOf(offer) : Turn(chosen, off)
    BY <1>5 DEF Switch
  <2> QED
    BY <2>1, TurnGood
<1>6. CASE Restart
  BY <1>6, RestartGood
<1>7. CASE UNCHANGED vars
  BY <1>7 DEF Good, vars, list, public, history, TypeOK, Merging, Positioned, Public,
              CalmKeysOfferNothing, SettledSwitchHolds
<1> QED
  BY <1>1, <1>2, <1>3, <1>4, <1>5, <1>6, <1>7 DEF Next

LEMMA AlwaysGood == Spec => []Good
BY InitGood, GoodStep, PTL DEF Spec

(***************************************************************************)
(* The theorems                                                            *)
(***************************************************************************)

\* Every variable of ModelSync keeps its type, and no suffix is greater than the
\* number of models there can be.
THEOREM SyncTypeCorrect == Spec => []TypeOK
<1>1. Good => TypeOK
  BY DEF Good
<1> QED
  BY <1>1, AlwaysGood, PTL

\* However many synchronisations overlap, and however they end: a key stopped
\* while none was under way offers nothing until it is ACTIVE again.
THEOREM StoppedKeysOfferNothing == Spec => []CalmKeysOfferNothing
<1>1. Good => CalmKeysOfferNothing
  BY DEF Good
<1> QED
  BY <1>1, AlwaysGood, PTL

\* However many synchronisations follow: a switch turned by its id while none
\* was under way holds.
THEOREM SwitchesHold == Spec => []SettledSwitchHolds
<1>1. Good => SettledSwitchHolds
  BY DEF Good
<1> QED
  BY <1>1, AlwaysGood, PTL

\* For any names, ids and endpoints, hyphens and numbers in them included: every
\* public id in use finds a listed model that bears it, and two models share one
\* only if one of them has no number and ends in the number of the other.
THEOREM PublicIdsFindListedModels == Spec => []PublicIdsFindTheirModels
<1>1. Good => PublicIdsFindTheirModels
  <2> SUFFICES ASSUME Good PROVE PublicIdsFindTheirModels
    OBVIOUS
  <2>1. DOMAIN suffix = ModelsOf(offer) /\ index \in Indexes(suffix) /\ Apart(suffix)
    BY DEF Good, TypeOK, Public
  <2>2. ModelsOf(offer) \subseteq Models
    BY ModelsType DEF Good, TypeOK
  <2>3. /\ DOMAIN index = PublicIds(suffix)
        /\ \A d \in DOMAIN index :
             index[d] \in ModelsOf(offer) /\ PublicId(suffix, index[d]) = d
    BY <2>1 DEF Indexes
  <2>4. \A m, x \in ModelsOf(offer) :
          m # x /\ PublicId(suffix, m) = PublicId(suffix, x) => (suffix[m] = 0) # (suffix[x] = 0)
    BY <2>1, <2>2, SharedPublicId
  <2> QED
    BY <2>3, <2>4 DEF PublicIdsFindTheirModels
<1> QED
  BY <1>1, AlwaysGood, PTL
=============================================================================
