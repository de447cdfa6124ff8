----------------------------- MODULE ModelSync -----------------------------
(***************************************************************************)
(* services/sync.py: the list of models, pulled from the upstream of every *)
(* ACTIVE key and offered to clients, and the switch of each model id.     *)
(*                                                                         *)
(* A synchronisation (auto_sync_loop, POST /api/sync, or the task that a   *)
(* re-enabled key starts) filters the keys first, then awaits one answer   *)
(* per key, and at last replaces the whole list; meanwhile an administra-  *)
(* tor stops or deletes keys, which takes their models off the list, and   *)
(* turns switches.  Nothing keeps two synchronisations apart.              *)
(*                                                                         *)
(* A model of the list is an id at an endpoint: the name and the base URL  *)
(* of the keys that provide it.  The list is the relation "offer" between  *)
(* models and the keys in their source_keys.                               *)
(*                                                                         *)
(* Clients know a model by its public id, which joins the name, the id and *)
(* perhaps a number by hyphens.  Names and ids may hold hyphens too: they  *)
(* are texts, a text is the sequence of what stands between its hyphens,   *)
(* and joining two texts is to append one to the other.  A number that     *)
(* stands between hyphens is that number, the rest are Words.              *)
(*                                                                         *)
(* The list and the switches are written to the database whenever they     *)
(* change, before anything else runs; here those writes succeed, so that   *)
(* the database holds what the memory holds.                               *)
(***************************************************************************)
EXTENDS Naturals, FiniteSets, Sequences, Functions

CONSTANTS
  Keys,
  Words,       \* what stands between hyphens and is not a number
  Ids,         \* model ids of the upstreams, numbered in the order of their texts
  TextOf,      \* the text of each id
  EndpointOf,  \* the name (a text) and the base URL (numbered in order) of each key
  AnswersOf,   \* the sets of ids that the upstream of each key may answer with,
               \* among them the empty one if it may fail
  Switched,    \* bound: the texts whose switch the console turns
  Jobs,        \* bound: synchronisations under way at a time
  PullLimit    \* the number of keys a synchronisation asks (20)

Texts == Seq(Nat \cup Words)

ASSUME SyncAssumption ==
  /\ EndpointOf = [k \in Keys |-> EndpointOf[k]]
  /\ \A k \in Keys : EndpointOf[k].base \in Nat /\ EndpointOf[k].name \in Texts
  /\ AnswersOf \in [Keys -> SUBSET SUBSET Ids]
  /\ PullLimit \in Nat
ASSUME IdAssumption ==
  /\ Ids \subseteq Nat /\ IsFiniteSet(Ids)
  /\ TextOf \in [Ids -> Texts]
  /\ \A i, j \in Ids : TextOf[i] = TextOf[j] => i = j
ASSUME FiniteAssumption == IsFiniteSet(Keys)

\* An endpoint is a name and a base URL.
ASSUME EndpointAssumption ==
  \A k, l \in Keys :
    EndpointOf[k].name = EndpointOf[l].name /\ EndpointOf[k].base = EndpointOf[l].base
      => EndpointOf[k] = EndpointOf[l]

VARIABLES
  usable,     \* the keys that are ACTIVE
  offer,      \* _models: the pairs <<model, key in its source_keys>>
  on,         \* the models of the list that are enabled
  suffix,     \* the number at the end of each model's public id, 0 for none
  index,      \* _public_index: the model that each public id finds
  switches,   \* _states: the ids that are switched off
  job         \* what each synchronisation waits for and has merged

\* History: the keys that the console stopped while no synchronisation was
\* under way, and that were not ACTIVE since; the ids of which all models were
\* turned last while no synchronisation was under way, or none ever was.
VARIABLES calm, settled

public == <<suffix, index>>
list == <<offer, on, public>>
history == <<calm, settled>>
vars == <<usable, list, switches, job, history>>

Endpoints == {EndpointOf[k] : k \in Keys}
Models == [id : Ids, at : Endpoints]
Pairs == Models \X Keys
ModelsOf(pairs) == {p[1] : p \in pairs}

\* {name}-{id}, the public id of a model that needs no number.
Named(m) == m.at.name \o TextOf[m.id]

\* The order in which models of one {name}-{id} are numbered.
UpTo(x, m) == x.at.base < m.at.base \/ (x.at.base = m.at.base /\ x.id <= m.id)

\* _assign_public_ids: models of one {name}-{id} are numbered.
Numbered(models) ==
  [m \in models |->
     LET same == {x \in models : Named(x) = Named(m)} IN
     IF same = {m} THEN 0 ELSE Cardinality({x \in same : UpTo(x, m)})]

\* The public id of model m under the numbers s.
PublicId(s, m) == IF s[m] = 0 THEN Named(m) ELSE Append(Named(m), s[m])
PublicIds(s) == {PublicId(s, m) : m \in DOMAIN s}

\* _rebuild_public_index, a dictionary by public id: of several models with one
\* public id it keeps one, the last in the order of the list, which is that of
\* the answers, or of the rows in the database.
Indexes(s) ==
  {f \in [PublicIds(s) -> DOMAIN s] : \A d \in PublicIds(s) : PublicId(s, f[d]) = d}

Tasks == [busy : BOOLEAN, waits : SUBSET Keys, merged : SUBSET Pairs, on : SUBSET Models]
Idle == [busy |-> FALSE, waits |-> {}, merged |-> {}, on |-> {}]
Begun(asked) == [busy |-> TRUE, waits |-> asked, merged |-> {}, on |-> {}]
Busy == {j \in Jobs : job[j].busy}

\* A model is at the endpoint of every key that provides it, and only models
\* of the list have a switch position.
TypeOK ==
  /\ usable \in SUBSET Keys /\ switches \in SUBSET Ids
  /\ offer \in SUBSET Pairs /\ on \in SUBSET ModelsOf(offer)
  /\ \A p \in offer : p[1].at = EndpointOf[p[2]]
  /\ suffix \in [ModelsOf(offer) -> 0 .. Cardinality(Models)]
  /\ job \in [Jobs -> Tasks]
  /\ \A j \in Jobs :
       /\ job[j].on \subseteq ModelsOf(job[j].merged)
       /\ job[j].busy \/ job[j] = Idle
  /\ calm \in SUBSET (Keys \ usable) /\ settled \in SUBSET Ids

Init ==
  /\ usable \in SUBSET Keys
  /\ offer = {} /\ on = {} /\ switches = {}
  /\ suffix = Numbered({}) /\ index \in Indexes(suffix)
  /\ job = [j \in Jobs |-> Idle]
  /\ calm = {} /\ settled = Ids

(***************************************************************************)
(* Synchronisation                                                         *)
(***************************************************************************)

\* keys[:20], in the order of the key list, which may be any.
FirstOf(keys) ==
  IF Cardinality(keys) <= PullLimit
  THEN {keys}
  ELSE {asked \in SUBSET keys : Cardinality(asked) = PullLimit}

\* Mutant of Start: the keys are not filtered.
StartWithAll(j) ==
  /\ ~job[j].busy
  /\ \E asked \in FirstOf(Keys) :
       job' = [job EXCEPT ![j] = Begun(asked)]
  /\ UNCHANGED <<usable, list, switches, history>>

\* Only ACTIVE keys are asked, and the first PullLimit of them.
Start(j) ==
  /\ ~job[j].busy
  /\ \E asked \in FirstOf(usable) :
       job' = [job EXCEPT ![j] = Begun(asked)]
  /\ UNCHANGED <<usable, list, switches, history>>

\* The upstream of key k answers with some ids; none if it fails.  A model
\* that another key brought already keeps the switch position it was given.
Pull(j, k, ids) ==
  /\ k \in job[j].waits
  /\ LET found == {[id |-> i, at |-> EndpointOf[k]] : i \in ids}
         fresh == found \ ModelsOf(job[j].merged) IN
     job' = [job EXCEPT ![j] =
               [busy |-> TRUE,
                waits |-> job[j].waits \ {k},
                merged |-> job[j].merged \cup {<<m, k>> : m \in found},
                on |-> job[j].on \cup {m \in fresh : m.id \notin switches}]]
  /\ UNCHANGED <<usable, list, switches, history>>

Finish(j) ==
  /\ job[j].busy /\ job[j].waits = {}
  /\ offer' = job[j].merged
  /\ on' = job[j].on
  /\ suffix' = Numbered(ModelsOf(offer')) /\ index' \in Indexes(suffix')
  /\ job' = [job EXCEPT ![j] = Idle]
  /\ UNCHANGED <<usable, switches, history>>

(***************************************************************************)
(* Keys                                                                    *)
(***************************************************************************)

\* Mutant of Stop: the models go and their switch positions stay.
StopKeepsPosition(k) ==
  /\ usable' = usable \ {k}
  /\ offer' = {p \in offer : p[2] # k}
  /\ suffix' = Restrict(suffix, ModelsOf(offer')) /\ index' \in Indexes(suffix')
  /\ calm' = IF Busy = {} THEN calm \cup {k} ELSE calm \ {k}
  /\ UNCHANGED <<on, switches, job, settled>>

\* Mutant of Stop: the index still finds the models that are gone.
StopKeepsIndex(k) ==
  /\ usable' = usable \ {k}
  /\ offer' = {p \in offer : p[2] # k}
  /\ on' = on \cap ModelsOf(offer')
  /\ suffix' = Restrict(suffix, ModelsOf(offer'))
  /\ calm' = IF Busy = {} THEN calm \cup {k} ELSE calm \ {k}
  /\ UNCHANGED <<index, switches, job, settled>>

\* The console disables or deletes the key: remove_by_key.  The public ids of
\* the models that stay are left as they are.
Stop(k) ==
  /\ usable' = usable \ {k}
  /\ offer' = {p \in offer : p[2] # k}
  /\ on' = on \cap ModelsOf(offer')
  /\ suffix' = Restrict(suffix, ModelsOf(offer')) /\ index' \in Indexes(suffix')
  /\ calm' = IF Busy = {} THEN calm \cup {k} ELSE calm \ {k}
  /\ UNCHANGED <<switches, job, settled>>

\* A failure or an exhausted quota stops the key; its models stay.
Suspend(k) ==
  /\ usable' = usable \ {k}
  /\ UNCHANGED <<list, switches, job, history>>

\* It is enabled, tested, recovered, or answers a request that still holds it.
Resume(k) ==
  /\ usable' = usable \cup {k}
  /\ calm' = calm \ {k}
  /\ UNCHANGED <<list, switches, job, settled>>

(***************************************************************************)
(* Switches                                                                *)
(***************************************************************************)

\* The ids of the models chosen, and those of them all of whose models are.
IdsOf(chosen) == {m.id : m \in chosen}
WholeIds(chosen) ==
  {i \in IdsOf(chosen) : \A m \in ModelsOf(offer) : m.id = i => m \in chosen}

\* Mutant of Turn: the switch is remembered and the list is left.
TurnLater(chosen, off) ==
  /\ chosen # {}
  /\ switches' = IF off THEN switches \cup IdsOf(chosen) ELSE switches \ IdsOf(chosen)
  /\ settled' = (settled \ IdsOf(chosen)) \cup (IF Busy = {} THEN WholeIds(chosen) ELSE {})
  /\ UNCHANGED <<usable, list, job, calm>>

\* set_enabled for the models chosen; what is remembered is their ids.
Turn(chosen, off) ==
  /\ chosen # {}
  /\ switches' = IF off THEN switches \cup IdsOf(chosen) ELSE switches \ IdsOf(chosen)
  /\ on' = IF off THEN on \ chosen ELSE on \cup chosen
  /\ settled' = (settled \ IdsOf(chosen)) \cup (IF Busy = {} THEN WholeIds(chosen) ELSE {})
  /\ UNCHANGED <<usable, offer, public, job, calm>>

\* PUT /api/models/{id}: the text is taken for an upstream's id and a public id.
Switch(off) ==
  \E text \in Switched :
    Turn({m \in ModelsOf(offer) : text \in {TextOf[m.id], PublicId(suffix, m)}}, off)

(***************************************************************************)
(* Restart                                                                 *)
(***************************************************************************)

\* _load_cached_models: the list comes back with the remembered switches,
\* and the public ids are given anew.
Restart ==
  /\ on' = {m \in ModelsOf(offer) : m.id \notin switches}
  /\ suffix' = Numbered(ModelsOf(offer)) /\ index' \in Indexes(suffix')
  /\ job' = [j \in Jobs |-> Idle]
  /\ settled' = Ids
  /\ UNCHANGED <<usable, offer, switches, calm>>

Next ==
  \/ \E j \in Jobs : Start(j) \/ Finish(j)
  \/ \E j \in Jobs, k \in Keys : \E ids \in AnswersOf[k] : Pull(j, k, ids)
  \/ \E k \in Keys : Stop(k) \/ Suspend(k) \/ Resume(k)
  \/ \E off \in BOOLEAN : Switch(off)
  \/ Restart

Spec == Init /\ [][Next]_vars
-----------------------------------------------------------------------------
(***************************************************************************)
(* Properties                                                              *)
(***************************************************************************)

\* A key that the console stops while no synchronisation is under way offers
\* no model until it is ACTIVE again, whatever synchronisations and restarts
\* follow, and in whatever order they end.
CalmKeysOfferNothing == \A p \in offer : p[2] \notin calm

\* A switch turned by its id while no synchronisation is under way holds for
\* every model of that id, now and after every later synchronisation.
SettledSwitchHolds ==
  \A m \in ModelsOf(offer) : m.id \in settled => (m \in on <=> m.id \notin switches)

\* sync.py:190-212, however keys are stopped and models listed anew: the public
\* ids are those of the models of the list, each finds a listed model that bears
\* it, and never one that has left the list.  Two models share a public id only
\* when one of them, alone with its {name}-{id}, ends in the number that the
\* other was given; every other model is found by its own public id.
PublicIdsFindTheirModels ==
  /\ DOMAIN index = PublicIds(suffix)
  /\ \A d \in DOMAIN index : index[d] \in ModelsOf(offer) /\ PublicId(suffix, index[d]) = d
  /\ \A m, x \in ModelsOf(offer) :
       m # x /\ PublicId(suffix, m) = PublicId(suffix, x) => (suffix[m] = 0) # (suffix[x] = 0)
=============================================================================
