------------------------------ MODULE KeyStore ------------------------------
(***************************************************************************)
(* Where a key lives: the object in KeyManager, its row in the database,   *)
(* and the rows on their way there.  The console and the key tests write   *)
(* the row themselves (_persist, update_key, delete_key); what requests    *)
(* and recovery change is queued for the writer thread (_persist_async).   *)
(*                                                                         *)
(* A key is two counters: edit counts the changes made by synchronous      *)
(* writers (an edit, a status, a test verdict), use those made by          *)
(* asynchronous ones (an outcome, the usage, a recovery).  Rows are whole  *)
(* records.  As BatchWriter stores the rows of a kind in order, of several *)
(* rows of one key in the queue only the last matters, and only it is kept.*)
(***************************************************************************)
EXTENDS Integers

CONSTANTS
  Keys,
  MaxEdits,     \* bound: synchronous changes of a key
  MaxUses,      \* bound: asynchronous changes of a key
  MaxRefs       \* bound: requests and tests that refer to a key at a time

ASSUME CountAssumption == MaxEdits \in Nat /\ MaxUses \in Nat /\ MaxRefs \in Nat

VARIABLES
  object,   \* object[k]: the key object
  cached,   \* the ids in KeyManager._cache
  born,     \* the ids handed out
  refs,     \* requests that refer to the object
  tests,    \* key tests awaiting their answer
  queued,   \* queued[k]: the last row of k in _batch_pending
  taken,    \* taken[k]: the last row of k in the batch being written
  db        \* db[k]: the row of k in api_keys

\* History: the edit count of the last synchronous write that succeeded and
\* found no row of the key on its way; whether the key
\* was deleted, and deleted with nothing of it on its way.  refused holds the
\* keys of which a batch discarded a row that no later row has replaced.
VARIABLES safe, deleted, safelyDeleted, refused

history == <<safe, deleted, safelyDeleted, refused>>
vars == <<object, cached, born, refs, tests, queued, taken, db, history>>

Records == [edit : 0 .. MaxEdits, use : 0 .. MaxUses]
NoRow == [edit |-> -1, use |-> -1]
Rows == Records \cup {NoRow}

New == [edit |-> 0, use |-> 0]

TypeOK ==
  /\ object \in [Keys -> Records]
  /\ cached \in SUBSET born /\ born \in SUBSET Keys
  /\ refs \in [Keys -> 0 .. MaxRefs] /\ tests \in [Keys -> 0 .. MaxRefs]
  /\ queued \in [Keys -> Rows] /\ taken \in [Keys -> Rows] /\ db \in [Keys -> Rows]
  /\ safe \in [Keys -> 0 .. MaxEdits]
  /\ deleted \in SUBSET born /\ safelyDeleted \in SUBSET deleted
  /\ refused \in SUBSET Keys

Init ==
  /\ object = [k \in Keys |-> New]
  /\ cached = {} /\ born = {}
  /\ refs = [k \in Keys |-> 0] /\ tests = [k \in Keys |-> 0]
  /\ queued = [k \in Keys |-> NoRow] /\ taken = queued /\ db = queued
  /\ safe = [k \in Keys |-> 0]
  /\ deleted = {} /\ safelyDeleted = {} /\ refused = {}

OnItsWay(k) == queued[k] # NoRow \/ taken[k] # NoRow

Changed(r) == [edit |-> r.edit + 1, use |-> r.use]
Used(r) == [edit |-> r.edit, use |-> r.use + 1]

\* The bookkeeping of a synchronous write of k.
Promise(k) ==
  /\ safe' = IF OnItsWay(k) THEN safe ELSE [safe EXCEPT ![k] = object[k].edit + 1]
  /\ refused' = refused \ {k}
  /\ UNCHANGED <<deleted, safelyDeleted>>

(***************************************************************************)
(* Synchronous writers                                                     *)
(***************************************************************************)

\* add_key: the row first, then the cache; a failed write leaves no trace.
Add(k) ==
  /\ k \notin born
  /\ object' = [object EXCEPT ![k] = New]
  /\ db' = [db EXCEPT ![k] = New]
  /\ born' = born \cup {k}
  /\ cached' = cached \cup {k}
  /\ UNCHANGED <<refs, tests, queued, taken, history>>

\* Mutant of Edit: the row is queued instead of written.
EditQueued(k, written) ==
  /\ k \in cached
  /\ object[k].edit < MaxEdits
  /\ object' = [object EXCEPT ![k] = Changed(@)]
  /\ IF written
     THEN queued' = [queued EXCEPT ![k] = Changed(object[k])] /\ Promise(k)
     ELSE UNCHANGED <<queued, history>>
  /\ UNCHANGED <<cached, born, refs, tests, taken, db>>

\* update_key, set_status: the object is changed before the row is written, so
\* a write that fails (the database is locked) leaves it changed all the same.
Edit(k, written) ==
  /\ k \in cached
  /\ object[k].edit < MaxEdits
  /\ object' = [object EXCEPT ![k] = Changed(@)]
  /\ IF written
     THEN db' = [db EXCEPT ![k] = Changed(object[k])] /\ Promise(k)
     ELSE UNCHANGED <<db, history>>
  /\ UNCHANGED <<cached, born, refs, tests, queued, taken>>

Delete(k) ==
  /\ k \in cached
  /\ db' = [db EXCEPT ![k] = NoRow]
  /\ cached' = cached \ {k}
  /\ deleted' = deleted \cup {k}
  /\ safelyDeleted' = IF OnItsWay(k) \/ refs[k] > 0 \/ tests[k] > 0
                      THEN safelyDeleted ELSE safelyDeleted \cup {k}
  /\ UNCHANGED <<object, born, refs, tests, queued, taken, safe, refused>>

StartTest(k) ==
  /\ k \in cached
  /\ tests[k] < MaxRefs
  /\ tests' = [tests EXCEPT ![k] = @ + 1]
  /\ UNCHANGED <<object, cached, born, refs, queued, taken, db, history>>

FinishTest(k, written) ==
  /\ tests[k] > 0
  /\ object[k].edit < MaxEdits
  /\ tests' = [tests EXCEPT ![k] = @ - 1]
  /\ object' = [object EXCEPT ![k] = Changed(@)]
  /\ IF written
     THEN /\ db' = [db EXCEPT ![k] = Changed(object[k])]
          /\ cached' = cached \cup {k}
          /\ Promise(k)
     ELSE UNCHANGED <<db, cached, history>>
  /\ UNCHANGED <<born, refs, queued, taken>>

(***************************************************************************)
(* Asynchronous writers                                                    *)
(***************************************************************************)

\* A request takes a reference to the object.
Begin(k) ==
  /\ k \in cached
  /\ refs[k] < MaxRefs
  /\ refs' = [refs EXCEPT ![k] = @ + 1]
  /\ UNCHANGED <<object, cached, born, tests, queued, taken, db, history>>

\* Its outcome and usage change the object, and a copy of it is queued.
Finish(k) ==
  /\ refs[k] > 0
  /\ object[k].use < MaxUses
  /\ refs' = [refs EXCEPT ![k] = @ - 1]
  /\ object' = [object EXCEPT ![k] = Used(@)]
  /\ queued' = [queued EXCEPT ![k] = Used(object[k])]
  /\ cached' = cached \cup {k}
  /\ UNCHANGED <<born, tests, taken, db, history>>

\* Mutant of Release: a reference is given back twice.
ReleaseTwice(k) ==
  /\ refs[k] > 0
  /\ refs' = [refs EXCEPT ![k] = @ - 2]
  /\ UNCHANGED <<object, cached, born, tests, queued, taken, db, history>>

\* The request ends without an outcome for the key.
Release(k) ==
  /\ refs[k] > 0
  /\ refs' = [refs EXCEPT ![k] = @ - 1]
  /\ UNCHANGED <<object, cached, born, tests, queued, taken, db, history>>

\* Mutant of Recover: deleted keys recover too.
RecoverAny(k) ==
  /\ k \in born
  /\ object[k].use < MaxUses
  /\ object' = [object EXCEPT ![k] = Used(@)]
  /\ queued' = [queued EXCEPT ![k] = Used(object[k])]
  /\ cached' = cached \cup {k}
  /\ UNCHANGED <<born, refs, tests, taken, db, history>>

\* list_active recovers a cached key, whether a request uses it or not.
Recover(k) ==
  /\ k \in cached
  /\ object[k].use < MaxUses
  /\ object' = [object EXCEPT ![k] = Used(@)]
  /\ queued' = [queued EXCEPT ![k] = Used(object[k])]
  /\ UNCHANGED <<cached, born, refs, tests, taken, db, history>>

(***************************************************************************)
(* The writer thread, and restarts                                         *)
(***************************************************************************)
NoRows == [k \in Keys |-> NoRow]
Carried == {k \in Keys : taken[k] # NoRow}

Take ==
  /\ taken = NoRows
  /\ taken' = queued
  /\ queued' = NoRows
  /\ UNCHANGED <<object, cached, born, refs, tests, db, history>>

\* Mutant of Commit: the queue is emptied once its rows are stored.
CommitClears ==
  /\ taken # NoRows
  /\ db' = [k \in Keys |-> IF taken[k] # NoRow THEN taken[k] ELSE db[k]]
  /\ taken' = NoRows
  /\ queued' = NoRows
  /\ refused' = refused \ Carried
  /\ UNCHANGED <<object, cached, born, refs, tests, safe, deleted, safelyDeleted>>

Commit ==
  /\ taken # NoRows
  /\ db' = [k \in Keys |-> IF taken[k] # NoRow THEN taken[k] ELSE db[k]]
  /\ taken' = NoRows
  /\ refused' = refused \ Carried
  /\ UNCHANGED <<object, cached, born, refs, tests, queued, safe, deleted, safelyDeleted>>

\* A refused log precedes the key rows of its batch: they are discarded.
BatchFails ==
  /\ taken # NoRows
  /\ taken' = NoRows
  /\ refused' = refused \cup Carried
  /\ UNCHANGED <<object, cached, born, refs, tests, queued, db, safe, deleted, safelyDeleted>>

\* The process dies; the next one loads what the database holds.
Restart ==
  /\ object' = [k \in Keys |-> IF db[k] # NoRow THEN db[k] ELSE object[k]]
  /\ cached' = {k \in Keys : db[k] # NoRow}
  /\ refs' = [k \in Keys |-> 0] /\ tests' = [k \in Keys |-> 0]
  /\ queued' = NoRows /\ taken' = NoRows
  /\ refused' = {}
  /\ UNCHANGED <<born, db, safe, deleted, safelyDeleted>>

Next ==
  \/ \E k \in Keys :
       \/ Add(k) \/ Delete(k) \/ StartTest(k)
       \/ \E written \in BOOLEAN : Edit(k, written) \/ FinishTest(k, written)
       \/ Begin(k) \/ Finish(k) \/ Release(k) \/ Recover(k)
  \/ Take \/ Commit \/ BatchFails \/ Restart

Spec == Init /\ [][Next]_vars
-----------------------------------------------------------------------------
(***************************************************************************)
(* Properties                                                              *)
(***************************************************************************)

\* Whatever edits, tests, deletions and refused batches come in between, once
\* no row of a key is on its way its row has all of its outcomes and usage,
\* unless the last one was discarded; the next row then makes up for it.
UsageConverges ==
  \A k \in cached \ refused : ~OnItsWay(k) => db[k].use = object[k].use

\* An edit made while no row of its key is on its way is never undone, by the
\* writer thread or by a restart.  (key_manager.py:195 promises that of every
\* edit; one that is overtaken by a row queued before it is undone.)
SafeEditsLast ==
  \A k \in born : db[k] # NoRow => db[k].edit >= safe[k]

\* A key deleted while nothing of it is on its way, no request and no test,
\* stays out of the database.
SafeDeletionsLast == \A k \in safelyDeleted : db[k] = NoRow /\ k \notin cached
=============================================================================
