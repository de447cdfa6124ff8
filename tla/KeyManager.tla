----------------------------- MODULE KeyManager -----------------------------
(***************************************************************************)
(* services/key_manager.py as the gateway and the web console use it: the  *)
(* life of the keys in memory, while requests and key tests are under way. *)
(*                                                                         *)
(* One asyncio event loop runs everything, so the code between two awaits  *)
(* is one action.  A request takes references to key OBJECTS when it       *)
(* builds its candidate list, awaits the upstream, and only then reports   *)
(* the outcome on the object it kept; a key test awaits between reading    *)
(* the key and writing the verdict.  In those gaps an administrator may    *)
(* disable, edit or delete the key.                                        *)
(*                                                                         *)
(* pool[k] is the object of key id k (it outlives its deletion for as long *)
(* as a request refers to it), cached is the domain of KeyManager._cache,  *)
(* born the ids handed out so far (ids are random and never reused).       *)
(* refs[k] counts the requests that hold k in their candidate list and     *)
(* may still call it once; tests[k] the key tests awaiting their answer.   *)
(***************************************************************************)
EXTENDS KeyRecord

CONSTANTS
  Keys,           \* key ids
  MaxTokens,      \* the most tokens one response reports
  MaxRefs,        \* bound: requests referring to one key at a time
  MaxTests,       \* bound: tests of one key at a time
  AdminStatuses   \* what an administrator may put in "status"; "keep" is absent

ASSUME BoundAssumption ==
  /\ MaxTokens \in Nat /\ MaxRefs \in Nat \ {0} /\ MaxTests \in Nat
ASSUME AdminAssumption == AdminStatuses \subseteq Statuses \cup {"keep"}

VARIABLES pool, cached, born, refs, tests

\* History: the keys that were tested, or whose quota or status an administrator
\* changed (other than to disable them), since they were created.
VARIABLE managed

vars == <<pool, cached, born, refs, tests, managed>>

TypeOK ==
  /\ pool \in [Keys -> KeyRecords]
  /\ born \in SUBSET Keys
  /\ cached \in SUBSET born
  /\ refs \in [Keys -> 0 .. MaxRefs]
  /\ tests \in [Keys -> 0 .. MaxTests]
  /\ \A k \in Keys : refs[k] > 0 \/ tests[k] > 0 => k \in born
  /\ managed \in SUBSET Keys

\* _load: the rows of the database, here keys that were never used; the
\* master key may have been replaced since a row was written.
Init ==
  /\ born \in SUBSET Keys
  /\ cached = born
  /\ pool \in [Keys -> {NewKey(q, o) : q \in Quotas, o \in BOOLEAN}]
  /\ refs = [k \in Keys |-> 0]
  /\ tests = [k \in Keys |-> 0]
  /\ managed = {}

(***************************************************************************)
(* The web console                                                         *)
(***************************************************************************)
AddKey(k, q) ==
  /\ k \notin born
  /\ pool' = [pool EXCEPT ![k] = NewKey(q, TRUE)]
  /\ born' = born \cup {k}
  /\ cached' = cached \cup {k}
  /\ UNCHANGED <<refs, tests, managed>>

\* Mutant of UpdateKey: the id is not looked up in the cache first.
UpdateUnchecked(k, q, s, newText) ==
  /\ k \in born
  /\ LET edited == Edited(pool[k], q, newText) IN
     pool' = [pool EXCEPT ![k] = IF s = "keep" THEN edited ELSE WithStatus(edited, s)]
  /\ cached' = cached \cup {k}
  /\ UNCHANGED <<born, refs, tests, managed>>

\* PUT /api/keys/{id}: quota, status and key text are each optional.
UpdateKey(k, q, s, newText) ==
  /\ k \in cached
  /\ LET edited == Edited(pool[k], q, newText) IN
     pool' = [pool EXCEPT ![k] = IF s = "keep" THEN edited ELSE WithStatus(edited, s)]
  /\ managed' = IF q = pool[k].quota /\ s \in {"keep", "inactive"}
                THEN managed ELSE managed \cup {k}
  /\ UNCHANGED <<cached, born, refs, tests>>

DeleteKey(k) ==
  /\ k \in cached
  /\ cached' = cached \ {k}
  /\ UNCHANGED <<pool, born, refs, tests, managed>>

\* test_key up to its await ...
StartTest(k) ==
  /\ k \in cached
  /\ tests[k] < MaxTests
  /\ tests' = [tests EXCEPT ![k] = @ + 1]
  /\ UNCHANGED <<pool, cached, born, refs, managed>>

\* ... and after it: the verdict goes to the object read before the await, and
\* _persist puts that object (back) into the cache.
FinishTest(k, ok) ==
  /\ tests[k] > 0
  /\ tests' = [tests EXCEPT ![k] = @ - 1]
  /\ pool' = [pool EXCEPT ![k] = Tested(@, ok)]
  /\ cached' = cached \cup {k}
  /\ managed' = managed \cup {k}
  /\ UNCHANGED <<born, refs>>

(***************************************************************************)
(* Requests                                                                *)
(***************************************************************************)

\* list_active for some provider: recovery visits every cached key; the keys
\* of that provider that are usable go into the request's candidate list
\* (an empty one when the request is answered from the response cache).
ListActive(listed) ==
  LET recovered == [k \in Keys |-> IF k \in cached THEN Recovered(pool[k]) ELSE pool[k]] IN
  /\ \A k \in listed : k \in cached /\ Usable(recovered[k]) /\ refs[k] < MaxRefs
  /\ pool' = recovered
  /\ refs' = [k \in Keys |-> IF k \in listed THEN refs[k] + 1 ELSE refs[k]]
  /\ UNCHANGED <<cached, born, tests, managed>>

\* x-relay-key, a model's source_keys or a route: the key is looked up in
\* list_all and taken if ACTIVE; nothing is recovered.  A request for a key
\* that is not ACTIVE is answered 503 and leaves no trace.
LookUp(k) ==
  /\ k \in cached
  /\ IF pool[k].status = "active" /\ refs[k] < MaxRefs
     THEN refs' = [refs EXCEPT ![k] = @ + 1]
     ELSE UNCHANGED refs
  /\ UNCHANGED <<pool, cached, born, tests, managed>>

\* Mutant of CallSucceeds: the quota is recorded before the success.
SucceedsAfterQuota(k, tokens) ==
  /\ refs[k] > 0
  /\ pool[k].opens
  /\ LET charged == QuotaRecorded(pool[k], tokens) IN
     pool' = [pool EXCEPT ![k] = IF k \in cached THEN Succeeded(charged) ELSE charged]
  /\ cached' = cached \cup {k}
  /\ refs' = [refs EXCEPT ![k] = @ - 1]
  /\ UNCHANGED <<born, tests, managed>>

\* record_success, then QuotaMonitor.record, whose on_key_changed callback
\* (_persist_async) stores the object in the cache whether or not it is there.
CallSucceeds(k, tokens) ==
  /\ refs[k] > 0
  /\ pool[k].opens
  /\ LET seen == IF k \in cached THEN Succeeded(pool[k]) ELSE pool[k] IN
     pool' = [pool EXCEPT ![k] = QuotaRecorded(seen, tokens)]
  /\ cached' = cached \cup {k}
  /\ refs' = [refs EXCEPT ![k] = @ - 1]
  /\ UNCHANGED <<born, tests, managed>>

\* _after_failure.
CallFails(k, category) ==
  /\ refs[k] > 0
  /\ pool[k].opens
  /\ LET seen == IF k \in cached THEN Failed(pool[k], category) ELSE pool[k] IN
     pool' = [pool EXCEPT ![k] = QuotaRecorded(seen, 0)]
  /\ cached' = cached \cup {k}
  /\ refs' = [refs EXCEPT ![k] = @ - 1]
  /\ UNCHANGED <<born, tests, managed>>

\* The key text does not decrypt: record_failure alone, no call is made.
DecryptFails(k) ==
  /\ refs[k] > 0
  /\ ~pool[k].opens
  /\ pool' = [pool EXCEPT ![k] = IF k \in cached THEN Failed(@, "auth") ELSE @]
  /\ refs' = [refs EXCEPT ![k] = @ - 1]
  /\ UNCHANGED <<cached, born, tests, managed>>

\* Mutant of Release: a reference is given back twice.
ReleaseTwice(k) ==
  /\ refs[k] > 0
  /\ refs' = [refs EXCEPT ![k] = @ - 2]
  /\ UNCHANGED <<pool, cached, born, tests, managed>>

\* A request ends, or skips k (RPM limit, no base URL), without calling it.
Release(k) ==
  /\ refs[k] > 0
  /\ refs' = [refs EXCEPT ![k] = @ - 1]
  /\ UNCHANGED <<pool, cached, born, tests, managed>>

(***************************************************************************)
(* Time                                                                    *)
(***************************************************************************)
Tick ==
  /\ pool' = [k \in Keys |-> Aged(pool[k])]
  /\ UNCHANGED <<cached, born, refs, tests, managed>>

Midnight ==
  /\ pool' = [k \in Keys |-> NextDay(pool[k])]
  /\ UNCHANGED <<cached, born, refs, tests, managed>>

Update == \E k \in Keys, q \in Quotas, s \in AdminStatuses, newText \in BOOLEAN :
            UpdateKey(k, q, s, newText)
TestEnds == \E k \in Keys, ok \in BOOLEAN : FinishTest(k, ok)
Listing == \E listed \in SUBSET Keys : ListActive(listed)
Success == \E k \in Keys, tokens \in 0 .. MaxTokens : CallSucceeds(k, tokens)
Failure == \E k \in Keys, category \in Categories : CallFails(k, category)

Next ==
  \/ \E k \in Keys, q \in Quotas : AddKey(k, q)
  \/ Update
  \/ \E k \in Keys : DeleteKey(k)
  \/ \E k \in Keys : StartTest(k)
  \/ TestEnds
  \/ \E k \in Keys : LookUp(k)
  \/ Success
  \/ Failure
  \/ \E k \in Keys : DecryptFails(k)
  \/ \E k \in Keys : Release(k)
  \/ Listing
  \/ Tick
  \/ Midnight

Spec == Init /\ [][Next]_vars

\* Time passes and requests without x-relay-key keep arriving.
FairSpec == Spec /\ WF_vars(Tick) /\ WF_vars(Listing)
-----------------------------------------------------------------------------
(***************************************************************************)
(* Properties                                                              *)
(***************************************************************************)

\* An ACTIVE key has fewer than MaxFailures failures and no cooldown, however
\* record_*, set_status, test_key and recovery interleave.  The look-ups by
\* name, by source_keys and by route test the status alone and rely on it.
ActiveIsClean == \A k \in Keys : Clean(pool[k])

\* No request gets a key that is cooling down, neither from list_active nor
\* from the look-ups (gateway.py:368-379, 404-405) that never read cooldown_until.
NoRequestWhileCooling ==
  [][\A k \in Keys : refs'[k] > refs[k] => ~InCooldown(pool[k])]_vars

Stopped(k) == k \in cached /\ pool[k].status \in {"inactive", "exhausted"}

\* Nobody's answer is awaited for key k.
Quiet(k) == refs[k] = 0 /\ tests[k] = 0

\* A disabled or exhausted key that no request refers to stays as it is until
\* an administrator changes it: neither listing nor time brings it back.
StoppedStaysStopped ==
  [][\A k \in Keys : Stopped(k) /\ Quiet(k) /\ ~Update => pool'[k].status = pool[k].status]_vars

\* A deleted key that no request or test refers to never comes back.
DeletedStaysDeleted ==
  [][\A k \in Keys : k \in born \ cached /\ Quiet(k) => k \notin cached']_vars

\* What the daily quota enforces: with MaxRefs requests at a time, a key is
\* charged at most the tokens of MaxRefs answers beyond its last free token, as
\* long as nobody re-enables it, tests it or edits its quota.  It is enforced
\* while warnings are on and their threshold is not above 1 (quota.py:122-127).
QuotaEnforced == WarnEnabled /\ WarnThreshold <= Whole

OvershootBounded ==
  QuotaEnforced => \A k \in Keys \ managed : pool[k].today /\ pool[k].quota > 0 =>
    pool[k].used + MaxTokens * refs[k] <= pool[k].quota - 1 + MaxTokens * MaxRefs

InError(k) == k \in cached /\ pool[k].status = "error"

\* A key in ERROR leaves it (recovered, exhausted, disabled or deleted),
\* unless its tests keep failing for ever.
ErrorEnds ==
  (<>[][~TestEnds]_vars) => \A k \in Keys : InError(k) ~> ~InError(k)

(***************************************************************************)
(* What the documentation says and the interleavings refute                *)
(***************************************************************************)

\* key_manager.py:91-92 and 127-128: INACTIVE and EXHAUSTED are left only by
\* hand (here: by an update or a key test).
ManualStopHolds ==
  [][\A k \in Keys : Stopped(k) /\ pool'[k].status = "active" => Update \/ TestEnds]_vars
=============================================================================
