# InterGate in TLA+

InterGate is an HTTP gateway in front of LLM providers: it holds many API keys
per provider, spreads requests over them, replaces a key that fails by another,
charges each key's daily quota, and lets an administrator manage all of it in a
web console while requests are under way. These modules model the parts of
that program whose correctness depends on the order in which things happen.
TLC checks them on small instances; the theorems hold for every instance.

Everything in a gateway process runs on one asyncio event loop, except one
thread per database object. So the code between two `await`s is one action, and
the interleavings that matter are what other requests, key tests,
synchronisations, the console and the clock do during an `await`, what the
writer thread does between any two steps of the loop, and where a process dies.
With several processes, each with its own memory, they are also what one of
them knows of another, and what is left when one of them ends.

## Inventory of the system

| Component | State it keeps | Operations | Talks to |
|---|---|---|---|
| Key manager `services/key_manager.py`, `models/api_key.py` | `_cache` of key objects: status, `fail_count`, `cooldown_until`, usage of the day, quota | add, update, delete, `set_status`, `test_key`, `list_active` (with `_auto_recover`), `record_success`, `record_failure`, `decrypt` | gateway (references to key objects), console, database (direct and queued writes) |
| Quota monitor `services/quota.py` | counters inside the key objects, alert list | `record`, `_evaluate`, error rate, alerts | callback `on_key_changed` = `KeyManager._persist_async` |
| Database `db/database.py` | SQLite file, two connections, `_batch_pending`, `_flush_wait`, `_flush_done`, the writer thread | `enqueue_*`, `flush_now`, `_batch_writer_loop`, direct writes, queries, pruning | everyone |
| Gateway `gateway.py`, `providers/upstream.py` | per request: candidates, `tried`, stream; the copy of the gateway keys | `_authorize`, `_permission_error`, `_handle`, `_pick_keys`, `_stream_response`, `_after_failure`, `_quota_record` | all services |
| Load balancer `services/load_balancer.py` | active calls, latencies, round-robin cursors | `pick`, `report_active`, `report_latency` | gateway |
| Rate limiter `services/rate_limiter.py` | sliding windows (global, address, key, tokens), adaptive limits | `check`, `check_key_rpm`, `check_tpm` | gateway |
| Response cache `services/cache.py` | LRU of answers | `get`, `put`, clear | gateway, console |
| Model synchronisation `services/sync.py` | `_models`, `_states`, public index | `sync`, `remove_by_key`, `set_enabled`, reload | upstreams, console, database |
| Web console `webapp.py` | log-in tokens | CRUD of keys, gateway keys, settings, routes, switches; restart button | all services, on the same loop |
| Settings `config/settings.py` | one object per process, rows in the database | read at the start, changed by the console | everyone |
| Processes `main.py`, `run.sh` | main and worker processes, their ports, handlers of signals, the pid file, periodic tasks | start, stop, restart, fork, shutdown, flush at exit | database, the system |
| Pure parts | none | provider registry, AES, usage parsing, pricing, webhooks, health probes, UI | |

What is hard in each, and what makes it correct:

* **Key manager**: five operations write `status`, `fail_count` and
  `cooldown_until`, in different combinations; requests keep the object across
  the upstream call and report on it later, when the console may have disabled
  or deleted the key. Correct means: the status can be trusted by the
  look-ups that read nothing else, stopped and deleted keys stay so, an error
  ends, and the quota is overshot by what is under way and no more.
* **Database writer**: a thread, a lock, an event and two connections, with
  batches that may fail half-way. Correct means: no row lost, doubled or
  reordered except as documented, and flushes that mean something.
* **Key persistence**: two write paths to one row. Correct means: the row ends
  up as what the administrator and the usage made it.
* **Gateway**: five kinds of outcome per attempt, two of them exceptional.
  Correct means: a call is counted while it lasts, a request tries as many keys
  as it may before it fails, and every request ends.
* **Access**: settings and key lists in the memory of several processes, a copy
  with an age, a read that may fail. Correct means: what a gateway key may do is
  what the administrator stored, no longer ago than a copy may be used.
* **Synchronisation**: filters, awaits, replaces. Correct means: stopped keys
  offer nothing, switches hold, and a public id that is resolved leads to an entry
  that exists.
* **Rate limiter**: each question also counts the call, in windows that are
  asked one after the other, with limits that the console moves. Correct means:
  no minute lets more calls pass than the limit, whatever it was before.
* **Load balancer**: cursors, samples and counts shared by all requests, picked
  from lists that shrink at every failover. Correct means: when things have
  calmed down every key gets its turn, wherever the cursors were left.
* **Response cache**: filled after an await, with entries that expire where they
  are. Correct means: what was used last is there, and nothing too old is.
* **Processes**: a signal meets the handler of uvicorn, of `main.py`, of asyncio
  or none, depending on when it comes and on what put back which handler; the
  script knows the processes by a file, a port and a command line. Correct means:
  a stop returns and leaves nothing behind, a start never runs into what is left,
  and what a process owes the database is not lost where the code can help it.

The hazards, each at its line, with the properties that would notice it, are in
`PROJECT.json`.

## The modules

`KeyRecord` -- the key object and the pure operations on it, one operator per
method: `Succeeded` (`record_success`), `Failed` (`record_failure`),
`Recovered` (`_auto_recover`), `Usable` (the filter of `list_active`),
`WithStatus`, `Tested`, `Edited`, `QuotaRecorded` (`Accounted`, then
`Evaluated`). Cooldowns are the time that is left, which `Aged` reduces; usage is
the total of today, and `today` says whether the object's date is today's.
`KeyManager` and `Gateway` share this module.

`KeyManager` -- the life of the keys in one process. `pool[k]` is the object,
`cached` the ids in `_cache`, `refs[k]` the requests that hold the object in
their candidate list, `tests[k]` the key tests that await their answer. Actions:
the console's add, update, delete; `StartTest`/`FinishTest` around the `await`;
`ListActive` and `LookUp`, the two ways to get a key; `CallSucceeds`,
`CallFails`, `DecryptFails`, `Release`, the ways to be done with it; `Tick` and
`Midnight`. The object outlives the deletion of its id, as it does in the code.

`DurableQueue` -- what the background writes promise: accepted rows are stored,
in order per kind, except those that a refused row takes along and those that
wait when the process dies.

`BatchWriter` -- how: each lock region and each SQLite call of the writer thread
is an action, and so is each step of `flush_now` and of a console write that
waits for the other connection's lock. `KeepsEveryRow` is the refinement of
`DurableQueue`, with `waiting` mapped to transaction, batch and queue together.

`KeyStore` -- a key's object, its rows in the queue and in the batch, and its
row in the database, when direct and queued writers change it. It builds on what
`BatchWriter` establishes: rows of a kind are stored in order, so of several
queued rows of a key only the last is kept.

`Gateway` -- `_handle` from arrival to answer. `Advance` is the loop from one
`await` to the next: it passes over keys at their limit, without a URL or
unreadable, and either gives up or sleeps or calls. The outcomes of a call are
actions of their own; `Breaks` is every exception that leaves the loop, of the call
itself or while an error stream is read. It
uses `KeyRecord` for what the outcomes do to the keys; the strategy, the RPM and
the TPM verdict are any.

`Access` -- who may use the gateway, in several processes. `stored` and `saved`
are the rows; `mine`, `copy` and `age` are what a process has. A request is judged
by the settings (`OpenDoor`), by the copy of the list (`ByCopy`) or by reading it
(`ByReading`, which may fail); what it was found to be is used after its body was
awaited (`Decided`). The console's `PutKeys` and `PutSettings` change rows and the
console's process; `Restart` makes all processes agree. `gone` and `failed` are
history, for the properties. `Grants` distinguishes what the list may say of a
key: nothing, or a permission.

`ModelSync` -- the list as a relation between models and keys, and any number of
synchronisations that ask, wait and replace it, while keys are stopped or
deleted, switches turned and the process restarted. `suffix` and `index` are the
public ids: the number that `_assign_public_ids` gave to each entry, and the
dictionary of `_rebuild_public_index` in which requests look entries up. Names and
ids are texts, sequences of what stands between their hyphens, so that joining
them by hyphens is to append one to the other (`Named`, `PublicId`), and two
entries may get one public id as they do in the code. Of such entries the
dictionary keeps one, any of them (`Indexes`).

`SlidingWindow`, `RateLimiter` -- the window is the weight of its events by age;
a tick is a fraction of the minute, so that calls fall into one tick, into
several and on both sides of the border. `Check` is the question of an arriving
request (the gate, then the address), `CheckKey` and `CheckTokens` those of an
attempt, `SetLimit` the console. `passed` is a history of what was let through.

`LoadBalancer` -- `Pick` is `pick`, used by `Arrive` and `Retry`, the first and
the later rounds of the loop of `_handle`. A request is of a kind, by what it asks
for, and brings the list that `_pick_keys` makes for that kind of the keys usable
then (`ListOf`, from `Candidates`); all kinds share the cursors. `cursor[g]` is `_rr`, with the tuple
of ids that it belongs to. The strategies whose choice depends on weights, scores
or averages pick any key.

`ResponseCache` -- `store` are the entries of the ordered dictionary and `behind`
its order, as the set of entries behind each; `Hit`, `Miss`, `Put` are the ways
through `get` and `put`. `later` and `since` are a history of the uses. A request that missed is counted in `waiting`
until it puts its answer, or has none.

`Supervision` -- the main process by its stage (`boot`, `forked`, `up`, then
`web` and `gateway` while the two servers shut down, `exit` and `flushed` in the
clean-up), the workers, the gateway's port, and the script with the processes it
has yet to end (`todo`) and the one it waits for (`now`). `Term` says what a
SIGTERM does at each stage: the point of the module is whose handler it meets.
`owed` are the processes with rows in their queue, which `Write` stores where
there is a writer thread and `Flush` at the end; `lost` says how processes ended
that took rows along. `late` are workers left over from a main process that died
before they had tried to take the port.

`MC*` -- the instances for TLC, with their `.cfg` files.

`KeyManagerProofs`, `BatchWriterProofs`, `KeyStoreProofs`, `GatewayProofs`,
`AccessProofs`, `ModelSyncProofs`, `SupervisionProofs` -- the theorems about the
module they are named after, with the lemmas about its operators. `ServiceProofs`
has those about `RateLimiter` and about `ResponseCache`, which it extends both: that
is why the latter's initial states, next-state relation and types have names of
their own (`CacheInit`, `CacheNext`, `CacheTypeOK`).

An operator named in a comment as the mutant of another is that operator with a
plausible bug. No specification uses it; it serves to see that a property would
notice.

## What the runs check

| Run | Instance | What it shows |
|---|---|---|
| `MCKeyManager` | one key, two requests, one test, quotas 0 and 2, warnings from 80 % of a quota, cooldowns 1 and 2, all admin statuses; 14 thousand states | health stays consistent (`ActiveIsClean`), no request gets a cooling key, stopped and deleted keys to which nobody refers stay so, the quota's overshoot, an ERROR ends |
| `MCKeyManagerManualStop` | as above, smaller | **refuted**: "never recovered automatically" (`key_manager.py:91`): the success of a request under way enables a disabled key |
| `MCBatchWriter` | three rows, the second refused; 103 thousand states | refinement of `DurableQueue`; a second flush makes up for the race of the first; every row is stored in the end |
| `MCKeyStore` | two keys in one queue, one edit, two uses and one reference each; 692 thousand states | edits, tests and deletions that find nothing of their key on its way last; usage converges |
| `MCGateway` | two requests, two keys of which the console manages one, two attempts; 131 thousand states | the active-call count is exact on every way out; a request fails only after it used up its attempts; each request that has listed its candidates is answered |
| `MCAccess` | the console's process and one worker, one key with two permissions, one request, four settings; 1.6 million states | a key is taken for what the stored list said at most as long ago as a copy is used, in every process; in the console's for what it says |
| `MCModelSync` | three keys at two endpoints of one name, model ids `m` and `m-1`, two synchronisations of two keys each; 202 thousand states | a calmly stopped key offers nothing, a calmly turned switch holds, through overlaps and restarts; a public id, also one that two entries share, leads to an entry of the list that bears it |
| `MCRateLimiter` | one address, one key, limits 0 to 2, windows of two ticks; 1.2 million states | no minute lets more calls pass than the limit; booked weights stay below the largest adaptive limit |
| `MCLoadBalancer` | three keys in two groups, three kinds of requests with lists of their own, one request at a time, two attempts, every strategy; 98 thousand states | after any history, once attempts succeed and nothing is changed, every key of a list gets its turn for ever as long as the list is brought and no request resets its cursor with another (`round_robin`; the best of `priority`), and, whatever lists are brought, a sample (`response_time`) |
| `MCResponseCache` | three answers, room for two, two requests awaiting each; 840 states | the cache holds, in order, what was used last and is not too old; hits are fresh |
| `MCSupervision` | three workers in teams of two, one or several processes; 810 thousand states | stops return and are complete; a leftover worker holds the port under a new main process only if it had none when its own died; who leaves by the finally clauses loses no row |
| `MCSupervisionStop` | one process and no workers | **refuted**: every exit flushes the queue (`README.md:120`): a process that SIGTERM ends through the system's handler, each worker and a single process among them, runs no finally clause |

Each refuted run checks one sentence of the repository and finds an
interleaving that breaks it; the corresponding passing property says when the
sentence does hold. `StoppedStaysStopped` is `ManualStopHolds` for keys to
which no request or test refers, and `FinallyLosesNothing` is
`StopsLoseNothing` for the processes that end through the clean-up of `main.py`.

### Behaviours of the code that the models have and no property forbids

The properties above are stated so that they exclude these; whoever changes the
code should know them.

* The outcome of a request or a key test under way when its key was deleted puts
  the key back (`key_manager.py:208` and `:235`); hence `Quiet` in
  `DeletedStaysDeleted`.
* The rows before a refused one are reported as discarded
  (`database.py:387`) and committed with the next batch, as there is no rollback.
  `DurableQueue` therefore lets them be stored.
* `_evaluate` disables a key at its quota inside the test for a warning
  (`quota.py:125`). With warnings switched off, or with a threshold above 1, which
  `put_settings` accepts (`webapp.py:374`) and no ratio reaches
  (`api_key.py:120`), no quota is enforced. `OvershootBounded` speaks of the
  other settings (`QuotaEnforced`).
* A connection lost while an error stream is drained (`gateway.py:218`), and an
  exception of the call that is no `httpx.HTTPError`, as for a malformed URL or a
  header that cannot be encoded (`upstream.py:79`, `:106`), end the
  request with a 500, without failover and without a record of the attempt: they
  are not an `UpstreamError`. `FailsWhenExhausted` speaks of the requests that are told
  that all keys failed.
* A call refused at its address has used up the gate (`rate_limiter.py:98`), and
  a refused call keeps its window full. The weight of a call's tokens is in
  sixtieths of the limit (`:131`), and a call that `check_tpm` refuses sleeps at
  most 8 s, is not booked and goes ahead, so the limit bounds the weights and
  not the tokens.
* A cursor is rebuilt at every pick from a list that differs
  (`load_balancer.py:84`), so while the first key of a list fails at every request,
  keys beyond the second may never have their turn. Requests that may use different
  keys do the same to each other: when the lists `[k1, k2]` and `[k1]` alternate,
  k2 is never picked although every attempt succeeds. `KeysTakeTurns` excludes
  that by a premise (`NoRivals`), without which TLC finds it. And while the first key without a sample fails,
  `response_time` starts every request with it.
* An answer awaited while the cache is cleared is put into the cleared cache. Of
  two requests for one answer both call the upstream. GET requests look in the
  cache and are never put there, as they are relayed as streams
  (`gateway.py:166`). `put_settings` does not reach the limits of a cache that
  exists.
* A switch turned by a public id changes the entry of one source and is
  remembered for the id of all (`sync.py:233`).
  Public ids may conflict, although `sync.py:193` says not: with `m` at two URLs
  of name `a`, its ids are `a-m-1` and `a-m-2`, and a model `m-1` of that name is
  `a-m-1` too. The index keeps one of the two (`:208`) and the other cannot be
  asked for. `PublicIdsFindTheirModels` says that this is the only kind of
  conflict and that the id found belongs to the entry that is used. Public ids are numbered anew by
  each synchronisation and restart, so after a removal the id with `-2` may mean
  another endpoint than before.
* A row of a key that was queued before an edit is stored after it, although
  `_persist` (`key_manager.py:195`) writes the edit at once; `SafeEditsLast` says
  which edits are safe from that.
* One worker serves. The port is taken without `reuse_port`, so the second worker
  to start exits (`main.py:4` speaks of N in parallel), and nobody replaces the
  one that serves if it dies.
* A main process that dies before its handlers are set (`main.py:192` to `:222`)
  leaves its workers. Such a worker holds the port, so the next start says that
  InterGate is already running; a second stop finds the workers by their command
  line, which works for forked ones only.
* The restart button (`webapp.py:415`) ends the service and nothing starts it again
  (`README.md:163` speaks of a restart by one click).
* A forked worker has no writer thread, so what it queues is stored by nobody; it
  does not reach the flush at its end either (`main.py:107`). A fork while the
  writer holds its lock would leave the lock taken in the worker.
* A worker has the settings, the provider keys and the alerts of its start. A
  pause or a disabled key in the console does not reach it before a restart. A
  gateway key revoked in the console is accepted by a worker until its copy is too
  old (`README.md:171` says at once); that is what `VerdictsAreRecent` bounds, and
  `ConsoleKnowsAtOnce` is the sentence for the process for which it is true.
* What a request may do is judged before its body is read, and a change of
  the list meanwhile does not matter to it. A list that cannot be read counts as
  empty for as long as a copy is used.
* `put_settings` changes the object before the row. If the row cannot be written,
  the change holds until the process ends.

### Bounds, and why they are enough

* *One key in `MCKeyManager`.* Keys interact in `list_active` only, which treats
  each by itself; the theorems cover any number. Two requests and a test
  are the least with which an outcome meets another outcome and a test in either
  order. `MaxFailures = 3` lets the streak be built, broken and completed; the
  two cooldowns differ, so a shorter one can overtake a longer one. `UsageCap`
  (4) lies above the largest usage that the bound allows with these quotas
  (quota 2, one token per answer, two requests: 3), so saturation hides nothing.
* *Three rows in `MCBatchWriter`*, the second refused: rows before and after the
  refused one in its batch, and a batch after the failed one. Crashes and
  flushes are unbounded.
* *Two keys in `MCKeyStore`*, because a batch carries both and fails for both.
  Two uses let one row be in the batch and a later one in the queue. The two keys
  are interchangeable (symmetry).
* *`MCGateway`*: two requests, so that one's return can disturb the other's
  count; two keys, so that there is one to go on to. The console manages one of
  them (`Managed`), so that a request meets a key that was stopped or deleted under
  it and one that was not. `MaxFailures = 1` and cooldowns of 1 keep the health
  of the keys small, which `KeyManager` explores. `MaxTokens = 0` and `Quotas = {0}`
  leave the quota to `KeyManager`. Here all candidates are as many as all
  attempts; that a request stops at the limit with candidates left is what the
  theorem `FailsOnlyWhenExhausted` adds.
* *`MCAccess`*: the console's process and one that does not see what the console
  does. A copy may be used for one tick and is too old after two (`Ttl`). Two
  permissions and absence: a key can change from each to each. The settings are
  those that differ in what they open: nothing but the list, the main key, everything,
  nothing at all. Keys and requests do not interact but through the copy, which one
  of each suffices to make old.
* *`MCSupervision`*: three workers in teams of two let one worker of an earlier
  team be alive beside a full later team. `Forked = TRUE` is Linux; rows and
  requests are counted per process only as none or some.
* *`MCModelSync`*: two keys share a model, so that stopping one keeps it; the
  third offers the id at another endpoint, so that the ids are numbered; two
  synchronisations overlap. The third also has `m-1`, whose public id is that of a
  numbered `m`. An upstream fails or answers with what it has (`AnswersOf`).
  `PullLimit` is 2, below the number of keys. The console turns the switch of
  `m` by its id and by the public id of one entry (`Switched`); that a switch
  turned by a public id which two entries share keeps `SettledSwitchHolds` is left
  to the theorem.
* *`MCRateLimiter`*: two ticks to a minute are the least with which events are in
  a window and of different age; a limit of 0 is none; at most two calls in one
  tick of a window (`MaxCalls`), so up to four in a window whose limit is at most
  two. The address limit is shared by all addresses, which
  do not otherwise interact, so one stands for all. The adaptive limit ranges
  over whole numbers from 3 to 4 (`MinTpm`, `MaxTpm`) and a minute's worth is
  split in two (`Parts`), with requests of 3 tokens: limits at both ends, full
  windows, and weights that differ.
* *`MCLoadBalancer`*: a pick is atomic, under the lock and without an await, and
  a request leaves nothing in the balancer but what `cursor` and `sampled` hold,
  so the next request stands for any number that overlap. The kinds are a
  request that any key can serve, one for a model that two of the keys offer and
  else any, and one that asks for a key: a list, a part of it in the same group, and
  one in a group of its own. Three keys and two
  attempts leave one key that a failover does not reach; the list is not in the
  order of the ids, as `priority` sorts and `round_robin` does not; the two keys
  of the best priority are of different groups.
* *`MCResponseCache`*: one answer more than there is room for; two requests per
  answer, so that one put renews the other's; an entry may be used for one tick
  (`Ttl`) and older ages are alike.

### Fairness

* `KeyManager!FairSpec`: time passes, and requests that list keys by provider
  keep arriving -- recovery runs nowhere else (`key_manager.py:124`), so without
  traffic an ERROR lasts. `ErrorEnds` further excludes that key tests fail for
  ever.
* `BatchWriter!FairSpec`: the daemon thread runs (it polls every 0.25 s whether
  woken or not), and a call of the loop that can return does. Time-outs are not
  forced: a flush or a console write may give up and need not.
* `Gateway!FairSpec`: sleeps end, as each is bounded by `TPM_WAIT_BUDGET_MS`, and
  a call or a drain has an outcome, as httpx has time-outs. These are per read: that
  an upstream does not send a body of single bytes for ever is an assumption about
  it. A relayed stream may
  last for ever; nothing is claimed about its end.
* `Supervision!FairSpec`: the script goes on once it was called, which includes that
  its `kill -9` is sent when the wait is over. Nothing is assumed of requests, which
  may keep a server from shutting down for ever, of servers, or of who sends signals.
* `LoadBalancer!FairSpec`: calls end. That requests of a kind keep arriving and
  that failures, switches and changes of strategy stop is assumed by the properties
  where they need it.

`KeyStore`, `ModelSync`, `Access`, `RateLimiter` and `ResponseCache` claim no
liveness. `UsageConverges` is stated as an invariant of the states in which nothing
is on its way.

## What is proved

The theorems hold for all values of the constants that satisfy the named
assumptions of the module (any sets of keys, requests, models, processes and rows,
any limits and bounds), not only for the instances above. Each proof module has
one inductive invariant, `Good` (`ServiceProofs` also has `CacheGood`), with a lemma
or a step per action. `StoredOnceInOrder`, `StepsAreBounded`, `EveryStepCounts` and
`EveryScriptStepCounts` are stated beside their theorems; no run of their own checks
them.

| Module | Theorems | Property |
|---|---|---|
| `KeyManagerProofs` | `TypeCorrect`, `ActiveKeysAreClean`, `CoolingKeysAreNotUsed`, `StoppedKeysStayStopped`, `DeletedKeysStayDeleted`; `QuotaOvershootIsBounded` | `TypeOK`, `ActiveIsClean`, `NoRequestWhileCooling`, `StoppedStaysStopped`, `DeletedStaysDeleted`; `OvershootBounded` |
| `BatchWriterProofs` | `WriterTypeCorrect`, `SecondFlushIsEnough`, `WriterKeepsEveryRow`; `RowsStoredOnceInOrder` | `TypeOK`, `SecondFlushStores`, the refinement `KeepsEveryRow`; `StoredOnceInOrder` |
| `KeyStoreProofs` | `StoreTypeCorrect`, `RowsCatchUp`, `SafeEditsAreKept`, `SafeDeletionsAreKept` | `TypeOK`, `UsageConverges`, `SafeEditsLast`, `SafeDeletionsLast` |
| `GatewayProofs` | `GatewayTypeCorrect`, `ActiveCallsAreCounted`, `FailsOnlyWhenExhausted`; `RequestsMoveOn` | `TypeOK`, `ActiveCallsCounted`, `FailsWhenExhausted`; `StepsAreBounded`, `EveryStepCounts` |
| `AccessProofs` | `AccessTypeCorrect`, `VerdictsFollowTheList`, `TheConsoleKnows` | `TypeOK`, `VerdictsAreRecent`, `ConsoleKnowsAtOnce` |
| `ModelSyncProofs` | `SyncTypeCorrect`, `StoppedKeysOfferNothing`, `SwitchesHold`, `PublicIdsFindListedModels` | `TypeOK`, `CalmKeysOfferNothing`, `SettledSwitchHolds`, `PublicIdsFindTheirModels` |
| `SupervisionProofs` | `SupervisionTypeCorrect`, `ThePortIsOfThePresent`, `CleanExitsLoseNothing`, `StopsEndEverything`; `StopsMoveOn`, where `Workers` is finite | `TypeOK`, `PortOfThePresent`, `FinallyLosesNothing`, `StopsAreComplete`; `EveryScriptStepCounts` |
| `ServiceProofs` | `RateLimiterTypeCorrect`, `LimitsAreKept`, `SpendingIsBounded` | `TypeOK`, `WithinLimits`, `SpentWithinTpm` |
| `ServiceProofs` | `CacheTypeCorrect`, `TheLastUsedAreHeld`, `HitsAreNeverStale` | `CacheTypeOK`, `HoldsTheLastUsed`, `HitsAreFresh` |

**`KeyManager`.** `Good == TypeOK /\ ActiveIsClean`. `ActiveIsClean` is inductive
together with the types because each operation of `KeyRecord` returns a clean
record when it is given one: lemmas `RecoveredType`, `EditedType`, `TestedType`,
`WithStatusType` and so on say so once. `CoolingKeysAreNotUsed`
is where the invariant is needed: `LookUp` reads the status alone, and only
`ActiveIsClean` says that an ACTIVE key has no cooldown. The other two action
properties need to know from `TypeOK` that somebody refers to a key only if it
was born.

**The quota.** `OvershootBounded` is not inductive: it does not say that a key at its
quota is not given out again. `QuotaInv` adds `Charged` -- a record at or over
its quota is exhausted or disabled, and a key that cannot be decrypted was never
charged -- and `Covered`, which accounts for the answers still under way.
The property itself says when the quota is enforced at all (`QuotaEnforced`):
`_evaluate` returns early when warnings are off and disables nothing when their
threshold is above 1. Below that, a key at its quota is at the threshold too
(`QuotaReached`, from `QuotaUsedUp` on the ratio).

**`BatchWriter`.** `Owed(n)` are the rows among the first n that are neither stored
nor discarded nor lost. `Nothing` says that everything owed is in the queue, the
batch or the transaction; `Ahead(n)`, that of the first n it is in the thread's
hands already; `Executable`, that what a failed batch left in the transaction was
reported as discarded and is not refused. `Flushed` is the argument about two
flushes: `_flush_wait` is read and reset in one lock region after the batch, so a
flush that is answered was asked for before that region, and the thread is then
ahead of the flush before; that first flush may have been asked for between the
write and the region, which is why one is not enough. For the refinement, the
rows that only change hands leave their concatenation as it was (`HandedOn`),
a commit moves its first part (`CommitMaps`), and a failed batch is a cut that
begins with the refused row (`CutOut`, `FailureMaps`, from `SomeBad`: the first
kind with a refused row is executed up to it). `RowsStoredOnceInOrder` draws from the
refinement what a reader of the tables wants to know: `InLine` says that the rows of
a kind, the stored ones first and then those that wait, bear rising numbers, and
that no row is of two kinds. A row that is accepted has the greatest number, a commit
leaves the line as it is, and a failed batch or a crash takes rows out of it
(`RisingWithout`), so a row that is stored is not in the line a second time.

**`KeyStore`.** The invariant is one of each key by itself (`KeyInv`), so that an
action on one key or on a batch of many needs one argument. `Kept` -- a safe edit
is in the object, the queued row, the row in the thread's hands and the stored
one -- is inductive because an edit becomes safe only when the middle two are
absent; `Newest` says which of these rows has all of the usage.

**`Gateway`.** `Held` ties a request's phase to the key it is busy with and `Bounded`
the keys it tried to its limit. The count of active calls is the cardinality of
a set; each action adds one request to it or removes one. It is proved for limits
below the number of candidates, which the instance does not have. `StepsLeft` counts
the steps that a request may still take: three for each attempt (a sleep for the
token limit, the call, an error drained or a stream relayed). `EveryStepCounts`
needs `Bounded`, since an attempt is added only below the limit, and shows that
neither failover nor the other requests, the console or the clock can keep a
request going round.

**`Access`.** `CopiesAreRecent` says what the age of a copy means: for each key the
stored list said what the copy says at most that long ago (`gone`, a history
variable), or the copy stands for a read that failed at most that long ago;
`ConsoleIsCurrent`, that the console's own copy, while it is in use, is the
stored list or such a failure.

**`ModelSync`.** `Merging` -- what a synchronisation has merged is of no calm key, and
it waits for none -- is why a key that is stopped while none runs stays away,
and `Positioned` the same for the switches. Entries of one `{name}-{id}` are `Apart`
because the numbers that `_assign_public_ids` gives to them differ: two
lemmas about cardinalities (`LowerFirst`, `NumberedApart`), which need that an
entry is known by its endpoint and id (`ModelsApart`, as two texts that share a
first part and their whole are the same, `Prefixes`). `SharedPublicId` draws what is left:
two entries with numbers have a last part each, so an id they shared would
make their `{name}-{id}` the same; two without have it alone.

**`Supervision`.** The processes and the script keep one half of the invariant each
(`ProcsInv`, `ShellInv`), and a step of a process needs to know of the script only
that it starts nothing once there is no main process (`StartsNothing`).
`PortOfThePresent` is not inductive: a worker left over may take the port later.
`Latecomers` adds that each of those is known -- it was in `boot` when its main
process died -- and stays known because a signal never takes a worker back and a
new team is made of workers that are not alive. A start happens only when the
port is free and, by `Recorded` (no main process without a pid file), there is no
main process, so nobody else has the port at that moment. `Hunted` is what makes a stop
complete: while the script ends processes, what is alive of its targets is in its
list or is waited for. A process leaves the list only to be waited for, the wait
ends with its death or a SIGKILL, and during a sweep nothing can be forked since
the main process is gone. `Settled` says that from `exit` on nothing is under way in
the main process: both servers have answered what they had, and a main process
that could not take its ports never accepted anything. That is why nothing is
owed between `Flush` and `Leave`. It holds whether workers are forked or spawned.
`ScriptLeft` counts two steps for each process that a stop has in its list, one for
the process it waits for and those that follow. It falls with every step of the
script, as the list is made once and a process that was given up is not put back.

**`RateLimiter`.** `SlidingWindow` counts a window by the units of its events, so the
sum of their weights is the cardinality of a set, and three lemmas carry the rest:
`CountMonotone`, `CountAdded`, `CountOlder` (an injection from the units that
are left into those that were there). `WithinLimits` is not inductive, as it does
not relate the answer, which is given by what was counted (`calls`), to what
passed; `Among` adds that at every age no more passed than was counted. That
stays so when the console sets a limit to 0 and back, after which the old calls
are in `calls` and not in `passed`. For `SpentWithinTpm` no call is booked for more
than its tokens (`WeightRange`) and the adaptive limit stays in its range
(`TpmRange`), for any division of the minute and any tokens.

**`ResponseCache`.** A dictionary's order as a sequence would need operators that take
entries out of a sequence; as a set of entries behind each it is a relation, and
three lemmas say what the operations do to it: moving an entry to the end
(`MovedOrder`) and dropping entries (`WithinOrder`) leave a total order, of which
no more than n have less than n behind them (`LastBounded`, since no two have as
many). `HoldsTheLastUsed` needs that order: what `Put` drops has `MaxEntries` behind
it, and all of these were used later. `SameAge` is why a hit is fresh: the age
that `Hit` looks at is that of the entry, and only `Put` and the passing of
time change it, as they change that of the answer.

**Model-checked only.** All liveness (`ErrorEnds`, `EveryRowStored`,
`EveryRequestAnswered`, `KeysTakeTurns`, `EveryKeySampled`, `EveryStopReturns`),
which needs fairness and ENABLED. Of `EveryRequestAnswered` and `EveryStopReturns`
the half that needs neither is proved: a request and a stop have a bounded number
of steps to take (`RequestsMoveOn`, `StopsMoveOn`). That they do take them is left to
TLC. `LoadBalancer`: beyond its types it claims only
liveness, and its lists are made by `SelectSeq` and `SetToSortSeq`, operators
defined by recursion over the list, so that what they return would need an induction
over data, which the provers cannot do.

## What is not modelled, and why

* Request and response bodies, headers, pricing, usage parsing: pure data. Token
  counts are any number up to `MaxTokens`.
* Real time: a cooldown is a counter, midnight is an event at any moment, a
  time-out may happen whenever its condition could last.
* Alerts, webhooks, error rates, statistics pages, metrics: they change
  no state that a request or another component reads back.
* What a worker does with keys, limits, models and answers. It has all of these by
  itself, loaded when it was forked, so `KeyManager`, `Gateway`, `ModelSync`,
  `RateLimiter`, `LoadBalancer` and `ResponseCache` model any one process;
  `Access` and `Supervision` model several, and `Forked` what a worker lacks.
* The encryption, except that a stored key may fail to open (`opens`).
* Settings as data: the values that matter are CONSTANTS, or variables where the
  console's change of them matters (`RateLimiter`, `LoadBalancer`, `Access`).
* In `ModelSync`: failing writes of the list; edits of a key's name or URL, which
  leave the list alone until the next synchronisation.
* In `Supervision`: an interrupt from the terminal that reaches the workers too, as
  they are of the same process group; the flush in the clean-up is one step;
  `backup` and `status` of the script, which change no process.
* In `RateLimiter`: the switches `rate_limit_enabled` and `adaptive_tpm_enabled`,
  which skip the questions, and `Retry-After`.
* In `LoadBalancer`: weights, scores, averages, and the active-call count, which
  `Gateway` has.
* In `ResponseCache`: the counters, the bodies, and what `make_key` leaves out
  (query, headers).
* In `BatchWriter`: the wake-up event, which only shortens a wait.
* UI, service worker, schema migrations, log pruning.

## Plan

Done, in this order: `KeyRecord`, `KeyManager` and its proofs (the state that
everything else reads and writes), `DurableQueue` and `BatchWriter`, `KeyStore`,
`Gateway`, `ModelSync`, `SlidingWindow` and `RateLimiter`, `LoadBalancer`,
`ResponseCache`; then `Supervision`, `Access`, the public ids in `ModelSync`, and
the proofs about `Gateway`, `Access`, `ModelSync`, `KeyStore` and `BatchWriter`, and
those about `Supervision`, `RateLimiter` and `ResponseCache`; last, the bounds on the
steps of a request and of a stop, and the order of the stored rows.

What is left:

1. An instance of `Gateway` whose choices are those of `LoadBalancer` and whose
   verdicts are those of `RateLimiter`; the state of each by itself is near what
   TLC can visit.
2. Alerts of the quota monitor, and the retention of logs.
