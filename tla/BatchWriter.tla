---------------------------- MODULE BatchWriter ----------------------------
(***************************************************************************)
(* The background writes of db/database.py: the event loop queues rows,    *)
(* one daemon thread per Database takes the whole queue and stores it in   *)
(* one transaction on a connection of its own, and flush_now waits for     *)
(* that thread.  Each lock region and each SQLite call of the thread is an *)
(* action, so the loop's calls fall anywhere between them.                 *)
(*                                                                         *)
(* A row is the number of its acceptance.  _write_flush splits the queue   *)
(* by kind, so the queue is kept split.  The wake-up event is left out: it *)
(* only shortens the thread's wait of 0.25 s.                              *)
(*                                                                         *)
(* The console's own writes use the other connection; SQLite admits one    *)
(* writing transaction at a time, the second waits up to 10 s for it.      *)
(***************************************************************************)
EXTENDS Integers, Sequences

CONSTANTS
  MaxRows,    \* bound: rows accepted over all
  Poison,     \* the rows an INSERT refuses (a log whose model is NULL)
  Forked      \* the process was forked after get_db: threads are not inherited

ASSUME RowAssumption == MaxRows \in Nat /\ Poison \subseteq 1 .. MaxRows
ASSUME ForkAssumption == Forked \in BOOLEAN

Kinds == {"log", "stats", "key"}
Rows == 1 .. MaxRows

VARIABLES
  accepted,  \* how many rows were accepted
  pending,   \* _batch_pending, by kind
  batch,     \* items: what the thread took and has not executed
  open,      \* a transaction is open on _write_conn (it holds the write lock)
  tx,        \* the rows executed in that transaction
  stored,    \* the rows committed
  pc,        \* where the writer thread is
  loop,      \* what the event loop is doing
  flushWait, \* _flush_wait
  flushDone  \* _flush_done

\* History, for the properties: the rows accepted when flush_now was last
\* called, and when it was called before that; the rows lost in a crash are
\* among 1 .. lost; discarded holds the batches the log calls discarded; gaveUp
\* says that a flush_now of this process timed out.
VARIABLES due, dueBefore, lost, discarded, gaveUp

writer == <<pending, batch, open, tx, stored, pc>>
flags == <<flushWait, flushDone>>
history == <<due, dueBefore, lost, discarded, gaveUp>>
vars == <<accepted, writer, loop, flags, history>>

None == [k \in Kinds |-> <<>>]
Elements(s) == {s[i] : i \in DOMAIN s}
In(q) == UNION {Elements(q[k]) : k \in Kinds}
Joined(p, q) == [k \in Kinds |-> p[k] \o q[k]]

TypeOK ==
  /\ accepted \in 0 .. MaxRows
  /\ \A q \in {pending, batch, tx, stored} : q \in [Kinds -> Seq(1 .. accepted)]
  /\ open \in BOOLEAN
  /\ pc \in {"take", "write", "commit", "ack", "signal"}
  /\ loop \in {"idle", "console", "flush", "clear"}
  /\ flushWait \in BOOLEAN /\ flushDone \in BOOLEAN
  /\ {due, dueBefore, lost} \subseteq 0 .. accepted
  /\ discarded \subseteq 1 .. accepted /\ gaveUp \in BOOLEAN
  /\ pc = "write" <=> batch # None
  /\ tx # None => open

Init ==
  /\ accepted = 0
  /\ pending = None /\ batch = None /\ tx = None /\ stored = None
  /\ open = FALSE /\ pc = "take" /\ loop = "idle"
  /\ flushWait = FALSE /\ flushDone = FALSE
  /\ due = 0 /\ dueBefore = 0 /\ lost = 0 /\ discarded = {} /\ gaveUp = FALSE

(***************************************************************************)
(* The event loop                                                          *)
(***************************************************************************)

\* enqueue_log, enqueue_stats, enqueue_key.
Enqueue(k) ==
  /\ loop = "idle"
  /\ accepted < MaxRows
  /\ accepted' = accepted + 1
  /\ pending' = [pending EXCEPT ![k] = Append(@, accepted + 1)]
  /\ UNCHANGED <<batch, open, tx, stored, pc, loop, flags, history>>

\* A write of the console (upsert_key, delete_key, set_setting, ...): it waits
\* for the write lock on the event loop, with everything else standing still.
ConsoleCalls ==
  /\ loop = "idle"
  /\ loop' = "console"
  /\ UNCHANGED <<accepted, writer, flags, history>>

ConsoleWrites ==
  /\ loop = "console"
  /\ ~open
  /\ loop' = "idle"
  /\ UNCHANGED <<accepted, writer, flags, history>>

\* ... and raises "database is locked" when the thread will not give it back.
ConsoleTimesOut ==
  /\ loop = "console"
  /\ open /\ pc = "take" /\ pending = None
  /\ loop' = "idle"
  /\ UNCHANGED <<accepted, writer, flags, history>>

\* Mutant of FlushCalled: with nothing queued there is nothing to wait for.
FlushSkipped ==
  /\ loop = "idle"
  /\ loop' = "flush"
  /\ flushWait' = (pending # None)
  /\ flushDone' = (pending = None)
  /\ dueBefore' = due
  /\ due' = accepted
  /\ UNCHANGED <<accepted, writer, lost, discarded, gaveUp>>

FlushCalled ==
  /\ loop = "idle"
  /\ loop' = "flush"
  /\ flushWait' = TRUE
  /\ dueBefore' = due
  /\ due' = accepted
  /\ UNCHANGED <<accepted, writer, flushDone, lost, discarded, gaveUp>>

FlushReturns ==
  /\ loop = "flush"
  /\ flushDone
  /\ loop' = "clear"
  /\ UNCHANGED <<accepted, writer, flags, history>>

\* Five seconds passed; flush_now does not look at what wait returned.
FlushTimesOut ==
  /\ loop = "flush"
  /\ ~flushDone
  /\ loop' = "clear"
  /\ gaveUp' = TRUE
  /\ UNCHANGED <<accepted, writer, flags, due, dueBefore, lost, discarded>>

FlushClears ==
  /\ loop = "clear"
  /\ loop' = "idle"
  /\ flushDone' = FALSE
  /\ UNCHANGED <<accepted, writer, flushWait, history>>

(***************************************************************************)
(* The writer thread                                                       *)
(***************************************************************************)

\* Mutant of Take: a batch is taken only when it is worth it.
TakeWorthwhile ==
  /\ pc = "take"
  /\ IF \A k \in Kinds : Len(pending[k]) < 2
     THEN pc' = "ack" /\ UNCHANGED <<pending, batch>>
     ELSE pc' = "write" /\ batch' = pending /\ pending' = None
  /\ UNCHANGED <<accepted, open, tx, stored, loop, flags, history>>

\* Under _batch_lock: take everything.
Take ==
  /\ pc = "take"
  /\ IF pending = None
     THEN pc' = "ack" /\ UNCHANGED <<pending, batch>>
     ELSE pc' = "write" /\ batch' = pending /\ pending' = None
  /\ UNCHANGED <<accepted, open, tx, stored, loop, flags, history>>

\* What executemany gets through: everything before the first refused row.
Bad(s) == {i \in DOMAIN s : s[i] \in Poison}
Clean(s) ==
  IF Bad(s) = {} THEN s
  ELSE SubSeq(s, 1, (CHOOSE i \in Bad(s) : \A j \in Bad(s) : i <= j) - 1)

\* Logs, then statistics, then keys; a refused row ends it.
Executed(q) ==
  LET fine(k) == Bad(q[k]) = {} IN
  [k \in Kinds |->
     CASE k = "log" -> Clean(q[k])
       [] k = "stats" /\ fine("log") -> Clean(q[k])
       [] k = "key" /\ fine("log") /\ fine("stats") -> Clean(q[k])
       [] OTHER -> <<>>]

\* Mutants of Write: a failed batch stays in the thread; it is queued again.
WriteKeepsBatch ==
  /\ pc = "write"
  /\ open' = TRUE
  /\ tx' = Joined(tx, Executed(batch))
  /\ IF In(batch) \cap Poison = {}
     THEN pc' = "commit" /\ batch' = None /\ UNCHANGED discarded
     ELSE pc' = "ack" /\ discarded' = discarded \cup In(batch) /\ UNCHANGED batch
  /\ UNCHANGED <<accepted, pending, stored, loop, flags, due, dueBefore, lost, gaveUp>>

WriteRetries ==
  /\ pc = "write"
  /\ open' = TRUE
  /\ tx' = Joined(tx, Executed(batch))
  /\ IF In(batch) \cap Poison = {}
     THEN pc' = "commit" /\ UNCHANGED pending
     ELSE pc' = "ack" /\ pending' = Joined(pending, batch)
  /\ batch' = None
  /\ UNCHANGED <<accepted, stored, loop, flags, history>>

\* Logs, then statistics, then keys are executed.  When a row is refused the
\* exception is logged and the thread goes on, with the transaction still open.
Write ==
  /\ pc = "write"
  /\ open' = TRUE
  /\ tx' = Joined(tx, Executed(batch))
  /\ IF In(batch) \cap Poison = {}
     THEN pc' = "commit" /\ UNCHANGED discarded
     ELSE pc' = "ack" /\ discarded' = discarded \cup In(batch)
  /\ batch' = None
  /\ UNCHANGED <<accepted, pending, stored, loop, flags, due, dueBefore, lost, gaveUp>>

Commit ==
  /\ pc = "commit"
  /\ stored' = Joined(stored, tx)
  /\ tx' = None
  /\ open' = FALSE
  /\ pc' = "ack"
  /\ UNCHANGED <<accepted, pending, batch, loop, flags, history>>

\* Under _batch_lock: was somebody waiting?
Acknowledge ==
  /\ pc = "ack"
  /\ pc' = IF flushWait THEN "signal" ELSE "take"
  /\ flushWait' = FALSE
  /\ UNCHANGED <<accepted, pending, batch, open, tx, stored, loop, flushDone, history>>

Signal ==
  /\ pc = "signal"
  /\ flushDone' = TRUE
  /\ pc' = "take"
  /\ UNCHANGED <<accepted, pending, batch, open, tx, stored, loop, flushWait, history>>

Thread == ~Forked /\ (Take \/ Write \/ Commit \/ Acknowledge \/ Signal)

\* The process dies and is started again; the database file keeps what was
\* committed and drops the open transaction.
Crash ==
  /\ pending' = None /\ batch' = None /\ tx' = None
  /\ open' = FALSE /\ pc' = "take" /\ loop' = "idle"
  /\ flushWait' = FALSE /\ flushDone' = FALSE
  /\ due' = 0 /\ dueBefore' = 0 /\ lost' = accepted /\ gaveUp' = FALSE
  /\ UNCHANGED <<accepted, stored, discarded>>

Next ==
  \/ \E k \in Kinds : Enqueue(k)
  \/ ConsoleCalls \/ ConsoleWrites \/ ConsoleTimesOut
  \/ FlushCalled \/ FlushReturns \/ FlushTimesOut \/ FlushClears
  \/ Thread
  \/ Crash

Spec == Init /\ [][Next]_vars

\* The thread runs; a call of the loop that can go on does.
FairSpec ==
  /\ Spec
  /\ WF_vars(Thread)
  /\ WF_vars(ConsoleWrites) /\ WF_vars(FlushReturns) /\ WF_vars(FlushClears)
-----------------------------------------------------------------------------
(***************************************************************************)
(* Properties                                                              *)
(***************************************************************************)

\* The thread implements the durable queue: its three buffers together are
\* what waits, one commit stores what was executed, a refused row takes the
\* rest of its batch with it, and nothing else is lost, repeated or reordered.
\* (A key row is a whole record: an older one stored last would undo a newer.)
Unstored == Joined(tx, Joined(batch, pending))
Queue == INSTANCE DurableQueue WITH waiting <- Unstored, Refused <- Poison
KeepsEveryRow == Queue!Spec

\* flush_now may return before the rows of its caller are stored, but a second
\* call makes up for it: the clean exit of a single process (main.py:156, then
\* the atexit hook) loses nothing that was accepted before the first, if
\* neither call timed out.
SecondFlushStores ==
  loop = "clear" /\ ~gaveUp => (lost + 1) .. dueBefore \subseteq In(stored) \cup discarded

\* Every row is stored in the end, unless its batch was refused or the process
\* died first.
EveryRowStored ==
  \A r \in Rows : r <= accepted ~> (r \in In(stored) \cup discarded \/ r <= lost)
=============================================================================
