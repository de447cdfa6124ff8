---------------------------- MODULE Supervision ----------------------------
(***************************************************************************)
(* main.py and run.sh: the main process, the worker processes it starts,   *)
(* the two ports, and the script that starts and stops them.               *)
(*                                                                         *)
(* A process is ended by a signal.  uvicorn catches it, closes its port,   *)
(* waits for the requests under way, puts back the handler it found and    *)
(* raises the signal again.  Of two servers in one process the one started *)
(* last (the console's) is asked first, and the handler it puts back is    *)
(* the other's.  What is raised last meets the handler of main.py, of      *)
(* asyncio, or the system's, which ends the process without any clean-up.  *)
(*                                                                         *)
(* Rows that a request leaves in the queue of its process are "owed" until *)
(* the writer thread stores them (BatchWriter); a forked worker has none.  *)
(***************************************************************************)
EXTENDS FiniteSets

CONSTANTS
  Main,           \* the main process
  Workers,        \* the processes it may start, over all its lives
  Team,           \* settings.workers, where it is more than 1
  Modes,          \* "single" (workers = 1), "multi", or both
  Forked,         \* multiprocessing starts by fork, as on Linux up to 3.13
  NoProc

ASSUME ProcAssumption == Main \notin Workers /\ NoProc \notin Workers \cup {Main}
ASSUME ModeAssumption == Modes \subseteq {"single", "multi"}

VARIABLES
  main,           \* how far the main process is
  mode,           \* which of the two ways it runs
  signal,         \* what ends it
  worker,         \* how far each worker is
  own,            \* the workers of the present main process
  late,           \* those that had no port yet when their main process died
  busy,           \* processes with requests under way
  owed,           \* processes with rows in their queue
  lost,           \* how processes ended that took rows along
  pidfile,        \* whether intergate.pid exists
  script,         \* what run.sh is doing
  again,          \* whether it starts InterGate when it has stopped it
  todo, now       \* the processes it has yet to end, the one it waits for

procs == <<main, mode, signal, worker, own, late>>
rows == <<busy, owed, lost>>
shell == <<pidfile, script, again, todo, now>>
vars == <<procs, rows, shell>>

MainStates == {"off", "boot", "forked", "up", "web", "gateway", "exit", "flushed"}
Causes == {"killed", "signalled", "finished"}

TypeOK ==
  /\ main \in MainStates /\ mode \in {"single", "multi"}
  /\ signal \in {"none", "TERM", "INT"}
  /\ worker \in [Workers -> {"off", "boot", "up", "drain"}]
  /\ own \subseteq Workers /\ late \subseteq Workers \ own
  /\ busy \subseteq Workers \cup {Main} /\ owed \subseteq Workers \cup {Main}
  /\ lost \subseteq Causes
  /\ pidfile \in BOOLEAN /\ again \in BOOLEAN
  /\ script \in {"idle", "kill", "sweep", "ports", "start"}
  /\ todo \subseteq Workers \cup {Main}
  /\ now \in Workers \cup {Main, NoProc}

Init ==
  /\ main = "off" /\ mode \in Modes /\ signal = "none"
  /\ worker = [w \in Workers |-> "off"]
  /\ own = {} /\ late = {} /\ busy = {} /\ owed = {} /\ lost = {}
  /\ pidfile = FALSE /\ script = "idle" /\ again = FALSE /\ todo = {} /\ now = NoProc

AliveWorkers == {w \in Workers : worker[w] # "off"}
Alive == AliveWorkers \cup IF main # "off" THEN {Main} ELSE {}

\* The gateway's port; in one process it is still open while the console's
\* server shuts down.
Listens(p) ==
  IF p = Main THEN mode = "single" /\ main \in {"up", "web"} ELSE worker[p] = "up"
PortTaken == \E p \in Workers \cup {Main} : Listens(p)
ConsoleOpen == main = "up"

Leaving == main \in {"exit", "flushed"}

HasWriter(p) == p = Main \/ ~Forked
-----------------------------------------------------------------------------
(***************************************************************************)
(* How processes end                                                       *)
(***************************************************************************)

\* The processes "gone" are no more, and with them what they owed and served.
Gone(gone, cause) ==
  /\ busy' = busy \ gone
  /\ owed' = owed \ gone
  /\ lost' = lost \cup IF owed \cap gone = {} THEN {} ELSE {cause}

\* Mutant of MainGone: its list of workers outlives it.
MainGoneKeepsTeam ==
  /\ main' = "off" /\ signal' = "none"
  /\ late' = late \cup {w \in own : worker'[w] = "boot"}
  /\ UNCHANGED <<mode, own>>

\* The main process is no more; workers that are left belong to nobody.
MainGone ==
  /\ main' = "off" /\ signal' = "none" /\ own' = {}
  /\ late' = late \cup {w \in own : worker'[w] = "boot"}
  /\ UNCHANGED mode

WorkersGone(gone) ==
  /\ worker' = [w \in Workers |-> IF w \in gone THEN "off" ELSE worker[w]]
  /\ late' = late \ gone
  /\ UNCHANGED <<main, mode, signal, own>>

\* SIGKILL, a crash, no memory left.
Kill(p) ==
  /\ p \in Alive
  /\ Gone({p}, "killed")
  /\ IF p = Main THEN UNCHANGED worker /\ MainGone ELSE WorkersGone({p})

\* SIGTERM for a worker: before its server runs it ends there and then.
Told(w) == CASE worker[w] = "boot" -> "off" [] worker[w] = "up" -> "drain" [] OTHER -> worker[w]

TermWorker(w) ==
  /\ w \in AliveWorkers
  /\ worker' = [worker EXCEPT ![w] = Told(w)]
  /\ late' = late \ {w}
  /\ UNCHANGED <<main, mode, signal, own, rows>>

\* SIGTERM for the main process: while the handlers are not set, and in the
\* clean-up of a single process, the system's ends it there and then, and its
\* workers go on.  With an interrupt under way it has the last word.
TermMain ==
  \/ /\ main \in {"boot", "forked"} \/ (Leaving /\ mode = "single")
     /\ UNCHANGED worker /\ MainGone /\ Gone({Main}, "signalled")
  \/ /\ main \in {"up", "web", "gateway"}
     /\ main' = IF main = "up" THEN "web" ELSE main
     /\ signal' = "TERM"
     /\ UNCHANGED <<mode, worker, own, late, rows>>
  \/ Leaving /\ mode = "multi" /\ UNCHANGED <<procs, rows>>

Term(p) == IF p = Main THEN TermMain ELSE TermWorker(p)

-----------------------------------------------------------------------------
(***************************************************************************)
(* main.py                                                                 *)
(***************************************************************************)

\* The start of a main process, as the settings in the database say.
Launch ==
  /\ main' = "boot" /\ mode' \in Modes
  /\ UNCHANGED <<signal, worker, own, late, rows>>

\* One process: the gateway's server takes its port, then the console's.  A
\* server without a port leaves by SystemExit, through the finally clause.
BootSingle ==
  /\ main = "boot" /\ mode = "single"
  /\ main' = IF PortTaken THEN "exit" ELSE "up"
  /\ UNCHANGED <<mode, signal, worker, own, late, rows, shell>>

\* Several: the workers are started, later the handlers of signals are set.
Fork ==
  /\ main = "boot" /\ mode = "multi"
  /\ \E team \in SUBSET (Workers \ AliveWorkers) :
       /\ Cardinality(team) = Team
       /\ own' = team
       /\ worker' = [w \in Workers |-> IF w \in team THEN "boot" ELSE worker[w]]
  /\ main' = "forked"
  /\ UNCHANGED <<mode, signal, late, rows, shell>>

BootMulti ==
  /\ main = "forked"
  /\ main' = "up"
  /\ UNCHANGED <<mode, signal, worker, own, late, rows, shell>>

\* Control-C.
Interrupt ==
  /\ main = "up"
  /\ main' = "web" /\ signal' = "INT"
  /\ UNCHANGED <<mode, worker, own, late, rows, shell>>

\* The console's server has shut down and raises the signal again: for the
\* gateway's server, or for _shutdown_workers, which ends in the finally clause
\* and so tells the workers that are alive, once and once more.  It has answered
\* what was asked of it, which is all that the main process does if it has workers.
ConsoleEnds ==
  /\ main = "web"
  /\ IF mode = "single"
       THEN main' = "gateway" /\ UNCHANGED <<worker, late>>
       ELSE /\ Main \notin busy
            /\ main' = "exit"
            /\ worker' = [w \in Workers |-> IF w \in own THEN Told(w) ELSE worker[w]]
            /\ UNCHANGED late
  /\ UNCHANGED <<mode, signal, own, rows, shell>>

\* The gateway's server has answered what was under way.  The handler found for
\* SIGTERM is the system's, for SIGINT that of asyncio, which cancels gather.
GatewayEnds ==
  /\ main = "gateway" /\ Main \notin busy
  /\ \/ /\ signal = "TERM"
        /\ UNCHANGED worker /\ MainGone /\ Gone({Main}, "signalled")
     \/ /\ signal = "INT"
        /\ main' = "exit"
        /\ UNCHANGED <<mode, signal, worker, own, late, rows>>
  /\ UNCHANGED shell

\* Mutant of Flush: nothing is flushed.
FlushNothing ==
  /\ main = "exit"
  /\ main' = "flushed"
  /\ UNCHANGED <<mode, signal, worker, own, late, rows, shell>>

\* The finally clause and the hook at exit, which flush the queue twice: that is
\* what it takes (SecondFlushStores of BatchWriter).
Flush ==
  /\ main = "exit"
  /\ main' = "flushed"
  /\ owed' = owed \ {Main}
  /\ UNCHANGED <<mode, signal, worker, own, late, busy, lost, shell>>

\* multiprocessing waits for its daemons, without limit.
Leave ==
  /\ main = "flushed"
  /\ own \cap AliveWorkers = {}
  /\ UNCHANGED <<worker, shell>> /\ MainGone /\ Gone({Main}, "finished")
-----------------------------------------------------------------------------
(***************************************************************************)
(* Workers and requests                                                    *)
(***************************************************************************)

\* A worker takes the port without reuse_port: if another has it, it leaves
\* by SystemExit.
Bind(w) ==
  /\ worker[w] = "boot"
  /\ IF PortTaken
       THEN WorkersGone({w})
       ELSE worker' = [worker EXCEPT ![w] = "up"] /\ UNCHANGED <<main, mode, signal, own, late>>
  /\ UNCHANGED <<rows, shell>>

\* Its server has shut down on SIGTERM and raises it for the system's handler.
Drained(w) ==
  /\ worker[w] = "drain" /\ w \notin busy
  /\ WorkersGone({w}) /\ Gone({w}, "signalled")
  /\ UNCHANGED shell

\* A request to the gateway; or one to the console that tests a key.
Request(p) ==
  /\ Listens(p) \/ (p = Main /\ ConsoleOpen)
  /\ busy' = busy \cup {p}
  /\ UNCHANGED <<procs, owed, lost, shell>>

\* A request ends, perhaps the last one, with a log row and usage to store.
Finish(p) ==
  /\ p \in busy
  /\ busy' \in {busy, busy \ {p}}
  /\ owed' = owed \cup {p}
  /\ UNCHANGED <<procs, lost, shell>>

Write(p) ==
  /\ p \in owed /\ HasWriter(p)
  /\ owed' = owed \ {p}
  /\ UNCHANGED <<procs, busy, lost, shell>>
-----------------------------------------------------------------------------
(***************************************************************************)
(* run.sh                                                                  *)
(***************************************************************************)
IsRunning == (pidfile /\ main # "off") \/ PortTaken \/ ConsoleOpen

\* Mutant of Start: only the pid file is looked at.
StartBlindly ==
  /\ script \in {"idle", "start"}
  /\ script' = "idle"
  /\ \/ pidfile /\ main # "off" /\ UNCHANGED <<procs, rows, pidfile>>
     \/ main = "off" /\ Launch /\ pidfile' = TRUE
  /\ UNCHANGED <<again, todo, now>>

Start ==
  /\ script \in {"idle", "start"}
  /\ script' = "idle"
  /\ \/ IsRunning /\ UNCHANGED <<procs, rows, pidfile>>
     \/ ~IsRunning /\ Launch /\ pidfile' = TRUE
  /\ UNCHANGED <<again, todo, now>>

\* The processes that pgrep finds by the command line of main.py: a forked
\* worker has its parent's, a spawned one has its own.
Found == IF Forked THEN Alive ELSE Alive \cap {Main}

\* stop, or restart: the main process by its pid file, or else all it finds.
Stop ==
  /\ script = "idle"
  /\ again' \in BOOLEAN
  /\ \/ pidfile /\ main # "off" /\ script' = "kill" /\ todo' = {Main}
     \/ ~(pidfile /\ main # "off") /\ script' = "sweep" /\ todo' = Found
  /\ UNCHANGED <<procs, rows, pidfile, now>>

Ending == script \in {"kill", "sweep"}

\* term_wait_kill, its steps.
TermNext(p) ==
  /\ Ending /\ now = NoProc /\ p \in todo
  /\ todo' = todo \ {p}
  /\ IF p \in Alive THEN now' = p /\ Term(p) ELSE UNCHANGED <<now, procs, rows>>
  /\ UNCHANGED <<pidfile, script, again>>

WaitOver ==
  /\ now # NoProc /\ now \notin Alive
  /\ now' = NoProc
  /\ UNCHANGED <<procs, rows, pidfile, script, again, todo>>

\* Mutant of KillNow: the time is up, and that is all.
KillNowGivesUp ==
  /\ now # NoProc
  /\ now' = NoProc
  /\ UNCHANGED <<procs, rows, pidfile, script, again, todo>>

\* Mutant of KillNow: no time-out.
KillNowNever == FALSE

KillNow ==
  /\ now # NoProc
  /\ Kill(now)
  /\ now' = NoProc
  /\ UNCHANGED <<pidfile, script, again, todo>>

\* All of them have ended.
AllEnded ==
  /\ Ending /\ now = NoProc /\ todo = {}
  /\ pidfile' = FALSE /\ script' = "ports"
  /\ UNCHANGED <<procs, rows, again, todo, now>>

\* The ports are free, or the 15 seconds are over.
PortsWaited ==
  /\ script = "ports"
  /\ script' = (IF again THEN "start" ELSE "idle") /\ again' = FALSE
  /\ UNCHANGED <<procs, rows, pidfile, todo, now>>
-----------------------------------------------------------------------------
Crash(p) == Kill(p) /\ UNCHANGED shell

\* SIGTERM from somebody else, the console's restart button among them.
Terminated(p) == p \in Alive /\ Term(p) /\ UNCHANGED shell

\* What run.sh does by itself once it was called.
Proceed ==
  \/ script = "start" /\ Start
  \/ WaitOver \/ KillNow \/ AllEnded \/ PortsWaited
  \/ \E p \in Workers \cup {Main} : TermNext(p)

Next ==
  \/ Start \/ Stop \/ Proceed
  \/ BootSingle \/ Fork \/ BootMulti
  \/ Interrupt \/ ConsoleEnds \/ GatewayEnds \/ Flush \/ Leave
  \/ \E w \in Workers : Bind(w) \/ Drained(w)
  \/ \E p \in Workers \cup {Main} :
       Request(p) \/ Finish(p) \/ Write(p) \/ Crash(p) \/ Terminated(p)

Spec == Init /\ [][Next]_vars

\* The script goes on by itself; nothing is assumed of requests, which may keep
\* a server from shutting down for ever.
FairSpec == Spec /\ WF_vars(Proceed)
-----------------------------------------------------------------------------
(***************************************************************************)
(* Properties                                                              *)
(***************************************************************************)

\* A worker of an earlier main process holds the port under a later one only if
\* it had none yet when its own died: the check before a start sees the others.
PortOfThePresent ==
  main # "off" => \A w \in Workers \ own : worker[w] = "up" => w \in late

\* A process that leaves through the finally clauses of main.py takes no rows
\* along: none of the requests it answers while it shuts down ends after its
\* queue was flushed.
FinallyLosesNothing == "finished" \notin lost

\* README:120: no process that is stopped takes rows along, unless by SIGKILL.
StopsLoseNothing == lost \subseteq {"killed"}

\* When the script has ended what it set out to end the main process is gone,
\* and after a sweep everything is, the workers a killed main process left
\* included.
StopsAreComplete ==
  Ending /\ todo = {} /\ now = NoProc =>
    main = "off" /\ (script = "sweep" /\ Forked => Alive = {})

\* A stop returns, whatever requests are under way and whoever else sends
\* signals meanwhile.
EveryStopReturns == Ending ~> script = "idle"
=============================================================================
