------------------------- MODULE SupervisionProofs -------------------------
(***************************************************************************)
(* Theorems about Supervision, for any number of workers, any size of a    *)
(* team, both modes and both ways to start a process.                      *)
(*                                                                         *)
(* The argument has four parts.  A worker that belongs to nobody and has   *)
(* not tried to take the port is known to be late (Latecomers), so a start *)
(* that finds the port free lets no other worker have it.  Without a pid   *)
(* file there is no main process (Recorded), so a start never makes a      *)
(* second one.  What the script has not ended yet is in its list or is     *)
(* waited for (Hunted).  Once the main process leaves, nothing is under    *)
(* way in it, so nothing is owed after the flush (Settled).                *)
(***************************************************************************)
EXTENDS Supervision, FiniteSetTheorems, TLAPS

\* Whoever belongs to nobody and has no port yet is known to be late.
Latecomers ==
  /\ late \subseteq AliveWorkers
  /\ \A w \in Workers \ own : worker[w] = "boot" => w \in late

Childless == main \in {"off", "boot"} => own = {}

Settled ==
  /\ main \in {"off", "boot", "forked", "exit", "flushed"} => Main \notin busy
  /\ main = "flushed" => Main \notin owed

Recorded == ~pidfile => main = "off"

Hunted ==
  /\ script = "kill" => main = "off" \/ Main \in todo \/ now = Main
  /\ script = "sweep" => main = "off" /\ (Forked => AliveWorkers \subseteq todo \cup {now})

\* The two halves of TypeOK: of the processes, and of the script.
ProcsType ==
  /\ main \in MainStates /\ mode \in {"single", "multi"}
  /\ signal \in {"none", "TERM", "INT"}
  /\ worker \in [Workers -> {"off", "boot", "up", "drain"}]
  /\ own \subseteq Workers /\ late \subseteq Workers \ own
  /\ busy \subseteq Workers \cup {Main} /\ owed \subseteq Workers \cup {Main}
  /\ lost \subseteq Causes

ShellType ==
  /\ pidfile \in BOOLEAN /\ again \in BOOLEAN
  /\ script \in {"idle", "kill", "sweep", "ports", "start"}
  /\ todo \subseteq Workers \cup {Main}
  /\ now \in Workers \cup {Main, NoProc}

\* What the processes keep by themselves, and what the script keeps of them.
ProcsInv ==
  /\ ProcsType /\ Latecomers /\ Childless
  /\ PortOfThePresent /\ Settled /\ FinallyLosesNothing

ShellInv == ShellType /\ Recorded /\ Hunted

Good == ProcsInv /\ ShellInv

\* What a process does of itself starts nothing once there is no main process.
StartsNothing == main = "off" => main' = "off" /\ AliveWorkers' \subseteq AliveWorkers

LEMMA TypeHalves == TypeOK <=> ProcsType /\ ShellType
BY DEF TypeOK, ProcsType, ShellType

LEMMA InitGood == Init => Good
<1> SUFFICES ASSUME Init PROVE Good
  OBVIOUS
<1>1. ProcsType /\ ShellType
  BY ModeAssumption DEF Init, ProcsType, ShellType, MainStates
<1>2. Latecomers /\ Childless /\ PortOfThePresent /\ Settled /\ FinallyLosesNothing
  BY DEF Init, Latecomers, Childless, PortOfThePresent, Settled, FinallyLosesNothing
<1>3. Recorded /\ Hunted
  BY DEF Init, Recorded, Hunted
<1> QED BY <1>1, <1>2, <1>3 DEF Good, ProcsInv, ShellInv

(***************************************************************************)
(* How processes end.                                                      *)
(***************************************************************************)
LEMMA MainGoneKeeps ==
  ASSUME ProcsInv, NEW cause \in Causes, cause = "finished" => main = "flushed",
         UNCHANGED worker, MainGone, Gone({Main}, cause)
  PROVE  ProcsInv' /\ StartsNothing
<1> USE DEF ProcsInv, MainGone
<1>1. ProcsType'
  BY DEF ProcsType, MainStates, Gone
<1>2. Latecomers'
  BY DEF ProcsType, Latecomers, AliveWorkers
<1>3. Childless' /\ PortOfThePresent'
  BY DEF Childless, PortOfThePresent
<1>4. Settled'
  BY DEF Settled, Gone
<1>5. FinallyLosesNothing'
  BY DEF Settled, FinallyLosesNothing, Gone
<1>6. StartsNothing
  BY DEF StartsNothing, AliveWorkers
<1> QED BY <1>1, <1>2, <1>3, <1>4, <1>5, <1>6

\* Workers that end, with what they owe or before they owe anything.
LEMMA WorkersGoneKeeps ==
  ASSUME ProcsInv, NEW gone \in SUBSET Workers, WorkersGone(gone),
         UNCHANGED rows \/ Gone(gone, "killed") \/ Gone(gone, "signalled")
  PROVE  ProcsInv' /\ StartsNothing
<1> USE DEF ProcsInv, WorkersGone
<1>0. Main \notin gone
  BY ProcAssumption
<1>1. ProcsType'
  <2>1. busy' \subseteq busy /\ owed' \subseteq owed /\ lost' \subseteq Causes
    BY DEF ProcsType, Gone, rows, Causes
  <2>2. late' \subseteq Workers \ own'
    BY DEF ProcsType
  <2> QED BY <2>1, <2>2 DEF ProcsType
<1>2. Latecomers'
  BY DEF ProcsType, Latecomers, AliveWorkers
<1>3. Childless'
  BY DEF Childless
<1>4. PortOfThePresent'
  BY DEF ProcsType, PortOfThePresent
<1>5. Settled'
  BY <1>0 DEF Settled, Gone, rows
<1>6. FinallyLosesNothing'
  BY DEF FinallyLosesNothing, Gone, rows
<1>7. StartsNothing
  BY DEF ProcsType, StartsNothing, AliveWorkers
<1> QED BY <1>1, <1>2, <1>3, <1>4, <1>5, <1>6, <1>7

LEMMA KillKeeps ==
  ASSUME ProcsInv, NEW p \in Workers \cup {Main}, Kill(p)
  PROVE  ProcsInv' /\ StartsNothing /\ p \notin Alive'
<1>1. CASE p = Main
  <2>1. ProcsInv' /\ StartsNothing
    BY <1>1, MainGoneKeeps DEF Kill, Causes
  <2>2. main' = "off"
    BY <1>1 DEF Kill, MainGone
  <2> QED BY <1>1, <2>1, <2>2, ProcAssumption DEF Alive, AliveWorkers
<1>2. CASE p # Main
  <2>1. WorkersGone({p}) /\ Gone({p}, "killed") /\ p \in Workers
    BY <1>2 DEF Kill
  <2>2. ProcsInv' /\ StartsNothing
    BY <2>1, WorkersGoneKeeps
  <2>3. worker'[p] = "off"
    BY <2>1 DEF WorkersGone
  <2> QED BY <1>2, <2>2, <2>3 DEF Alive, AliveWorkers
<1> QED BY <1>1, <1>2

\* A signal never makes a worker one that has, or may yet take, the port.
LEMMA TermWorkerKeeps ==
  ASSUME ProcsInv, NEW w \in Workers, TermWorker(w)
  PROVE  ProcsInv' /\ StartsNothing
<1> USE DEF ProcsInv, TermWorker, rows
<1>1. ProcsType'
  <2>1. Told(w) \in {"off", "boot", "up", "drain"}
    BY DEF ProcsType, Told
  <2> QED BY <2>1 DEF ProcsType
<1>2. worker'[w] \in {"off", "drain"} /\ \A v \in Workers \ {w} : worker'[v] = worker[v]
  BY DEF ProcsType, Told
<1>3. Latecomers'
  BY <1>2 DEF Latecomers, AliveWorkers
<1>4. Childless' /\ Settled' /\ FinallyLosesNothing'
  BY DEF Childless, Settled, FinallyLosesNothing
<1>5. PortOfThePresent'
  BY <1>2 DEF PortOfThePresent
<1>6. StartsNothing
  BY <1>2 DEF StartsNothing, AliveWorkers
<1> QED BY <1>1, <1>3, <1>4, <1>5, <1>6

\* The steps of the main process that leave the workers and the rows alone.
LEMMA MainMovesKeeps ==
  ASSUME ProcsInv, UNCHANGED <<mode, worker, own, late, rows>>,
         main' \in MainStates, signal' \in {"none", "TERM", "INT"},
         main # "off", main' \notin {"off", "boot", "forked", "flushed"},
         main' = "exit" => Main \notin busy
  PROVE  ProcsInv' /\ StartsNothing
<1> USE DEF ProcsInv, rows
<1>1. ProcsType'
  BY DEF ProcsType
<1>2. Latecomers' /\ Childless' /\ FinallyLosesNothing'
  BY DEF Latecomers, AliveWorkers, Childless, FinallyLosesNothing
<1>3. PortOfThePresent' /\ Settled'
  BY DEF PortOfThePresent, Settled
<1>4. StartsNothing
  BY DEF StartsNothing
<1> QED BY <1>1, <1>2, <1>3, <1>4

LEMMA TermKeeps ==
  ASSUME ProcsInv, NEW p \in Alive, Term(p)
  PROVE  ProcsInv' /\ StartsNothing
<1>1. CASE p # Main
  BY <1>1, TermWorkerKeeps DEF Term, Alive, AliveWorkers
<1>2. CASE p = Main
  <2>1. TermMain
    BY <1>2 DEF Term
  <2>2. main # "off"
    BY <1>2, ProcAssumption DEF Alive, AliveWorkers
  <2>3. CASE UNCHANGED worker /\ MainGone /\ Gone({Main}, "signalled")
    BY <2>3, MainGoneKeeps DEF Causes
  <2>4. CASE /\ main \in {"up", "web", "gateway"}
             /\ main' = IF main = "up" THEN "web" ELSE main
             /\ signal' = "TERM"
             /\ UNCHANGED <<mode, worker, own, late, rows>>
    <3>1. main' \in {"web", "gateway"}
      BY <2>4
    <3> QED BY <2>4, <3>1, MainMovesKeeps DEF MainStates
  <2>5. CASE UNCHANGED <<procs, rows>>
    BY <2>5 DEF procs, rows, ProcsInv, ProcsType, Latecomers, AliveWorkers, Childless,
                PortOfThePresent, Settled, FinallyLosesNothing, StartsNothing
  <2> QED BY <2>1, <2>3, <2>4, <2>5 DEF TermMain
<1> QED BY <1>1, <1>2

(***************************************************************************)
(* main.py.                                                                *)
(***************************************************************************)

\* A start that finds the port free: no worker of before holds it, and those
\* that may still take it are known.
LEMMA LaunchKeeps ==
  ASSUME ProcsInv, Recorded, ~IsRunning, Launch
  PROVE  ProcsInv' /\ main = "off"
<1> USE DEF ProcsInv, Launch, rows
<1>1. main = "off"
  BY DEF Recorded, IsRunning
<1>2. \A w \in Workers : worker[w] # "up"
  BY ProcAssumption DEF IsRunning, PortTaken, Listens
<1>3. ProcsType'
  BY ModeAssumption DEF ProcsType, MainStates
<1>4. Latecomers' /\ Childless' /\ FinallyLosesNothing'
  BY <1>1 DEF Latecomers, AliveWorkers, Childless, FinallyLosesNothing
<1>5. PortOfThePresent' /\ Settled'
  BY <1>1, <1>2 DEF PortOfThePresent, Settled
<1> QED BY <1>1, <1>3, <1>4, <1>5

\* The new workers are none of those that belong to nobody: these are alive.
LEMMA ForkKeeps ==
  ASSUME ProcsInv, Fork
  PROVE  ProcsInv' /\ StartsNothing
<1> USE DEF ProcsInv, rows
<1>1. PICK team \in SUBSET (Workers \ AliveWorkers) :
        /\ own' = team
        /\ worker' = [w \in Workers |-> IF w \in team THEN "boot" ELSE worker[w]]
  BY DEF Fork
<1>2. /\ main = "boot" /\ main' = "forked" /\ own = {}
      /\ UNCHANGED <<mode, signal, late, busy, owed, lost>>
  BY DEF Fork, Childless
<1>3. late \cap team = {}
  BY <1>1 DEF Latecomers
<1>4. ProcsType'
  BY <1>1, <1>2, <1>3 DEF ProcsType, MainStates
<1>5. Latecomers'
  BY <1>1, <1>2, <1>3 DEF ProcsType, Latecomers, AliveWorkers
<1>6. Childless' /\ Settled' /\ FinallyLosesNothing' /\ StartsNothing
  BY <1>2 DEF Childless, Settled, FinallyLosesNothing, StartsNothing
<1>7. PortOfThePresent'
  BY <1>1, <1>2 DEF ProcsType, PortOfThePresent
<1> QED BY <1>4, <1>5, <1>6, <1>7

LEMMA BootKeeps ==
  ASSUME ProcsInv, BootSingle \/ BootMulti \/ Interrupt
  PROVE  ProcsInv' /\ StartsNothing
<1>1. /\ UNCHANGED <<mode, worker, own, late, rows>>
      /\ main' \in {"exit", "up", "web"} /\ main \in {"boot", "forked", "up"}
      /\ main' = "exit" => main = "boot"
      /\ signal' \in {signal, "INT"}
  BY DEF BootSingle, BootMulti, Interrupt
<1>2. main' = "exit" => Main \notin busy
  BY <1>1 DEF ProcsInv, Settled
<1>3. main' \in MainStates /\ signal' \in {"none", "TERM", "INT"}
  BY <1>1 DEF ProcsInv, ProcsType, MainStates
<1> QED BY <1>1, <1>2, <1>3, MainMovesKeeps

LEMMA ConsoleEndsKeeps ==
  ASSUME ProcsInv, ConsoleEnds
  PROVE  ProcsInv' /\ StartsNothing
<1> USE DEF ProcsInv, rows
<1>1. CASE mode = "single"
  <2>1. /\ UNCHANGED <<mode, signal, worker, own, late, rows>>
        /\ main = "web" /\ main' = "gateway"
    BY <1>1 DEF ConsoleEnds
  <2>2. signal' \in {"none", "TERM", "INT"} /\ main' \in MainStates
    BY <2>1 DEF ProcsType, MainStates
  <2> QED BY <2>1, <2>2, MainMovesKeeps
<1>2. CASE mode # "single"
  <2>1. /\ main = "web" /\ main' = "exit" /\ Main \notin busy
        /\ worker' = [w \in Workers |-> IF w \in own THEN Told(w) ELSE worker[w]]
        /\ UNCHANGED <<mode, signal, own, late, busy, owed, lost>>
    BY <1>2 DEF ConsoleEnds
  <2>2. \A w \in Workers : Told(w) \in {"off", "boot", "up", "drain"}
    BY DEF ProcsType, Told
  <2>3. ProcsType'
    BY <2>1, <2>2 DEF ProcsType, MainStates
  <2>4. \A w \in Workers \ own : worker'[w] = worker[w]
    BY <2>1
  <2>5. Latecomers'
    BY <2>1, <2>4 DEF ProcsType, Latecomers, AliveWorkers
  <2>6. Childless' /\ Settled' /\ FinallyLosesNothing' /\ StartsNothing
    BY <2>1 DEF Childless, Settled, FinallyLosesNothing, StartsNothing
  <2>7. PortOfThePresent'
    BY <2>1, <2>4 DEF PortOfThePresent
  <2> QED BY <2>3, <2>5, <2>6, <2>7
<1> QED BY <1>1, <1>2

LEMMA GatewayEndsKeeps ==
  ASSUME ProcsInv, GatewayEnds
  PROVE  ProcsInv' /\ StartsNothing
<1>1. CASE UNCHANGED worker /\ MainGone /\ Gone({Main}, "signalled")
  BY <1>1, MainGoneKeeps DEF Causes
<1>2. CASE main' = "exit" /\ UNCHANGED <<mode, signal, worker, own, late, rows>>
  <2>1. main = "gateway" /\ Main \notin busy
    BY DEF GatewayEnds
  <2>2. signal' \in {"none", "TERM", "INT"} /\ main' \in MainStates
    BY <1>2 DEF ProcsInv, ProcsType, MainStates
  <2> QED BY <1>2, <2>1, <2>2, MainMovesKeeps
<1> QED BY <1>1, <1>2 DEF GatewayEnds

LEMMA FlushKeeps ==
  ASSUME ProcsInv, Flush
  PROVE  ProcsInv' /\ StartsNothing
<1> USE DEF ProcsInv, Flush
<1>1. ProcsType'
  BY DEF ProcsType, MainStates
<1>2. Latecomers' /\ Childless' /\ FinallyLosesNothing' /\ StartsNothing
  BY DEF Latecomers, AliveWorkers, Childless, FinallyLosesNothing, StartsNothing
<1>3. PortOfThePresent' /\ Settled'
  BY DEF PortOfThePresent, Settled
<1> QED BY <1>1, <1>2, <1>3

LEMMA LeaveKeeps ==
  ASSUME ProcsInv, Leave
  PROVE  ProcsInv' /\ StartsNothing
BY MainGoneKeeps DEF Leave, Causes

(***************************************************************************)
(* Workers and requests.                                                   *)
(***************************************************************************)
LEMMA BindKeeps ==
  ASSUME ProcsInv, NEW w \in Workers, Bind(w)
  PROVE  ProcsInv' /\ StartsNothing
<1> USE DEF ProcsInv, rows
<1>1. CASE PortTaken
  BY <1>1, WorkersGoneKeeps DEF Bind
<1>2. CASE ~PortTaken
  <2>1. /\ worker[w] = "boot" /\ worker' = [worker EXCEPT ![w] = "up"]
        /\ UNCHANGED <<main, mode, signal, own, late, busy, owed, lost>>
    BY <1>2 DEF Bind
  <2>2. ProcsType'
    BY <2>1 DEF ProcsType
  <2>3. Latecomers'
    BY <2>1 DEF ProcsType, Latecomers, AliveWorkers
  <2>4. Childless' /\ Settled' /\ FinallyLosesNothing'
    BY <2>1 DEF Childless, Settled, FinallyLosesNothing
  <2>5. PortOfThePresent'
    BY <2>1 DEF ProcsType, Latecomers, PortOfThePresent
  <2>6. StartsNothing
    BY <2>1 DEF ProcsType, StartsNothing, AliveWorkers
  <2> QED BY <2>2, <2>3, <2>4, <2>5, <2>6
<1> QED BY <1>1, <1>2

LEMMA DrainedKeeps ==
  ASSUME ProcsInv, NEW w \in Workers, Drained(w)
  PROVE  ProcsInv' /\ StartsNothing
BY WorkersGoneKeeps DEF Drained

\* A request is accepted by a process whose port is open, so never by a main
\* process on its way out, or one that has not started its servers.
LEMMA RequestsKeep ==
  ASSUME ProcsInv, NEW p \in Workers \cup {Main}, Request(p) \/ Finish(p) \/ Write(p)
  PROVE  ProcsInv' /\ StartsNothing
<1> USE DEF ProcsInv
<1>1. UNCHANGED <<main, mode, signal, worker, own, late, lost>>
  BY DEF Request, Finish, Write, procs
<1>2. ProcsType'
  BY <1>1 DEF Request, Finish, Write, ProcsType
<1>3. Settled'
  BY <1>1 DEF Request, Finish, Write, Settled, Listens, ConsoleOpen
<1>4. Latecomers' /\ Childless' /\ PortOfThePresent' /\ FinallyLosesNothing'
  BY <1>1 DEF Latecomers, AliveWorkers, Childless, PortOfThePresent, FinallyLosesNothing
<1>5. StartsNothing
  BY <1>1 DEF StartsNothing, AliveWorkers
<1> QED BY <1>2, <1>3, <1>4, <1>5

(***************************************************************************)
(* run.sh.                                                                 *)
(***************************************************************************)
LEMMA SameProcs ==
  ASSUME ProcsInv, UNCHANGED <<procs, rows>>
  PROVE  ProcsInv' /\ StartsNothing
BY DEF procs, rows, ProcsInv, ProcsType, Latecomers, AliveWorkers, Childless,
       PortOfThePresent, Settled, FinallyLosesNothing, StartsNothing

LEMMA SameShell ==
  ASSUME ShellInv, UNCHANGED shell, StartsNothing
  PROVE  ShellInv'
BY DEF shell, ShellInv, ShellType, Recorded, Hunted, StartsNothing

LEMMA StartKeeps ==
  ASSUME Good, Start
  PROVE  Good'
<1> USE DEF Good
<1>1. /\ script' = "idle" /\ UNCHANGED <<again, todo, now>>
      /\ \/ UNCHANGED <<procs, rows, pidfile>>
         \/ ~IsRunning /\ Launch /\ pidfile' = TRUE
  BY DEF Start
<1>2. ProcsInv'
  BY <1>1, SameProcs, LaunchKeeps DEF ShellInv
<1>3. ShellInv'
  BY <1>1 DEF ShellInv, ShellType, Recorded, Hunted, procs
<1> QED BY <1>2, <1>3

LEMMA StopKeeps ==
  ASSUME Good, Stop
  PROVE  Good'
<1> USE DEF Good
<1>1. ProcsInv' /\ UNCHANGED <<main, worker, pidfile, now>>
  BY SameProcs DEF Stop, procs
<1>2. Found \subseteq Workers \cup {Main} /\ (Forked => AliveWorkers \subseteq Found)
  BY DEF Found, Alive, AliveWorkers
<1>3. again' \in BOOLEAN
  BY DEF Stop
<1>4. CASE pidfile /\ main # "off" /\ script' = "kill" /\ todo' = {Main}
  BY <1>1, <1>3, <1>4 DEF ShellInv, ShellType, Recorded, Hunted
<1>5. CASE ~(pidfile /\ main # "off") /\ script' = "sweep" /\ todo' = Found
  <2>1. main = "off"
    BY <1>5 DEF ShellInv, Recorded, ShellType
  <2>2. ShellType' /\ Recorded'
    BY <1>1, <1>2, <1>3, <1>5 DEF ShellInv, ShellType, Recorded
  <2>3. AliveWorkers' = AliveWorkers
    BY <1>1 DEF AliveWorkers
  <2>4. Hunted'
    BY <1>1, <1>2, <1>5, <2>1, <2>3 DEF Hunted
  <2> QED BY <1>1, <2>2, <2>4 DEF ShellInv
<1> QED BY <1>1, <1>4, <1>5 DEF Stop

\* What leaves the list is waited for, or had ended already.
LEMMA TermNextKeeps ==
  ASSUME Good, NEW p \in Workers \cup {Main}, TermNext(p)
  PROVE  Good'
<1> USE DEF Good
<1>1. /\ Ending /\ now = NoProc /\ todo' = todo \ {p}
      /\ UNCHANGED <<pidfile, script, again>>
  BY DEF TermNext
<1>2. CASE p \in Alive
  <2>1. now' = p /\ Term(p)
    BY <1>2 DEF TermNext
  <2>2. ProcsInv' /\ StartsNothing
    BY <1>2, <2>1, TermKeeps
  <2>3. ShellType' /\ Recorded'
    BY <1>1, <2>1, <2>2 DEF ShellInv, ShellType, Recorded, StartsNothing
  <2>4. NoProc \notin AliveWorkers
    BY ProcAssumption DEF AliveWorkers
  <2>5. Hunted'
    BY <1>1, <2>1, <2>2, <2>4, ProcAssumption DEF ShellInv, Hunted, StartsNothing
  <2> QED BY <2>2, <2>3, <2>5 DEF ShellInv
<1>3. CASE p \notin Alive
  <2>1. UNCHANGED <<now, procs, rows>>
    BY <1>3 DEF TermNext
  <2>2. ProcsInv' /\ StartsNothing /\ main' = main
    BY <2>1, SameProcs DEF procs
  <2>3. p \notin AliveWorkers /\ (p = Main => main = "off")
    BY <1>3 DEF Alive
  <2>4. ShellType' /\ Recorded'
    BY <1>1, <2>1, <2>2 DEF ShellInv, ShellType, Recorded
  <2>5. Hunted'
    BY <1>1, <2>1, <2>2, <2>3 DEF ShellInv, Hunted, StartsNothing
  <2> QED BY <2>2, <2>4, <2>5 DEF ShellInv
<1> QED BY <1>2, <1>3

LEMMA WaitOverKeeps ==
  ASSUME Good, WaitOver
  PROVE  Good'
<1> USE DEF Good, WaitOver
<1>1. ProcsInv' /\ StartsNothing /\ main' = main
  BY SameProcs DEF procs
<1>2. now \notin AliveWorkers /\ (now = Main => main = "off")
  BY DEF Alive
<1>3. ShellType' /\ Recorded'
  BY <1>1 DEF ShellInv, ShellType, Recorded
<1>4. Hunted'
  BY <1>1, <1>2 DEF ShellInv, Hunted, StartsNothing
<1> QED BY <1>1, <1>3, <1>4 DEF ShellInv

LEMMA KillNowKeeps ==
  ASSUME Good, KillNow
  PROVE  Good'
<1> USE DEF Good
<1>1. now \in Workers \cup {Main} /\ Kill(now)
  BY DEF KillNow, ShellInv, ShellType
<1>2. ProcsInv' /\ StartsNothing /\ now \notin Alive'
  BY <1>1, KillKeeps
<1>3. now' = NoProc /\ UNCHANGED <<pidfile, script, again, todo>>
  BY DEF KillNow
<1>4. now \notin AliveWorkers' /\ (now = Main => main' = "off")
  BY <1>2 DEF Alive
<1>5. ShellType' /\ Recorded'
  BY <1>2, <1>3 DEF ShellInv, ShellType, Recorded, StartsNothing
<1>6. Hunted'
  BY <1>2, <1>3, <1>4 DEF ShellInv, Hunted, StartsNothing
<1> QED BY <1>2, <1>5, <1>6 DEF ShellInv

LEMMA AllEndedKeeps ==
  ASSUME Good, AllEnded
  PROVE  Good'
<1> USE DEF Good, AllEnded
<1>1. ProcsInv' /\ main' = main
  BY SameProcs DEF procs
<1>2. main = "off"
  BY ProcAssumption DEF ShellInv, Hunted, Ending
<1>3. ShellInv'
  BY <1>1, <1>2 DEF ShellInv, ShellType, Recorded, Hunted
<1> QED BY <1>1, <1>3

LEMMA PortsWaitedKeeps ==
  ASSUME Good, PortsWaited
  PROVE  Good'
<1> USE DEF Good, PortsWaited
<1>1. ProcsInv' /\ main' = main
  BY SameProcs DEF procs
<1>2. ShellInv'
  BY <1>1 DEF ShellInv, ShellType, Recorded, Hunted
<1> QED BY <1>1, <1>2

(***************************************************************************)
(* The invariant.                                                          *)
(***************************************************************************)
LEMMA GoodStep == Good /\ [Next]_vars => Good'
<1> SUFFICES ASSUME Good, [Next]_vars PROVE Good'
  OBVIOUS
<1> USE DEF Good
<1>1. CASE ProcsInv' /\ StartsNothing /\ UNCHANGED shell
  BY <1>1, SameShell
<1>2. CASE Start
  BY <1>2, StartKeeps
<1>3. CASE Stop
  BY <1>3, StopKeeps
<1>4. CASE Proceed
  BY <1>4, StartKeeps, WaitOverKeeps, KillNowKeeps, AllEndedKeeps, PortsWaitedKeeps,
     TermNextKeeps DEF Proceed
<1>5. CASE BootSingle \/ BootMulti \/ Interrupt
  BY <1>1, <1>5, BootKeeps DEF BootSingle, BootMulti, Interrupt
<1>6. CASE Fork
  BY <1>1, <1>6, ForkKeeps DEF Fork
<1>7. CASE ConsoleEnds
  BY <1>1, <1>7, ConsoleEndsKeeps DEF ConsoleEnds
<1>8. CASE GatewayEnds
  BY <1>1, <1>8, GatewayEndsKeeps DEF GatewayEnds
<1>9. CASE Flush
  BY <1>1, <1>9, FlushKeeps DEF Flush
<1>10. CASE Leave
  BY <1>1, <1>10, LeaveKeeps DEF Leave
<1>11. ASSUME NEW w \in Workers, Bind(w) PROVE Good'
  BY <1>1, <1>11, BindKeeps DEF Bind
<1>12. ASSUME NEW w \in Workers, Drained(w) PROVE Good'
  BY <1>1, <1>12, DrainedKeeps DEF Drained
<1>13. ASSUME NEW p \in Workers \cup {Main}, Request(p) \/ Finish(p) \/ Write(p) PROVE Good'
  BY <1>1, <1>13, RequestsKeep DEF Request, Finish, Write
<1>14. ASSUME NEW p \in Workers \cup {Main}, Crash(p) PROVE Good'
  BY <1>1, <1>14, KillKeeps DEF Crash
<1>15. ASSUME NEW p \in Workers \cup {Main}, Terminated(p) PROVE Good'
  BY <1>1, <1>15, TermKeeps DEF Terminated
<1>16. CASE UNCHANGED vars
  BY <1>1, <1>16, SameProcs DEF vars
<1> QED
  BY <1>2, <1>3, <1>4, <1>5, <1>6, <1>7, <1>8, <1>9, <1>10, <1>11, <1>12, <1>13,
     <1>14, <1>15, <1>16 DEF Next

LEMMA AlwaysGood == Spec => []Good
<1>1. Init => Good
  BY InitGood
<1>2. Good /\ [Next]_vars => Good'
  BY GoodStep
<1> QED BY <1>1, <1>2, PTL DEF Spec

\* Every variable of the model of main.py and run.sh keeps its type.
THEOREM SupervisionTypeCorrect == Spec => []TypeOK
<1>1. Good => TypeOK
  BY TypeHalves DEF Good, ProcsInv, ShellInv
<1> QED BY <1>1, AlwaysGood, PTL

\* However often processes crash, are stopped and are started again, and with
\* however many workers: the worker that holds the gateway's port is one of the
\* present main process, or one that had not bound it when its own died, which
\* no check of the port before a start can see.
THEOREM ThePortIsOfThePresent == Spec => []PortOfThePresent
<1>1. Good => PortOfThePresent
  BY DEF Good, ProcsInv
<1> QED BY <1>1, AlwaysGood, PTL

\* A main process that leaves through its finally clause takes no rows along:
\* no request is under way in it from the flush to its end.
THEOREM CleanExitsLoseNothing == Spec => []FinallyLosesNothing
<1>1. Good => FinallyLosesNothing
  BY DEF Good, ProcsInv
<1> QED BY <1>1, AlwaysGood, PTL

\* A stop of run.sh that has come to the end of its list has ended the main
\* process, and a sweep every process there is, also when processes end, crash
\* or are told to end by others while it goes through the list.
THEOREM StopsEndEverything == Spec => []StopsAreComplete
<1>1. ASSUME Good, Ending, todo = {}, now = NoProc
      PROVE  main = "off" /\ (script = "sweep" /\ Forked => Alive = {})
  <2>1. main = "off"
    BY <1>1, ProcAssumption DEF Good, ShellInv, Hunted, Ending
  <2>2. ASSUME script = "sweep", Forked PROVE Alive = {}
    <3>1. AliveWorkers \subseteq {NoProc} /\ NoProc \notin Workers
      BY <1>1, <2>2, ProcAssumption DEF Good, ShellInv, Hunted
    <3>2. AliveWorkers = {}
      BY <3>1 DEF AliveWorkers
    <3> QED BY <2>1, <3>2 DEF Alive
  <2> QED BY <2>1, <2>2
<1>2. Good => StopsAreComplete
  BY <1>1 DEF StopsAreComplete
<1> QED BY <1>2, AlwaysGood, PTL

(***************************************************************************)
(* How long a stop can take: what is left of EveryStopReturns when its     *)
(* fairness is taken away                                                  *)
(***************************************************************************)

\* The steps that the script has yet to take at most: two for each process that
\* it has not ended, one for the process it waits for, and those after that.
StageLeft == CASE Ending -> 3 [] script = "ports" -> 2 [] script = "start" -> 1 [] OTHER -> 0
ScriptLeft == 2 * Cardinality(todo) + (IF now = NoProc THEN 0 ELSE 1) + StageLeft

\* Only the call of a stop or restart makes more of it.
EveryScriptStepCounts ==
  [][IF Proceed THEN ScriptLeft' < ScriptLeft
     ELSE ScriptLeft' = ScriptLeft \/ (script = "idle" /\ Stop)]_vars

LEMMA ScriptLeftType ==
  ASSUME IsFiniteSet(Workers), Good
  PROVE  /\ IsFiniteSet(todo) /\ Cardinality(todo) \in Nat
         /\ StageLeft \in 0 .. 3 /\ ScriptLeft \in Nat
<1>1. IsFiniteSet(todo)
  <2>1. IsFiniteSet(Workers \cup {Main})
    BY FS_AddElement
  <2> QED BY <2>1, FS_Subset DEF Good, ShellInv, ShellType
<1>2. Cardinality(todo) \in Nat
  BY <1>1, FS_CardinalityType
<1>3. StageLeft \in 0 .. 3
  BY DEF StageLeft
<1> QED BY <1>1, <1>2, <1>3 DEF ScriptLeft

LEMMA ProceedCounts ==
  ASSUME IsFiniteSet(Workers), Good, Proceed
  PROVE  ScriptLeft' < ScriptLeft
<1>1. IsFiniteSet(todo) /\ Cardinality(todo) \in Nat /\ StageLeft \in 0 .. 3
  BY ScriptLeftType
<1>2. CASE script = "start" /\ Start
  BY <1>1, <1>2 DEF Start, ScriptLeft, StageLeft, Ending
<1>3. CASE WaitOver
  BY <1>1, <1>3 DEF WaitOver, ScriptLeft, StageLeft, Ending
<1>4. CASE KillNow
  BY <1>1, <1>4 DEF KillNow, ScriptLeft, StageLeft, Ending
<1>5. CASE AllEnded
  BY <1>1, <1>5 DEF AllEnded, ScriptLeft, StageLeft, Ending
<1>6. CASE PortsWaited
  BY <1>1, <1>6 DEF PortsWaited, ScriptLeft, StageLeft, Ending
<1>7. ASSUME NEW p \in Workers \cup {Main}, TermNext(p) PROVE ScriptLeft' < ScriptLeft
  <2>1. now = NoProc /\ p \in todo /\ todo' = todo \ {p} /\ script' = script
    BY <1>7 DEF TermNext
  <2>2. Cardinality(todo') = Cardinality(todo) - 1
    BY <1>1, <2>1, FS_RemoveElement
  <2>3. StageLeft' = StageLeft
    BY <2>1 DEF StageLeft, Ending
  <2> QED BY <1>1, <2>1, <2>2, <2>3 DEF ScriptLeft
<1> QED BY <1>2, <1>3, <1>4, <1>5, <1>6, <1>7 DEF Proceed

\* For any number of processes: once it was called, every step of the script brings
\* it closer to its end, whatever the processes do, and no crash, signal, request or
\* start by somebody else takes it back, so it takes no more steps than two for each
\* process that was in its list and four.
THEOREM StopsMoveOn ==
  ASSUME IsFiniteSet(Workers)
  PROVE  Spec => [](ScriptLeft \in Nat) /\ EveryScriptStepCounts
<1>1. Good => ScriptLeft \in Nat
  BY ScriptLeftType
<1>2. Good /\ [Next]_vars
        => [IF Proceed THEN ScriptLeft' < ScriptLeft
            ELSE ScriptLeft' = ScriptLeft \/ (script = "idle" /\ Stop)]_vars
  <2> SUFFICES ASSUME Good, Next, ~Proceed, ~Stop
               PROVE  ScriptLeft' = ScriptLeft
    BY ProceedCounts DEF Stop
  <2>1. UNCHANGED shell \/ (script = "idle" /\ Start)
    BY DEF Next, Proceed, Start, BootSingle, Fork, BootMulti, Interrupt, ConsoleEnds, GatewayEnds,
           Flush, Leave, Bind, Drained, Request, Finish, Write, Crash, Terminated
  <2>2. todo' = todo /\ now' = now /\ script' = script
    BY <2>1 DEF shell, Start
  <2> QED BY <2>2 DEF ScriptLeft, StageLeft, Ending
<1> QED BY <1>1, <1>2, AlwaysGood, PTL DEF Spec, EveryScriptStepCounts
=============================================================================
