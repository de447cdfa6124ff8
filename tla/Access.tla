------------------------------- MODULE Access -------------------------------
(***************************************************************************)
(* Who may use the gateway: GatewayApp._authorize and _permission_error,   *)
(* and the console's changes to what they go by, with several processes.   *)
(*                                                                         *)
(* The additional gateway keys are in the database; a process keeps a copy *)
(* that it reads anew when it is older than Ttl, and that the console      *)
(* drops in its own process when it changes them.  The settings (the pause *)
(* switch, the switch of the authentication, the main key) are an object   *)
(* in each process: the console changes its own and the stored ones, a     *)
(* worker has those of its start.                                          *)
(*                                                                         *)
(* What a request may do is found before its body is read and used after.  *)
(* Where there are no workers, the console's process serves requests too;  *)
(* here every process does, which covers both.                             *)
(***************************************************************************)
EXTENDS Naturals

CONSTANTS
  Console, Workers,   \* the processes
  Requests,           \* requests that can be under way at one time
  Keys,               \* additional gateway keys
  Grants,             \* what the list can say of a key
  MainKey, NoKey,     \* what else a request may present
  Ttl,                \* how old a copy may be and still be used, in ticks
  Configs,            \* the settings an administrator saves
  NoCopy, Idle

Procs == {Console} \cup Workers
Presented == Keys \cup {MainKey, NoKey}

\* "none" is a key that is absent or disabled, the others are permissions.
Lists == [Keys -> Grants]
Settings == [on : BOOLEAN, auth : BOOLEAN, main : BOOLEAN]

ASSUME ProcAssumption == Console \notin Workers
ASSUME KeyAssumption == MainKey \notin Keys /\ NoKey \notin Keys /\ MainKey # NoKey
ASSUME GrantAssumption == {"none", "full"} \subseteq Grants
ASSUME TtlAssumption == Ttl \in Nat
ASSUME ConfigAssumption == Configs \subseteq Settings
ASSUME NoneAssumption == NoCopy \notin Lists /\ Idle \notin [proc : Procs, key : Presented, grant : Grants]

VARIABLES
  stored,         \* gateway_keys in the database
  saved,          \* user_settings in the database
  mine,           \* proc: its settings object
  copy, age,      \* proc: _gkeys_cache, and the time since it was read
  request,        \* what it presented where, and what it was found to be
  gone,           \* key, grant: the time since the list last said so
  failed          \* proc: the time since it last failed to read the list

config == <<saved, mine>>
cache == <<copy, age>>
history == <<gone, failed>>
vars == <<stored, config, cache, request, history>>

Seen == [proc : Procs, key : Presented, grant : Grants]

TypeOK ==
  /\ stored \in Lists
  /\ saved \in Settings /\ mine \in [Procs -> Settings]
  /\ copy \in [Procs -> Lists \cup {NoCopy}]
  /\ age \in [Procs -> 0 .. Ttl + 1]
  /\ request \in [Requests -> Seen \cup {Idle}]
  /\ gone \in [Keys -> [Grants -> 0 .. Ttl + 1]]
  /\ failed \in [Procs -> 0 .. Ttl + 1]

Init ==
  /\ stored \in Lists
  /\ saved \in Configs /\ mine = [p \in Procs |-> saved]
  /\ copy = [p \in Procs |-> NoCopy] /\ age = [p \in Procs |-> 0]
  /\ request = [r \in Requests |-> Idle]
  /\ gone = [k \in Keys |-> [g \in Grants |-> IF stored[k] = g THEN 0 ELSE Ttl + 1]]
  /\ failed = [p \in Procs |-> Ttl + 1]

Later(t) == IF t > Ttl THEN Ttl + 1 ELSE t + 1

Tick ==
  /\ age' = [p \in Procs |-> Later(age[p])]
  /\ gone' = [k \in Keys |->
       [g \in Grants |-> IF stored[k] = g THEN 0 ELSE Later(gone[k][g])]]
  /\ failed' = [p \in Procs |-> Later(failed[p])]
  /\ UNCHANGED <<stored, config, copy, request>>
-----------------------------------------------------------------------------
(***************************************************************************)
(* The gateway                                                             *)
(***************************************************************************)

\* The settings alone let in whoever presents x to process p.
Open(p, x) ==
  \/ ~mine[p].auth
  \/ IF mine[p].main THEN x = MainKey ELSE x = NoKey

Finds(r, p, x, grant) == request' = [request EXCEPT ![r] = [proc |-> p, key |-> x, grant |-> grant]]

\* Mutant of GrantOf: a key that is not listed has whatever it says.
GrantOfAnything(list, x) == IF x \in Keys THEN list[x] ELSE x

GrantOf(list, x) == IF x \in Keys THEN list[x] ELSE "none"

OpenDoor(r, p, x) ==
  /\ request[r] = Idle
  /\ mine[p].on /\ Open(p, x)
  /\ Finds(r, p, x, "full")
  /\ UNCHANGED <<stored, config, cache, history>>

\* Mutant of ByCopy: a copy in use stays young.
ByCopyRenewed(r, p, x) ==
  /\ request[r] = Idle
  /\ mine[p].on /\ ~Open(p, x)
  /\ copy[p] # NoCopy /\ age[p] <= Ttl
  /\ Finds(r, p, x, GrantOf(copy[p], x))
  /\ age' = [age EXCEPT ![p] = 0]
  /\ UNCHANGED <<stored, config, copy, history>>

\* The list is looked up in the copy.
ByCopy(r, p, x) ==
  /\ request[r] = Idle
  /\ mine[p].on /\ ~Open(p, x)
  /\ copy[p] # NoCopy /\ age[p] <= Ttl
  /\ Finds(r, p, x, GrantOf(copy[p], x))
  /\ UNCHANGED <<stored, config, cache, history>>

NoKeys == [k \in Keys |-> "none"]

\* ... or read anew, and if that fails there is no key for as long.
ByReading(r, p, x) ==
  /\ request[r] = Idle
  /\ mine[p].on /\ ~Open(p, x)
  /\ copy[p] = NoCopy \/ age[p] > Ttl
  /\ \/ copy' = [copy EXCEPT ![p] = stored] /\ UNCHANGED failed
     \/ copy' = [copy EXCEPT ![p] = NoKeys] /\ failed' = [failed EXCEPT ![p] = 0]
  /\ age' = [age EXCEPT ![p] = 0]
  /\ Finds(r, p, x, GrantOf(copy'[p], x))
  /\ UNCHANGED <<stored, config, gone>>

\* The body is there, or too large, or the client has gone, or the request was
\* refused without it; what becomes of it is decided by what it was found to be.
Decided(r) ==
  /\ request[r] # Idle
  /\ request' = [request EXCEPT ![r] = Idle]
  /\ UNCHANGED <<stored, config, cache, history>>
-----------------------------------------------------------------------------
(***************************************************************************)
(* The console                                                             *)
(***************************************************************************)
Stored(list) ==
  /\ stored' = list
  /\ gone' = [k \in Keys |-> [gone[k] EXCEPT ![list[k]] = 0]]

\* Mutant of PutKeys: its own copy is not dropped.
PutKeysOnly(list) ==
  /\ Stored(list)
  /\ UNCHANGED <<config, cache, request, failed>>

\* If the list cannot be written nothing else is done.
PutKeys(list) ==
  /\ Stored(list)
  /\ copy' = [copy EXCEPT ![Console] = NoCopy]
  /\ age' = [age EXCEPT ![Console] = 0]
  /\ UNCHANGED <<config, request, failed>>

\* The object first, then the database, which may refuse.
PutSettings(s) ==
  /\ mine' = [mine EXCEPT ![Console] = s]
  /\ saved' \in {saved, s}
  /\ UNCHANGED <<stored, cache, request, history>>

Restart ==
  /\ mine' = [p \in Procs |-> saved]
  /\ copy' = [p \in Procs |-> NoCopy] /\ age' = [p \in Procs |-> 0]
  /\ request' = [r \in Requests |-> Idle]
  /\ UNCHANGED <<stored, saved, history>>
-----------------------------------------------------------------------------
Next ==
  \/ Tick
  \/ \E r \in Requests : Decided(r)
  \/ \E r \in Requests, p \in Procs, x \in Presented :
       OpenDoor(r, p, x) \/ ByCopy(r, p, x) \/ ByReading(r, p, x)
  \/ \E list \in Lists : PutKeys(list)
  \/ \E s \in Configs : PutSettings(s)
  \/ Restart

Spec == Init /\ [][Next]_vars
-----------------------------------------------------------------------------
(***************************************************************************)
(* Properties                                                              *)
(***************************************************************************)

\* In this step r is judged by the list, as key k of process p, and found g.
Judged(r, p, k, g) ==
  /\ request[r] = Idle /\ ~Open(p, k)
  /\ request'[r] = [proc |-> p, key |-> k, grant |-> g]

\* Whatever a process takes a key for, the list has said so no longer than Ttl
\* ago: a key that is withdrawn, restricted or restored is so everywhere after
\* that, and only a failed read, which refuses all keys, can delay the last.
VerdictsAreRecent ==
  [][\A r \in Requests, p \in Procs, k \in Keys, g \in Grants :
       Judged(r, p, k, g) =>
         gone[k][g] <= Ttl \/ (g = "none" /\ failed'[p] <= Ttl)]_vars

\* README:171: in the console's own process a change takes effect at once.
ConsoleKnowsAtOnce ==
  [][\A r \in Requests, k \in Keys, g \in Grants :
       Judged(r, Console, k, g) =>
         stored[k] = g \/ (g = "none" /\ failed'[Console] <= Ttl)]_vars
=============================================================================
