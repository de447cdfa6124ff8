---------------------------- MODULE RateLimiter ----------------------------
(***************************************************************************)
(* services/rate_limiter.py, as the gateway asks it: once when a request   *)
(* arrives (check: the global window, then that of the client's address),  *)
(* and once per attempt with a key (check_key_rpm, then check_tpm).  Each  *)
(* question also counts the call, whatever the answer.                     *)
(*                                                                         *)
(* The settings object is shared with the console, which changes the       *)
(* limits while the windows are in use; a limit of 0 is none, and then     *)
(* calls leave no trace in the window.                                     *)
(***************************************************************************)
EXTENDS SlidingWindow

CONSTANTS
  Addresses, Keys,
  Limits,          \* what the console may set a limit of calls to
  MaxCalls,        \* bound: calls counted in one tick of a window
  MinTpm, MaxTpm,  \* the range of the adaptive limit
  Parts,           \* what the adaptive limit is divided by (60)
  Tokens           \* what a request is estimated at

\* Each kind of window has a name space of its own.
ASSUME CallerAssumption == "global" \notin Addresses \cup Keys /\ Addresses \cap Keys = {}
ASSUME LimitAssumption == Limits \subseteq Nat /\ MaxCalls \in Nat
ASSUME TpmAssumption ==
  /\ MinTpm \in Nat \ {0} /\ MaxTpm \in Nat /\ MinTpm <= MaxTpm
  /\ Parts \in Nat \ {0} /\ Tokens \subseteq Nat \ {0}

\* What has a window of calls: the gateway, each address, each key.
Gate == "global"
Callers == {Gate} \cup Addresses \cup Keys

VARIABLES
  limit,    \* limit[c]: global_rpm_limit, ip_rate_limit_per_minute, max_requests_per_minute
  calls,    \* calls[c]: _global, _ip[c], _key[c]
  tpm,      \* adaptive._limits
  spent     \* _tpm

\* History: the calls that passed each window since its limit was last set.
VARIABLE passed

vars == <<limit, calls, tpm, spent, passed>>

TypeOK ==
  /\ limit \in [Callers -> Limits]
  /\ \A a, b \in Addresses : limit[a] = limit[b]
  /\ calls \in [Callers -> Windows] /\ passed \in [Callers -> Windows]
  /\ tpm \in [Keys -> MinTpm .. MaxTpm]
  /\ spent \in [Keys -> Windows]

Init ==
  /\ limit \in [Callers -> Limits]
  /\ \A a, b \in Addresses : limit[a] = limit[b]
  /\ calls = [c \in Callers |-> EmptyWindow] /\ passed = calls
  /\ tpm = [k \in Keys |-> MaxTpm]
  /\ spent = [k \in Keys |-> EmptyWindow]

(***************************************************************************)
(* Windows of calls                                                        *)
(***************************************************************************)

\* Mutant of Passes: the call itself is not counted yet.
PassesBefore(w, n) == n = 0 \/ Count(w) <= n

\* add() > limit refuses.
Passes(w, n) == n = 0 \/ Count(w) + 1 <= n

\* The windows after a call was counted at those of cs that have a limit.
Counted(w, cs) == [c \in Callers |-> IF c \in cs /\ limit[c] > 0 THEN Added(w[c], 1) ELSE w[c]]

Room(c) == calls[c][0] < MaxCalls

\* check: a call that the gate refuses is not counted at its address; one that
\* the address refuses was counted at the gate.
Check(a) ==
  /\ Room(Gate) /\ Room(a)
  /\ LET asked == IF Passes(calls[Gate], limit[Gate]) THEN {Gate, a} ELSE {Gate}
         through == asked = {Gate, a} /\ Passes(calls[a], limit[a])
     IN
     /\ calls' = Counted(calls, asked)
     /\ passed' = IF through THEN Counted(passed, asked) ELSE passed
  /\ UNCHANGED <<limit, tpm, spent>>

CheckKey(k) ==
  /\ Room(k)
  /\ calls' = Counted(calls, {k})
  /\ passed' = IF Passes(calls[k], limit[k]) THEN Counted(passed, {k}) ELSE passed
  /\ UNCHANGED <<limit, tpm, spent>>

(***************************************************************************)
(* The adaptive limit of tokens                                            *)
(***************************************************************************)
AtLeast(n, low) == IF n < low THEN low ELSE n
AtMost(n, high) == IF n > high THEN high ELSE n

\* Mutant of Slower: there is no least limit.
SlowerAndSlower(n) == (n * 85) \div 100

\* Times 0.85, and times 1.02; the limits are whole numbers here.
Slower(n) == AtLeast((n * 85) \div 100, MinTpm)
Faster(n) == AtMost(n + (n * 2 + 99) \div 100, MaxTpm)

\* What a call of so many tokens is booked as.
Weight(tokens, n) == AtLeast(tokens \div AtLeast(n \div Parts, 1), 1)

\* Mutant of CheckTokens: the tokens of the call itself are not asked for.
CheckTokensSpent(k, tokens) ==
  /\ IF Count(spent[k]) > tpm[k]
     THEN tpm' = [tpm EXCEPT ![k] = Slower(@)] /\ UNCHANGED spent
     ELSE /\ spent' = [spent EXCEPT ![k] = Added(@, Weight(tokens, tpm[k]))]
          /\ tpm' = [tpm EXCEPT ![k] = Faster(@)]
  /\ UNCHANGED <<limit, calls, passed>>

\* check_tpm; a call that is refused waits a while and then goes ahead.
CheckTokens(k, tokens) ==
  /\ IF Count(spent[k]) + tokens > tpm[k]
     THEN tpm' = [tpm EXCEPT ![k] = Slower(@)] /\ UNCHANGED spent
     ELSE /\ spent' = [spent EXCEPT ![k] = Added(@, Weight(tokens, tpm[k]))]
          /\ tpm' = [tpm EXCEPT ![k] = Faster(@)]
  /\ UNCHANGED <<limit, calls, passed>>

(***************************************************************************)
(* The console, and time                                                   *)
(***************************************************************************)
SetLimit(cs, n) ==
  /\ limit' = [c \in Callers |-> IF c \in cs THEN n ELSE limit[c]]
  /\ passed' = [c \in Callers |-> IF c \in cs THEN EmptyWindow ELSE passed[c]]
  /\ UNCHANGED <<calls, tpm, spent>>

Tick ==
  /\ calls' = [c \in Callers |-> Older(calls[c])]
  /\ passed' = [c \in Callers |-> [n \in Ages |-> IF n = 0 THEN 0 ELSE passed[c][n - 1]]]
  /\ spent' = [k \in Keys |-> Older(spent[k])]
  /\ UNCHANGED <<limit, tpm>>

Next ==
  \/ \E a \in Addresses : Check(a)
  \/ \E k \in Keys : CheckKey(k) \/ \E tokens \in Tokens : CheckTokens(k, tokens)
  \/ \E n \in Limits : SetLimit({Gate}, n) \/ SetLimit(Addresses, n)
                       \/ \E k \in Keys : SetLimit({k}, n)
  \/ Tick

Spec == Init /\ [][Next]_vars
-----------------------------------------------------------------------------
(***************************************************************************)
(* Properties                                                              *)
(***************************************************************************)

\* In no minute do more calls pass a window than its limit, counted since the
\* limit was set, whatever the limits were before and whoever was refused.
WithinLimits == \A c \in Callers : limit[c] > 0 => Count(passed[c]) <= limit[c]

\* The weights booked for a key in a minute never exceed the largest adaptive
\* limit, although the limit moves while they are in the window.
SpentWithinTpm == \A k \in Keys : Count(spent[k]) <= MaxTpm
=============================================================================
