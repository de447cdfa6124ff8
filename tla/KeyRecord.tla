------------------------------ MODULE KeyRecord ------------------------------
(***************************************************************************)
(* The record the gateway keeps for one upstream API key, and what each    *)
(* operation of KeyManager and QuotaMonitor does to it.  No state here:    *)
(* every operator maps a record to a record, and KeyManager, KeyStore and  *)
(* Gateway build their actions from them.                                  *)
(*                                                                         *)
(* Abstractions of the data.                                               *)
(*  - cooldown is the time LEFT until cooldown_until, in ticks: a positive *)
(*    number while the key is in cooldown, 0 once cooldown_until is past,  *)
(*    NoCooldown when cooldown_until is None.                              *)
(*  - failures saturates at MaxFailures and used at UsageCap: the code     *)
(*    compares them with the threshold and the quota, never reads more.    *)
(*  - today says whether day_stamp is the current day.                     *)
(*  - opens says whether encrypted_key decrypts under the master key.      *)
(*  - names, priorities, weights, timestamps and test texts are left out.  *)
(***************************************************************************)
EXTENDS Integers

CONSTANTS
  MaxFailures,    \* C.MAX_FAILURE_THRESHOLD
  ErrorCooldown,  \* C.COOLDOWN_SECONDS, in ticks
  QuotaCooldown,  \* C.QUOTA_EXHAUSTED_COOLDOWN_MS, in ticks
  Quotas,         \* the daily quotas an administrator enters; 0 is "no quota"
  UsageCap,       \* where the count of used tokens saturates
  WarnEnabled,    \* settings.quota_warn_enabled, as it was at the start
  WarnThreshold   \* settings.quota_warn_threshold then, in hundredths

ASSUME ThresholdAssumption == MaxFailures \in Nat \ {0}
ASSUME CooldownAssumption ==
  /\ ErrorCooldown \in Nat \ {0}
  /\ QuotaCooldown \in Nat
  /\ ErrorCooldown <= QuotaCooldown
ASSUME QuotaAssumption ==
  /\ Quotas \subseteq Nat
  /\ UsageCap \in Nat
  /\ \A q \in Quotas : q <= UsageCap
ASSUME WarnAssumption == WarnEnabled \in BOOLEAN /\ WarnThreshold \in Int

Statuses == {"active", "inactive", "exhausted", "error"}

\* How a failed attempt is classified; "upstream" stands for every category
\* that only counts towards the threshold (upstream, timeout, tpm).
Categories == {"quota", "auth", "upstream"}

NoCooldown == -1

KeyRecords ==
  [status   : Statuses,
   failures : 0 .. MaxFailures,
   cooldown : NoCooldown .. QuotaCooldown,
   quota    : Quotas,
   used     : 0 .. UsageCap,
   today    : BOOLEAN,
   opens    : BOOLEAN]

\* A key that was never used; its day stamp is still empty.
NewKey(q, opens) ==
  [status |-> "active", failures |-> 0, cooldown |-> NoCooldown,
   quota |-> q, used |-> 0, today |-> FALSE, opens |-> opens]

InCooldown(r) == r.cooldown > 0

Capped(n, cap) == IF n < cap THEN n ELSE cap

\* Record r with another status, failure count and cooldown.
WithHealth(r, status, failures, cooldown) ==
  [status |-> status, failures |-> failures, cooldown |-> cooldown,
   quota |-> r.quota, used |-> r.used, today |-> r.today, opens |-> r.opens]

(***************************************************************************)
(* KeyManager                                                              *)
(***************************************************************************)

\* record_success: whatever the status was, the key is ACTIVE again.
Succeeded(r) == WithHealth(r, "active", 0, NoCooldown)

\* Mutant of Failed: the cooldown of an ERROR is set, the status is not.
FailedKeepsStatus(r, category) ==
  LET n == Capped(r.failures + 1, MaxFailures) IN
  CASE category = "quota" -> WithHealth(r, "exhausted", n, QuotaCooldown)
    [] category = "auth" \/ (category = "upstream" /\ n >= MaxFailures) ->
         WithHealth(r, r.status, n, ErrorCooldown)
    [] OTHER -> WithHealth(r, r.status, n, r.cooldown)

\* record_failure.
Failed(r, category) ==
  LET n == Capped(r.failures + 1, MaxFailures) IN
  CASE category = "quota" -> WithHealth(r, "exhausted", n, QuotaCooldown)
    [] category = "auth" \/ (category = "upstream" /\ n >= MaxFailures) ->
         WithHealth(r, "error", n, ErrorCooldown)
    [] OTHER -> WithHealth(r, r.status, n, r.cooldown)

\* Mutants of Recovered: the failure count and the cooldown survive recovery;
\* every key that is not ACTIVE recovers; no cooldown_until means "cooling".
RecoveredDirty(r) ==
  IF r.status = "error" /\ ~InCooldown(r) THEN WithHealth(r, "active", r.failures, r.cooldown) ELSE r
RecoveredAlways(r) ==
  IF r.status # "active" /\ ~InCooldown(r)
  THEN WithHealth(r, "active", 0, NoCooldown)
  ELSE r
RecoveredIfTimed(r) ==
  IF r.status = "error" /\ r.cooldown = 0
  THEN WithHealth(r, "active", 0, NoCooldown)
  ELSE r

\* What list_active does to every cached key it walks over: an ERROR key whose
\* cooldown is over is recovered, the others are left alone.
Recovered(r) ==
  IF r.status = "error" /\ ~InCooldown(r)
  THEN WithHealth(r, "active", 0, NoCooldown)
  ELSE r

\* Whether list_active returns the (recovered) key to a request.
Usable(r) == r.status = "active" /\ ~InCooldown(r)

\* set_status: only ACTIVE clears the failure count and the cooldown.
WithStatus(r, s) ==
  IF s = "active" THEN WithHealth(r, s, 0, NoCooldown) ELSE [r EXCEPT !.status = s]

\* test_key, after the probe came back.
Tested(r, ok) ==
  IF ok
  THEN WithHealth(r, "active", 0, NoCooldown)
  ELSE WithHealth(r, "error", r.failures, ErrorCooldown)

\* PUT /api/keys/{id}: the daily quota and the key text that was sent, if any.
Edited(r, q, newText) ==
  [status |-> r.status, failures |-> r.failures, cooldown |-> r.cooldown,
   quota |-> q, used |-> r.used, today |-> r.today, opens |-> r.opens \/ newText]

(***************************************************************************)
(* QuotaMonitor                                                            *)
(***************************************************************************)

\* The part of record that counts tokens: yesterday's count is dropped first.
Accounted(r, tokens) ==
  LET before == IF r.today THEN r.used ELSE 0 IN
  [status |-> r.status, failures |-> r.failures, cooldown |-> r.cooldown,
   quota |-> r.quota, used |-> Capped(before + tokens, UsageCap),
   today |-> TRUE, opens |-> r.opens]

\* quota_ratio >= h / 100: the ratio of today's tokens to the quota, at most 1.
Whole == 100
Reaches(r, h) ==
  /\ h <= Whole
  /\ Whole * (IF r.today THEN r.used ELSE 0) >= h * r.quota

OverQuota(r) == r.quota > 0 /\ Reaches(r, Whole)

\* _evaluate: a key that reached the threshold of a warning and its quota too is
\* disabled, unless warnings are switched off.  A threshold above 1, which the
\* console accepts, is reached by no key.
Evaluated(r) ==
  IF WarnEnabled /\ Reaches(r, WarnThreshold) /\ OverQuota(r)
  THEN [r EXCEPT !.status = "exhausted"]
  ELSE r

QuotaRecorded(r, tokens) == Evaluated(Accounted(r, tokens))

(***************************************************************************)
(* Time                                                                    *)
(***************************************************************************)
Aged(r) == [r EXCEPT !.cooldown = IF InCooldown(r) THEN @ - 1 ELSE @]
NextDay(r) == [r EXCEPT !.today = FALSE]

\* An ACTIVE key has no failure streak at the threshold and no cooldown.
Clean(r) == r.status = "active" => r.failures < MaxFailures /\ r.cooldown = NoCooldown
=============================================================================
