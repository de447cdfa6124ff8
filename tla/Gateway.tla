------------------------------ MODULE Gateway ------------------------------
(***************************************************************************)
(* gateway.py: a request from its arrival to its answer, the failover over *)
(* the keys it listed, and the number of active calls per key that         *)
(* LoadBalancer keeps for its least_connections and smart strategies.      *)
(*                                                                         *)
(* _handle gives up the event loop while it sleeps for the token limit,    *)
(* awaits the upstream, drains an error stream, or relays a stream; what   *)
(* it does between two of these is one action: report the outcome of the   *)
(* attempt and go on to the next await (Advance).  The candidate list is   *)
(* made once; the objects in it change while the request waits.            *)
(*                                                                         *)
(* The strategy of the load balancer is any choice among the keys not yet  *)
(* tried; RPM and TPM verdicts and the upstream's answers are any.         *)
(***************************************************************************)
EXTENDS KeyRecord, FiniteSets

CONSTANTS
  Requests, Keys,
  MaxRetry,       \* C.MAX_RETRY_KEYS
  MaxTokens,      \* the most tokens one response reports
  Managed,        \* bound: the keys that the console disables or deletes
  NoKey           \* where a request is busy with no key

ASSUME RetryAssumption == MaxRetry \in Nat \ {0} /\ MaxTokens \in Nat
ASSUME FiniteAssumption == IsFiniteSet(Requests) /\ IsFiniteSet(Keys)
ASSUME NoKeyAssumption == NoKey \notin Keys
ASSUME ManagedAssumption == Managed \subseteq Keys

VARIABLES
  pool, cached,   \* as in KeyManager: the objects, and the ids in its cache
  active,         \* LoadBalancer._active
  phase,          \* where each request waits
  stream,         \* whether it asked for a stream
  cand,           \* keys: its candidates
  tried,          \* tried: those it has taken up so far
  cur,            \* key: the candidate it is busy with
  answer          \* what it was answered

health == <<pool, cached>>
plan == <<stream, cand>>
vars == <<health, active, phase, plan, tried, cur, answer>>

Phases == {"new", "sleep", "call", "drain", "relay", "done"}
\* "early" is an answer without any attempt: a refusal, no key, or a cached one.
Answers == {"none", "early", "ok", "failed", "broken"}

TypeOK ==
  /\ pool \in [Keys -> KeyRecords]
  /\ cached \in SUBSET Keys
  /\ active \in [Keys -> Nat]
  /\ phase \in [Requests -> Phases]
  /\ stream \in [Requests -> BOOLEAN]
  /\ cand \in [Requests -> SUBSET Keys]
  /\ tried \in [Requests -> SUBSET Keys] /\ cur \in [Requests -> Keys \cup {NoKey}]
  /\ \A r \in Requests : tried[r] \subseteq cand[r] /\ cur[r] \in tried[r] \cup {NoKey}
  /\ answer \in [Requests -> Answers]

Init ==
  /\ pool \in [Keys -> {NewKey(q, o) : q \in Quotas, o \in BOOLEAN}]
  /\ cached = Keys
  /\ active = [k \in Keys |-> 0]
  /\ phase = [r \in Requests |-> "new"]
  /\ stream = [r \in Requests |-> FALSE]
  /\ cand = [r \in Requests |-> {}] /\ tried = cand
  /\ cur = [r \in Requests |-> NoKey]
  /\ answer = [r \in Requests |-> "none"]

(***************************************************************************)
(* The loop over the candidates                                            *)
(***************************************************************************)
Limit(c) == LET n == Cardinality(c) IN IF n < MaxRetry THEN n ELSE MaxRetry

\* report_active(k, -1) never goes below zero.
Left(a, k) == [a EXCEPT ![k] = IF @ > 0 THEN @ - 1 ELSE 0]
Entered(a, k) == [a EXCEPT ![k] = @ + 1]

\* All attempts are used up: the client is told that every key has failed.
GiveUp(r, gone, a) ==
  /\ tried' = [tried EXCEPT ![r] = gone]
  /\ cur' = [cur EXCEPT ![r] = NoKey]
  /\ phase' = [phase EXCEPT ![r] = "done"]
  /\ answer' = [answer EXCEPT ![r] = "failed"]
  /\ active' = a

\* Key k is called, or the request first sleeps for its token limit.
TakeUp(r, k, gone, p, a) ==
  /\ tried' = [tried EXCEPT ![r] = gone]
  /\ cur' = [cur EXCEPT ![r] = k]
  /\ \/ p[k].opens /\ phase' = [phase EXCEPT ![r] = "call"] /\ active' = Entered(a, k)
     \/ phase' = [phase EXCEPT ![r] = "sleep"] /\ active' = a
  /\ UNCHANGED answer

\* The keys of "unread" could not be decrypted.
Unreadable(p, unread) ==
  [k \in Keys |-> IF k \in unread \cap cached THEN Failed(p[k], "auth") ELSE p[k]]

\* Mutant of Advance: an unreadable key ends the loop.
AdvanceBreaks(r, p, a, c, t) ==
  \E passed \in SUBSET (c \ t) : \E unread \in SUBSET {k \in passed : ~p[k].opens} :
    LET gone == t \cup passed IN
    /\ pool' = Unreadable(p, unread)
    /\ \/ (Cardinality(gone) = Limit(c) \/ unread # {}) /\ GiveUp(r, gone, a)
       \/ /\ Cardinality(gone) < Limit(c)
          /\ \E k \in c \ gone : TakeUp(r, k, gone \cup {k}, p, a)

\* Mutant of Advance: a key that is called is not remembered as tried.
AdvanceForgets(r, p, a, c, t) ==
  \E passed \in SUBSET (c \ t) : \E unread \in SUBSET {k \in passed : ~p[k].opens} :
    LET gone == t \cup passed IN
    /\ pool' = Unreadable(p, unread)
    /\ \/ Cardinality(gone) = Limit(c) /\ GiveUp(r, gone, a)
       \/ /\ Cardinality(gone) < Limit(c)
          /\ \E k \in c \ gone : TakeUp(r, k, gone, p, a)

\* The attempts of request r from the top of the loop to the next await, with
\* the candidates c of which t are used up, the keys as they are in p and the
\* calls as they are in a.  The keys in "passed" are taken up and passed over:
\* at their RPM limit or without a base URL (no trace), or unreadable, which
\* is recorded as an authentication failure.
Advance(r, p, a, c, t) ==
  \E passed \in SUBSET (c \ t) : \E unread \in SUBSET {k \in passed : ~p[k].opens} :
    LET gone == t \cup passed IN
    /\ pool' = Unreadable(p, unread)
    /\ \/ Cardinality(gone) = Limit(c) /\ GiveUp(r, gone, a)
       \/ /\ Cardinality(gone) < Limit(c)
          /\ \E k \in c \ gone : TakeUp(r, k, gone \cup {k}, p, a)

(***************************************************************************)
(* Arrival                                                                 *)
(***************************************************************************)

\* Paused, unauthorised, too large, not permitted, or over the rate limit.
Reject(r) ==
  /\ phase[r] = "new"
  /\ phase' = [phase EXCEPT ![r] = "done"]
  /\ answer' = [answer EXCEPT ![r] = "early"]
  /\ UNCHANGED <<health, active, plan, tried, cur>>

\* With the candidates c picked and the keys as they are in p: no candidate, a
\* hit in the response cache (not for a stream), or the first attempt.
Start(r, p, c, s) ==
  /\ phase[r] = "new"
  /\ UNCHANGED cached
  /\ \/ /\ c = {} \/ ~s
        /\ pool' = p
        /\ phase' = [phase EXCEPT ![r] = "done"]
        /\ answer' = [answer EXCEPT ![r] = "early"]
        /\ UNCHANGED <<active, plan, tried, cur>>
     \/ /\ c # {}
        /\ stream' = [stream EXCEPT ![r] = s]
        /\ cand' = [cand EXCEPT ![r] = c]
        /\ Advance(r, p, active, c, {})

\* list_active, over the providers that fit the model and the path.
Listed(r, fitting, s) ==
  LET p == [k \in Keys |-> IF k \in cached THEN Recovered(pool[k]) ELSE pool[k]] IN
  Start(r, p, {k \in fitting \cap cached : Usable(p[k])}, s)

\* x-relay-key, the source keys of a model, a route: only the status counts,
\* and nothing is recovered.  Only x-relay-key has to do with no key at all,
\* the others fall back on list_active.
Named(r, wanted, s) ==
  Start(r, pool, {k \in wanted \cap cached : pool[k].status = "active"}, s)

Arrive(r) ==
  \E some \in SUBSET Keys, s \in BOOLEAN : Listed(r, some, s) \/ Named(r, some, s)

(***************************************************************************)
(* Outcomes                                                                *)
(***************************************************************************)

\* The handler returns, and its local variables are gone.  (Those of a request
\* that failed stay, as history.)
Return(r, a) ==
  /\ phase' = [phase EXCEPT ![r] = "done"]
  /\ answer' = [answer EXCEPT ![r] = a]
  /\ stream' = [stream EXCEPT ![r] = FALSE] /\ cand' = [cand EXCEPT ![r] = {}]
  /\ tried' = [tried EXCEPT ![r] = {}] /\ cur' = [cur EXCEPT ![r] = NoKey]

\* The pool after record_success and the usage of a call with key k.
Won(k, tokens) ==
  LET seen == IF k \in cached THEN Succeeded(pool[k]) ELSE pool[k] IN
  [pool EXCEPT ![k] = QuotaRecorded(seen, tokens)]

\* ... and after _after_failure.
Lost(k, category) ==
  LET seen == IF k \in cached THEN Failed(pool[k], category) ELSE pool[k] IN
  [pool EXCEPT ![k] = QuotaRecorded(seen, 0)]

\* The sleep for the token limit is over: the key is read and called.
WakeUp(r) ==
  LET k == cur[r] IN
  /\ phase[r] = "sleep"
  /\ \/ /\ pool[k].opens
        /\ phase' = [phase EXCEPT ![r] = "call"]
        /\ active' = Entered(active, k)
        /\ UNCHANGED <<pool, tried, cur, answer>>
     \/ /\ ~pool[k].opens
        /\ LET p == IF k \in cached THEN [pool EXCEPT ![k] = Failed(@, "auth")] ELSE pool IN
           Advance(r, p, active, cand[r], tried[r])
  /\ UNCHANGED <<cached, plan>>

\* ... or it has no base URL and is passed over.
WakeUpNowhere(r) ==
  /\ phase[r] = "sleep"
  /\ pool[cur[r]].opens
  /\ Advance(r, pool, active, cand[r], tried[r])
  /\ UNCHANGED <<cached, plan>>

Succeeds(r, tokens) ==
  LET k == cur[r] IN
  /\ phase[r] = "call" /\ ~stream[r]
  /\ pool' = Won(k, tokens)
  /\ cached' = cached \cup {k}
  /\ active' = Left(active, k)
  /\ Return(r, "ok")

\* A time-out, a lost connection, an oversized or an error answer; the finally
\* clause gives the call back before the loop goes on.
Fails(r, category) ==
  LET k == cur[r] IN
  /\ phase[r] = "call"
  /\ stream[r] => category = "upstream"
  /\ cached' = cached \cup {k}
  /\ Advance(r, Lost(k, category), Left(active, k), cand[r], tried[r])
  /\ UNCHANGED plan

\* A stream that starts with an error status is read to its end first.
StreamRefused(r) ==
  /\ phase[r] = "call" /\ stream[r]
  /\ phase' = [phase EXCEPT ![r] = "drain"]
  /\ UNCHANGED <<health, active, plan, tried, cur, answer>>

Drained(r, category) ==
  LET k == cur[r] IN
  /\ phase[r] = "drain"
  /\ cached' = cached \cup {k}
  /\ Advance(r, Lost(k, category), Left(active, k), cand[r], tried[r])
  /\ UNCHANGED plan

\* Mutant of Breaks: the call is given back on an UpstreamError only.
BreaksLeaks(r) ==
  /\ phase[r] \in {"call", "drain"}
  /\ Return(r, "broken")
  /\ UNCHANGED <<health, active>>

\* An exception that is no UpstreamError: httpx's own when the connection is lost
\* while an error stream is read, or that of a URL or a header that httpx refuses.
\* Nothing is recorded, no other key is tried and the client gets a 500.
Breaks(r) ==
  /\ phase[r] \in {"call", "drain"}
  /\ active' = Left(active, cur[r])
  /\ Return(r, "broken")
  /\ UNCHANGED health

\* The response object is returned, which ends the call for the load balancer.
StreamOpens(r) ==
  /\ phase[r] = "call" /\ stream[r]
  /\ active' = Left(active, cur[r])
  /\ phase' = [phase EXCEPT ![r] = "relay"]
  /\ answer' = [answer EXCEPT ![r] = "ok"]
  /\ UNCHANGED <<health, plan, tried, cur>>

\* Mutant of StreamEnds: the call is given back once more.
StreamEndsTwice(r, tokens) ==
  LET k == cur[r] IN
  /\ phase[r] = "relay"
  /\ pool' = Won(k, tokens)
  /\ cached' = cached \cup {k}
  /\ active' = [active EXCEPT ![k] = @ - 1]
  /\ Return(r, answer[r])

\* The relayed stream ends, breaks or is given up by the client: a success.
StreamEnds(r, tokens) ==
  LET k == cur[r] IN
  /\ phase[r] = "relay"
  /\ pool' = Won(k, tokens)
  /\ cached' = cached \cup {k}
  /\ Return(r, answer[r])
  /\ UNCHANGED active

\* The client is gone before the first chunk: the generator never starts, so
\* its finally clause never runs.
StreamUnread(r) ==
  /\ phase[r] = "relay"
  /\ Return(r, answer[r])
  /\ UNCHANGED <<health, active>>

(***************************************************************************)
(* What else happens meanwhile                                             *)
(***************************************************************************)
SetStatus(k, s) ==
  /\ k \in cached
  /\ pool' = [pool EXCEPT ![k] = WithStatus(@, s)]
  /\ UNCHANGED <<cached, active, phase, plan, tried, cur, answer>>

Delete(k) ==
  /\ k \in cached
  /\ cached' = cached \ {k}
  /\ UNCHANGED <<pool, active, phase, plan, tried, cur, answer>>

Tick ==
  /\ pool' = [k \in Keys |-> Aged(pool[k])]
  /\ UNCHANGED <<cached, active, phase, plan, tried, cur, answer>>

Outcome(r) ==
  \/ \E tokens \in 0 .. MaxTokens : Succeeds(r, tokens)
  \/ \E category \in Categories : Fails(r, category) \/ Drained(r, category)
  \/ StreamRefused(r) \/ Breaks(r) \/ StreamOpens(r)

Next ==
  \/ \E r \in Requests :
       \/ Reject(r) \/ Arrive(r)
       \/ WakeUp(r) \/ WakeUpNowhere(r)
       \/ Outcome(r)
       \/ \E tokens \in 0 .. MaxTokens : StreamEnds(r, tokens)
       \/ StreamUnread(r)
  \/ \E k \in Managed : Delete(k) \/ \E s \in {"active", "inactive"} : SetStatus(k, s)
  \/ Tick

Spec == Init /\ [][Next]_vars

\* Sleeps end, and every call and every read of the upstream has a time-out.
\* How long a relayed stream lasts is the upstream's business.
FairSpec ==
  /\ Spec
  /\ \A r \in Requests : WF_vars(WakeUp(r)) /\ WF_vars(Outcome(r))
-----------------------------------------------------------------------------
(***************************************************************************)
(* Properties                                                              *)
(***************************************************************************)
InCall(k) == {r \in Requests : phase[r] \in {"call", "drain"} /\ cur[r] = k}

\* On every way out of an attempt, the exceptional ones included, the count of
\* active calls is given back once: it is the number of calls under way, and
\* flooring it at zero never hides a mistake.
ActiveCallsCounted == \A k \in Keys : active[k] = Cardinality(InCall(k))

\* README:16: a request uses at most MaxRetry keys, and it is told that all
\* have failed only after it has taken up as many of its candidates as it may,
\* whatever it was that made it pass over or give up the earlier ones.
FailsWhenExhausted ==
  \A r \in Requests :
    /\ Cardinality(tried[r]) <= MaxRetry
    /\ answer[r] = "failed" => Cardinality(tried[r]) = Limit(cand[r])

\* A request that has listed its candidates is answered.
EveryRequestAnswered ==
  \A r \in Requests : cand[r] # {} ~> answer[r] # "none"
=============================================================================
