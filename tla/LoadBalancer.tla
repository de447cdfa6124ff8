---------------------------- MODULE LoadBalancer ----------------------------
(***************************************************************************)
(* services/load_balancer.py: which key an attempt uses, by the strategy   *)
(* of the settings.  A request brings its own list of candidates: which    *)
(* keys it may use depends on its path, its model and the key it asks for, *)
(* its kind.  It picks among all of them when it arrives and, when the     *)
(* attempt failed, among those it has not tried.  All requests share the   *)
(* cursors, the active counts and the latency samples.                     *)
(*                                                                         *)
(* A key is the rank of its random id.  Scores, weights, active counts and *)
(* the averages of latencies are data: the strategies that use them may    *)
(* pick any key, except that response_time picks one without samples first *)
(* if there is one.  "smart" stands for weighted_round_robin and           *)
(* least_connections too.                                                  *)
(***************************************************************************)
EXTENDS Integers, FiniteSets, SequencesExt

CONSTANTS
  Keys,
  Kinds,       \* kinds of requests
  Candidates,  \* for each kind the lists of keys it may use, the preferred ones first
  PriorityOf,  \* priority of each key, the smaller the better
  GroupOf,     \* provider, base URL and group of each key
  Requests,
  MaxRetry     \* C.MAX_RETRY_KEYS

ASSUME KeyAssumption == Keys \subseteq Nat /\ IsFiniteSet(Keys)
ASSUME CandidatesAssumption ==
  /\ Candidates \in [Kinds -> Seq(Seq(Keys))]
  /\ \A c \in Kinds : \A i \in DOMAIN Candidates[c] : IsInjective(Candidates[c][i])
ASSUME TableAssumption ==
  /\ DOMAIN PriorityOf = Keys /\ DOMAIN GroupOf = Keys
  /\ \A k \in Keys : PriorityOf[k] \in Nat
ASSUME RetryAssumption == MaxRetry \in Nat \ {0}

Strategies == {"round_robin", "priority", "response_time", "smart"}
Groups == {GroupOf[k] : k \in Keys}

VARIABLES
  strategy,   \* settings.load_balance_strategy
  usable,     \* the keys that requests may use
  cursor,     \* _rr: for each group the next place and the keys it is for
  sampled,    \* the keys of which _latencies holds a sample
  using,      \* the key of the current attempt of each request, NoKey if none
  rest,       \* the list of candidates it has not tried and may still try
  attempts    \* how many it has tried

requests == <<using, rest, attempts>>
vars == <<strategy, usable, cursor, sampled, requests>>

NoKey == -1
NoCursor == [next |-> 0, ids |-> <<>>]

TypeOK ==
  /\ strategy \in Strategies
  /\ usable \in SUBSET Keys /\ sampled \in SUBSET Keys
  /\ \A g \in Groups :
       LET c == cursor[g] IN
       /\ ToSet(c.ids) \subseteq Keys /\ c.next \in 0 .. Len(c.ids)
       /\ c.ids # <<>> => GroupOf[c.ids[1]] = g
  /\ \A r \in Requests :
       /\ using[r] \in Keys \cup {NoKey} /\ rest[r] \in Seq(Keys \ {using[r]})
       /\ attempts[r] \in 0 .. MaxRetry
       /\ using[r] = NoKey <=> attempts[r] = 0

Init ==
  /\ strategy \in Strategies
  /\ usable = Keys
  /\ cursor = [g \in Groups |-> NoCursor]
  /\ sampled = {}
  /\ using = [r \in Requests |-> NoKey]
  /\ rest = [r \in Requests |-> <<>>]
  /\ attempts = [r \in Requests |-> 0]

(***************************************************************************)
(* pick                                                                    *)
(***************************************************************************)

\* The cursor that a pick among ids starts from, and the one it leaves.
Started(c, ids) == IF c.ids = ids THEN c ELSE [next |-> 0, ids |-> ids]
Place(c) == c.next % Len(c.ids)

\* Mutant of Moved: the cursor is rebuilt, and stays.
MovedNowhere(c) == c

Moved(c) == [next |-> Place(c) + 1, ids |-> c.ids]

RoundRobin(k, ids) ==
  LET g == GroupOf[ids[1]]
      c == Started(cursor[g], ids)
  IN
  /\ k = ids[Place(c) + 1]
  /\ cursor' = [cursor EXCEPT ![g] = Moved(c)]

Ranked(set) == SetToSortSeq(set, <)
Best(set) == {k \in set : \A other \in set : PriorityOf[k] <= PriorityOf[other]}

\* Mutant of Fastest: the first key of all is taken to be the fastest.
FastestFirst(k, ids) == k = ids[1]

Fastest(k, ids) ==
  LET fresh == SelectSeq(ids, LAMBDA x : x \notin sampled) IN
  IF fresh = <<>> THEN k \in ToSet(ids) ELSE k = fresh[1]

Pick(k, ids) ==
  \/ strategy = "round_robin" /\ RoundRobin(k, ids)
  \/ /\ strategy = "priority"
     /\ LET best == Best(ToSet(ids)) IN
        IF Cardinality(best) = 1 THEN k \in best /\ UNCHANGED cursor
        ELSE RoundRobin(k, Ranked(best))
  \/ strategy = "response_time" /\ Fastest(k, ids) /\ UNCHANGED cursor
  \/ strategy = "smart" /\ k \in ToSet(ids) /\ UNCHANGED cursor

(***************************************************************************)
(* Requests                                                                *)
(***************************************************************************)

\* _pick_keys: the usable keys of the first list that has one.  x-relay-key has
\* a single list, a model that is offered the lists of its source keys, of its
\* route and of its providers.
ListOf(c) ==
  LET lists == [i \in DOMAIN Candidates[c] |->
                  SelectSeq(Candidates[c][i], LAMBDA k : k \in usable)]
      found == SelectSeq(lists, LAMBDA ids : ids # <<>>)
  IN
  IF found = <<>> THEN <<>> ELSE found[1]

Without(ids, k) == SelectSeq(ids, LAMBDA x : x # k)

\* Mutant of Uses: the key that is tried stays a candidate.
UsesAgain(r, k, others, n) ==
  /\ using' = [using EXCEPT ![r] = k]
  /\ rest' = [rest EXCEPT ![r] = IF k \in Keys /\ n < MaxRetry THEN Append(others, k) ELSE <<>>]
  /\ attempts' = [attempts EXCEPT ![r] = n]

Uses(r, k, others, n) ==
  /\ using' = [using EXCEPT ![r] = k]
  /\ rest' = [rest EXCEPT ![r] = IF n < MaxRetry THEN others ELSE <<>>]
  /\ attempts' = [attempts EXCEPT ![r] = n]

\* A request of kind c.
Arrive(r, c, k) ==
  /\ using[r] = NoKey
  /\ LET ids == ListOf(c) IN
     /\ Uses(r, k, Without(ids, k), 1)
     /\ k \in ToSet(ids)
     /\ Pick(k, ids)
  /\ UNCHANGED <<strategy, usable, sampled>>

\* report_latency, also at the end of a stream.
Succeed(r) ==
  /\ using[r] # NoKey
  /\ sampled' = sampled \cup {using[r]}
  /\ Uses(r, NoKey, <<>>, 0)
  /\ UNCHANGED <<strategy, usable, cursor>>

\* The attempt failed or was passed over, and there is another.
Retry(r, k) ==
  /\ Uses(r, k, Without(rest[r], k), attempts[r] + 1)
  /\ k \in ToSet(rest[r])
  /\ Pick(k, rest[r])
  /\ UNCHANGED <<strategy, usable, sampled>>

\* There is none, or the request is broken off.
Fail(r) ==
  /\ using[r] # NoKey
  /\ Uses(r, NoKey, <<>>, 0)
  /\ UNCHANGED <<strategy, usable, cursor, sampled>>

(***************************************************************************)
(* Console, recovery and failures                                          *)
(***************************************************************************)
Toggle(k) ==
  /\ usable' = IF k \in usable THEN usable \ {k} ELSE usable \cup {k}
  /\ UNCHANGED <<strategy, cursor, sampled, requests>>

SetStrategy(s) ==
  /\ strategy' = s
  /\ UNCHANGED <<usable, cursor, sampled, requests>>

Arrivals(c) == \E r \in Requests, k \in Keys : Arrive(r, c, k)
Successes == \E r \in Requests : Succeed(r)
Disturbances ==
  \/ \E r \in Requests : Fail(r) \/ \E k \in Keys : Retry(r, k)
  \/ \E k \in Keys : Toggle(k)
  \/ \E s \in Strategies : SetStrategy(s)

Next == (\E c \in Kinds : Arrivals(c)) \/ Successes \/ Disturbances

Spec == Init /\ [][Next]_vars

\* Calls end; that requests arrive is a premise of the properties.
FairSpec == Spec /\ WF_vars(Successes)
-----------------------------------------------------------------------------
(***************************************************************************)
(* Properties                                                              *)
(***************************************************************************)

\* From some time on nothing disturbs (a failure of a key that has samples is, as
\* a step, its success).
Calm == <>[][Disturbances => Successes]_vars

\* The keys that take turns when requests of kind c arrive.
Rotation(c) == IF strategy = "priority" THEN Ranked(Best(ToSet(ListOf(c)))) ELSE ListOf(c)

\* Requests of kind d use the cursor of kind c for another list and so reset it.
Rival(d, c) ==
  /\ Rotation(c) # <<>> /\ Rotation(d) \notin {<<>>, Rotation(c)}
  /\ GroupOf[Rotation(d)[1]] = GroupOf[Rotation(c)[1]]
  /\ strategy = "round_robin" \/ Len(Rotation(d)) > 1

NoRivals(c) == <>[][\A d \in Kinds : Arrivals(d) => ~Rival(d, c)]_vars

\* A request that brings the same list as kind c gets key k.
Turn(c, k) ==
  \E r \in Requests, d \in Kinds : Arrive(r, d, k) /\ Rotation(d) = Rotation(c)

\* Whatever happened before: once attempts succeed, the keys and the strategy
\* stay, and no request uses the cursor of kind c for another list, round_robin
\* gives every key of the list its turn again and again, and priority every key
\* of the best priority, for as long as requests of that kind arrive.
KeysTakeTurns ==
  Calm => \A c \in Kinds, k \in Keys :
    /\ NoRivals(c)
    /\ []<><<Arrivals(c)>>_vars
    /\ <>[](strategy \in {"round_robin", "priority"} /\ k \in ToSet(Rotation(c)))
    => []<><<Turn(c, k)>>_vars

\* The class comment: response_time prefers keys without samples and converges
\* fast.  While attempts succeed and requests of a kind arrive, every key of
\* their list gets a sample, whatever other lists other requests bring.
EveryKeySampled ==
  Calm => \A c \in Kinds, k \in Keys :
    /\ []<><<Arrivals(c)>>_vars
    /\ <>[](strategy = "response_time" /\ k \in ToSet(ListOf(c)))
    => <>(k \in sampled)
=============================================================================
