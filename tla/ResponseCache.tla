--------------------------- MODULE ResponseCache ---------------------------
(***************************************************************************)
(* services/cache.py and its use by the gateway: a request without stream  *)
(* looks for the answer of its method, path and body, and when there is    *)
(* none it awaits the upstream and puts the answer in; meanwhile other     *)
(* requests for the same answer look, and put theirs, and the console      *)
(* clears the cache.  An entry that is too old is dropped when it is       *)
(* looked up, and takes a place until then.                                *)
(*                                                                         *)
(* The order of a dictionary is given by the entries behind each of its    *)
(* entries.                                                                *)
(***************************************************************************)
EXTENDS Naturals, FiniteSets

CONSTANTS
  Answers,     \* what make_key tells apart
  MaxEntries, Ttl,
  MaxWaiting   \* bound: requests awaiting one answer at a time

ASSUME CacheAssumption ==
  MaxEntries \in Nat \ {0} /\ Ttl \in Nat /\ MaxWaiting \in Nat

VARIABLES
  store,    \* _store: the answers it has
  behind,   \* the entries behind each entry, which were moved to the end after it
  age,      \* ticks since the entry of each answer was created
  waiting   \* the requests that await each answer from the upstream

\* History, since the cache was last cleared: the answers put in or hit after
\* each answer was; ticks since each came from upstream.
VARIABLES later, since

cacheVars == <<store, behind, age, waiting, later, since>>

Old == Ttl + 1   \* ages from here on are alike

CacheTypeOK ==
  /\ store \subseteq Answers /\ Cardinality(store) <= MaxEntries
  /\ behind \in [Answers -> SUBSET store]
  /\ age \in [Answers -> 0 .. Old] /\ since \in [Answers -> 0 .. Old]
  /\ waiting \in [Answers -> 0 .. MaxWaiting]
  /\ later \in [Answers -> SUBSET Answers]

CacheInit ==
  /\ store = {} /\ behind = [k \in Answers |-> {}] /\ later = behind
  /\ age = [k \in Answers |-> Old] /\ since = age
  /\ waiting = [k \in Answers |-> 0]

\* k moves to the end of those of s.
Moved(b, s, k) ==
  [j \in Answers |-> IF j = k THEN {} ELSE IF j \in s THEN b[j] \cup {k} ELSE b[j]]

\* What is behind each of s when the others have left.
Within(b, s) == [j \in Answers |-> IF j \in s THEN b[j] \cap s ELSE {}]

\* The n last of s.
Last(b, s, n) == {j \in s : Cardinality(b[j]) < n}

Used(k) == later' = Moved(later, Answers, k)

\* Mutants of Hit: it leaves the entry where it is; it renews the entry.
HitInPlace(k) ==
  /\ k \in store /\ age[k] <= Ttl
  /\ Used(k)
  /\ UNCHANGED <<store, behind, age, waiting, since>>

HitRenews(k) ==
  /\ k \in store /\ age[k] <= Ttl
  /\ behind' = Moved(behind, store, k) /\ Used(k)
  /\ age' = [age EXCEPT ![k] = 0]
  /\ UNCHANGED <<store, waiting, since>>

Hit(k) ==
  /\ k \in store /\ age[k] <= Ttl
  /\ behind' = Moved(behind, store, k) /\ Used(k)
  /\ UNCHANGED <<store, age, waiting, since>>

Miss(k) ==
  /\ ~(k \in store /\ age[k] <= Ttl)
  /\ waiting[k] < MaxWaiting
  /\ waiting' = [waiting EXCEPT ![k] = @ + 1]
  /\ store' = store \ {k} /\ behind' = Within(behind, store')
  /\ UNCHANGED <<age, later, since>>

\* Mutant of Put: the cache is cut before the new entry comes in.
PutAfterCut(k) ==
  /\ waiting[k] > 0
  /\ waiting' = [waiting EXCEPT ![k] = @ - 1]
  /\ LET kept == Last(behind, store, MaxEntries) IN
     store' = kept \cup {k} /\ behind' = Moved(Within(behind, kept), kept, k)
  /\ Used(k)
  /\ age' = [age EXCEPT ![k] = 0] /\ since' = [since EXCEPT ![k] = 0]

Put(k) ==
  /\ waiting[k] > 0
  /\ waiting' = [waiting EXCEPT ![k] = @ - 1]
  /\ LET moved == Moved(behind, store, k) IN
     /\ store' = Last(moved, store \cup {k}, MaxEntries)
     /\ behind' = Within(moved, store')
  /\ Used(k)
  /\ age' = [age EXCEPT ![k] = 0] /\ since' = [since EXCEPT ![k] = 0]

\* No success, or too large an answer, or no key that gives one.
PutNothing(k) ==
  /\ waiting[k] > 0
  /\ waiting' = [waiting EXCEPT ![k] = @ - 1]
  /\ UNCHANGED <<store, behind, age, later, since>>

\* POST /api/cache/clear.
Invalidate ==
  /\ store' = {} /\ behind' = [k \in Answers |-> {}]
  /\ later' = behind' /\ since' = [k \in Answers |-> Old]
  /\ UNCHANGED <<age, waiting>>

CacheTick ==
  /\ age' = [k \in Answers |-> IF age[k] < Old THEN age[k] + 1 ELSE Old]
  /\ since' = [k \in Answers |-> IF since[k] < Old THEN since[k] + 1 ELSE Old]
  /\ UNCHANGED <<store, behind, waiting, later>>

CacheNext ==
  \/ \E k \in Answers : Hit(k) \/ Miss(k) \/ Put(k) \/ PutNothing(k)
  \/ Invalidate \/ CacheTick

CacheSpec == CacheInit /\ [][CacheNext]_cacheVars
-----------------------------------------------------------------------------
(***************************************************************************)
(* Properties                                                              *)
(***************************************************************************)

\* The cache is in the order of use, and holds every answer that is not too old
\* of the MaxEntries used last, whatever hits, renewals by a second request,
\* expiries and clears come in between.
HoldsTheLastUsed ==
  /\ \A j, k \in store : k \in behind[j] <=> k \in later[j]
  /\ \A k \in Answers : since[k] <= Ttl /\ Cardinality(later[k]) < MaxEntries => k \in store

\* A hit never returns what came from upstream more than Ttl ago, however often
\* it was hit since.
HitsAreFresh == [][\A k \in Answers : Hit(k) => since[k] <= Ttl]_cacheVars
=============================================================================
