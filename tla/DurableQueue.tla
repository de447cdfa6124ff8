---------------------------- MODULE DurableQueue ----------------------------
(***************************************************************************)
(* What db/database.py promises of its background writes, without saying   *)
(* how: request logs, daily statistics and key rows are accepted at once   *)
(* and stored later, each kind in the order it was accepted; a row is lost *)
(* only while it waits, when the process dies or with a row that the       *)
(* database refuses, and a refused row is never stored.                    *)
(***************************************************************************)
EXTENDS Naturals, Sequences

CONSTANTS
  Kinds,   \* the kinds of rows
  Rows,    \* row identifiers
  Refused  \* the rows an INSERT refuses

VARIABLES
  waiting, \* waiting[k]: the rows of kind k accepted and not stored yet
  stored   \* stored[k]: the rows of kind k in the database

vars == <<waiting, stored>>

None == [k \in Kinds |-> <<>>]
Elements(s) == {s[i] : i \in DOMAIN s}

Init == waiting = None /\ stored = None

Accept(k, r) ==
  /\ waiting' = [waiting EXCEPT ![k] = Append(@, r)]
  /\ UNCHANGED stored

\* One transaction: a first part of what waits, of every kind, is stored.
Store ==
  /\ stored' \in [Kinds -> Seq(Rows)] /\ waiting' \in [Kinds -> Seq(Rows)]
  /\ \A k \in Kinds :
       /\ stored'[k] \o waiting'[k] = stored[k] \o waiting[k]
       /\ Len(stored'[k]) >= Len(stored[k])
       /\ Elements(stored'[k]) \cap Refused = {}

\* A refused row is dropped, with a run of rows next to it and a run of each
\* other kind.
Without(s, i, j) == SubSeq(s, 1, i) \o SubSeq(s, j + 1, Len(s))

Drop ==
  /\ UNCHANGED stored
  /\ waiting' \in [Kinds -> Seq(Rows)]
  /\ \A k \in Kinds : \E i \in 0 .. Len(waiting[k]) : \E j \in i .. Len(waiting[k]) :
       waiting'[k] = Without(waiting[k], i, j)
  /\ \E k \in Kinds : \E i \in 0 .. Len(waiting[k]) : \E j \in i + 1 .. Len(waiting[k]) :
       /\ waiting'[k] = Without(waiting[k], i, j)
       /\ \E n \in i + 1 .. j : waiting[k][n] \in Refused

\* The process dies.
Lose == waiting' = None /\ UNCHANGED stored

Next == (\E k \in Kinds, r \in Rows : Accept(k, r)) \/ Store \/ Drop \/ Lose

Spec == Init /\ [][Next]_vars
=============================================================================
