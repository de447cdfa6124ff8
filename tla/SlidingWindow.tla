--------------------------- MODULE SlidingWindow ---------------------------
(***************************************************************************)
(* SlidingWindow of services/rate_limiter.py: the events of the last       *)
(* minute and the sum of their weights.  A window here is the weight of    *)
(* its events by their age, in ticks of which Span make the minute.  The   *)
(* code drops old events when it next looks at the window, which nobody    *)
(* can tell from dropping them when they come of age.                      *)
(***************************************************************************)
EXTENDS Naturals, FiniteSets

CONSTANT Span

ASSUME SpanAssumption == Span \in Nat \ {0}

Ages == 0 .. Span - 1
Windows == [Ages -> Nat]
EmptyWindow == [a \in Ages |-> 0]

\* The sum of the weights: how many units they are of, one by one.
Units(w) == UNION {{a} \X (1 .. w[a]) : a \in Ages}
Count(w) == Cardinality(Units(w))

Added(w, weight) == [w EXCEPT ![0] = @ + weight]

\* A tick passes: an event that is a minute old has left.
Older(w) == [a \in Ages |-> IF a = 0 THEN 0 ELSE w[a - 1]]
=============================================================================
