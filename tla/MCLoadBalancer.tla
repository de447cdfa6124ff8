--------------------------- MODULE MCLoadBalancer ---------------------------
(* Instances of LoadBalancer for TLC.                                       *)
EXTENDS LoadBalancer

\* A request that any key can serve, one for a model that two keys provide, and
\* one that asks for a key.  Keys are listed in another order than their ids have.
AnyModelOrKey ==
  [c \in {"any", "model", "key"} |->
     CASE c = "any" -> << <<2, 1, 3>> >>
       [] c = "model" -> << <<2, 1>>, <<2, 1, 3>> >>
       [] c = "key" -> << <<3>> >>]

\* Two are of the best priority and in groups of their own.
Priorities == [k \in 1 .. 3 |-> IF k = 2 THEN 5 ELSE 1]
TwoGroups == [k \in 1 .. 3 |-> IF k = 3 THEN "b" ELSE "a"]
=============================================================================
