---------------------------- MODULE MCModelSync ----------------------------
(* Instances of ModelSync for TLC.                                          *)
EXTENDS ModelSync, TLC

CONSTANTS k1, k2, k3, a, m

\* All have the same name, and two of them the same base URL.
TwoShareOne ==
  k1 :> [name |-> <<a>>, base |-> 1] @@ k2 :> [name |-> <<a>>, base |-> 1]
    @@ k3 :> [name |-> <<a>>, base |-> 2]

\* The ids "m" and "m-1": the public id of the second is also that of the first
\* of two models "m".
NumberAtTheEnd == 1 :> <<m>> @@ 2 :> <<m, 1>>

\* One "m" at the first two, both ids at the third; each may fail.
BothAtTheThird == k1 :> {{}, {1}} @@ k2 :> {{}, {1}} @@ k3 :> {{}, {1, 2}}

\* An upstream's id, and the public id of the second of two models.
IdAndPublicId == {<<m>>, <<a, m, 2>>}

SameSymmetry == Permutations({k1, k2}) \cup Permutations(Jobs)
=============================================================================
