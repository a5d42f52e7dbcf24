------------------------------ MODULE MCXqueue ------------------------------
(* Instances of Xqueue for TLC. *)
EXTENDS Xqueue, TLC

CONSTANTS p1, c1, c2, s1, s2

Both == {TRUE, FALSE}
Always == {TRUE}
Symmetry == Permutations(Consumers) \cup Permutations(Items)
=============================================================================
