------------------------------ MODULE MCAuksd ------------------------------
(* Instances of Auksd for TLC. *)
EXTENDS Auksd, TLC

Both == {TRUE, FALSE}
Always == {TRUE}
Never == {FALSE}
Symmetry == Permutations(Consumers) \cup Permutations(Items)
=============================================================================
