------------------------------ MODULE MCClient ------------------------------
(* Instances of ClientRs for TLC. *)
EXTENDS ClientRs, TLC

Symmetry == Permutations(Clients)
=============================================================================
