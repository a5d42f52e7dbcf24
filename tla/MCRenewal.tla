----------------------------- MODULE MCRenewal -----------------------------
(* Instances of Renewal for TLC. *)
EXTENDS Renewal, TLC

CONSTANTS u1, s1

OneStep == s1 :> u1
=============================================================================
