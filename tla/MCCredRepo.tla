---------------------------- MODULE MCCredRepo ----------------------------
(* Instances of CredRepo for TLC. *)
EXTENDS CredRepo, TLC

CONSTANTS p1, p2

\* Every principal has its own account; uid 0 belongs to p1.
OwnAccounts == p1 :> 0 @@ p2 :> 1
\* Both share the account of uid 0.
SharedAccount == p1 :> 0 @@ p2 :> 0
=============================================================================
