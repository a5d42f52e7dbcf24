---------------------------- MODULE MCAuksdReq ----------------------------
(* Instances of AuksdReq for TLC. *)
EXTENDS AuksdReq, TLC

CONSTANTS p1, p2, p3

\* p2 and p3 are two principals of one account.
TwoAccounts == p1 :> 0 @@ p2 :> 1 @@ p3 :> 1

Block(name, role, principals, host) ==
  [name |-> name, role |-> role, complete |-> TRUE, principals |-> principals, host |-> host]

\* p2 is a guest, p3 a user, p1 has no role.
Users == <<Block("rule", "user", {p2}, "node"),
           Block("rule", "guests", {p2}, "*"),
           Block("rule", "absent", {p1}, "*"),
           Block("rule", "user", {p2, p3}, "*")>>

\* p1 is an administrator, p3 a guest, p2 has no role.
Admins == <<Block("acl", "admin", {p1, p2, p3}, "*"),
            Block("rule", "guest", {p3}, "*"),
            Block("rule", "admin", {p1, p3}, "*")>>

\* One that does not load.
Misspelt == <<Block("rule", "user", {p2, p3}, "*"), Block("rule", "administrator", {p1}, "*")>>

MCAclFiles == {Users, Admins, Misspelt}

WorkerSymmetry == Permutations(Workers)
=============================================================================
