--------------------------------- MODULE Rpc ---------------------------------
(***************************************************************************)
(* What a call of the client library promises about its request: it takes  *)
(* effect once at most, on one daemon at most; a call that succeeds has    *)
(* taken effect, one that is refused never does, and of any other failure  *)
(* nothing is known: it may even take effect after the call has returned.  *)
(***************************************************************************)
EXTENDS Integers

CONSTANT Calls

VARIABLES
  outcome,   \* what the caller knows of each call
  effects    \* how often its request has taken effect

rpcVars == <<outcome, effects>>

Outcomes == {"none", "pending", "success", "refused", "unknown"}

RpcInit ==
  /\ outcome = [k \in Calls |-> "none"]
  /\ effects = [k \in Calls |-> 0]

Invoke(k) ==
  /\ outcome[k] = "none"
  /\ outcome' = [outcome EXCEPT ![k] = "pending"]
  /\ UNCHANGED effects

Effect(k) ==
  /\ outcome[k] \in {"pending", "unknown"}
  /\ effects[k] = 0
  /\ effects' = [effects EXCEPT ![k] = 1]
  /\ UNCHANGED outcome

Return(k, result) ==
  /\ outcome[k] = "pending"
  /\ result = "success" => effects[k] = 1
  /\ result = "refused" => effects[k] = 0
  /\ outcome' = [outcome EXCEPT ![k] = result]
  /\ UNCHANGED effects

RpcNext ==
  \E k \in Calls :
    \/ Invoke(k)
    \/ Effect(k)
    \/ \E result \in {"success", "refused", "unknown"} : Return(k, result)

RpcSpec == RpcInit /\ [][RpcNext]_rpcVars
=============================================================================
