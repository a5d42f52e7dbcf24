------------------------------ MODULE SpankNode ------------------------------
(* A job step on a node that has one of the two plugins. *)
EXTENDS Spank

C == INSTANCE SpankC
Rs == INSTANCE SpankRs

StepNext ==
  \/ plugin = "c" /\ C!SpankCNext
  \/ plugin = "rs" /\ Rs!SpankRsNext

StepSpec == SpankInit /\ [][StepNext]_spankVars

FairStepSpec ==
  /\ StepSpec
  /\ WF_spankVars(plugin = "c" /\ C!SpankCFairly) /\ WF_spankVars(plugin = "c" /\ C!SpankCKilled)
  /\ WF_spankVars(plugin = "rs" /\ Rs!SpankRsFairly) /\ WF_spankVars(plugin = "rs" /\ Rs!SpankRsKilled)
=============================================================================
