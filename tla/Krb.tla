--------------------------------- MODULE Krb ---------------------------------
(***************************************************************************)
(* What auks builds on libkrb5: the operations on credentials, and the     *)
(* streams that carry its messages.  A behaviour is about one of the two.  *)
(***************************************************************************)
EXTENDS KrbCred, KrbStream

VARIABLE part   \* the one that this behaviour is about

libVars == <<krbVars, streamVars, part>>

LibInit ==
  /\ KrbInit /\ StreamInit
  /\ part \in {"credentials", "streams"}
  /\ part = "streams" => cache = Absent /\ buf = <<>>
  /\ part = "credentials" => side = "client"

LibNext ==
  \/ part = "credentials" /\ KrbNext /\ UNCHANGED <<streamVars, part>>
  \/ part = "streams" /\ StreamNext /\ UNCHANGED <<krbVars, part>>

LibSpec == LibInit /\ [][LibNext]_libVars
=============================================================================
