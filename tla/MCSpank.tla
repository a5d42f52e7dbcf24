------------------------------ MODULE MCSpank ------------------------------
EXTENDS SpankNode

Plugstack(default, enforced, fileCache, sync, allowed, required) ==
  [default |-> default, enforced |-> enforced, fileCache |-> fileCache,
   sync |-> sync, allowed |-> allowed, required |-> required]

MCConfs == { Plugstack("enabled", FALSE, TRUE, TRUE, TRUE, FALSE),
             Plugstack("disabled", FALSE, FALSE, FALSE, TRUE, TRUE),
             Plugstack("enabled", TRUE, FALSE, TRUE, TRUE, TRUE),
             Plugstack("enabled", FALSE, FALSE, TRUE, FALSE, FALSE) }

\* One fault at a time, and a renewer that can neither be signalled nor waited for.
OneFault == {{}} \cup {{f} : f \in FaultKinds} \cup {{"kill", "wait"}}
=============================================================================
