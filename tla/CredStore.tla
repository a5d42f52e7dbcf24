----------------------------- MODULE CredStore -----------------------------
(***************************************************************************)
(* What the credential repository promises, without its memory, its files  *)
(* and its mutex: one credential at most per uid, under its own uid, which *)
(* gives way only to one at least as good.  Additions, removals, cleanings *)
(* and restarts change it in one step each, one uid at a time.             *)
(***************************************************************************)
EXTENDS Integers

CONSTANTS Principals, Uids, EndTimes, RenewTills, NoCred

VARIABLE store   \* uid -> credential or NoCred

StoreCred == [owner : Principals, uid : Uids, endtime : EndTimes, renewTill : RenewTills]

Outlasts(new, old) ==
  \/ new.renewTill > old.renewTill
  \/ new.renewTill = old.renewTill /\ new.endtime >= old.endtime

StoreInit == store = [u \in Uids |-> NoCred]

Put(c) ==
  /\ store[c.uid] = NoCred \/ Outlasts(c, store[c.uid])
  /\ store' = [store EXCEPT ![c.uid] = c]

\* A removal, an expiry, or the loss of a credential whose replacement or
\* removal the crash of the daemon cut short.
Drop(u) ==
  /\ store[u] # NoCred
  /\ store' = [store EXCEPT ![u] = NoCred]

StoreNext ==
  \/ \E c \in StoreCred : Put(c)
  \/ \E u \in Uids : Drop(u)

StoreSpec == StoreInit /\ [][StoreNext]_store
=============================================================================
