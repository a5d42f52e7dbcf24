------------------------------- MODULE LibMap -------------------------------
(***************************************************************************)
(* What the repository takes an xlibrary for: a map from references to     *)
(* objects, whose operations may fail for lack of memory.  These are the   *)
(* steps that CredRepo has for it.                                         *)
(***************************************************************************)
CONSTANTS Keys, Vals, Absent

VARIABLES map, ret

MapInit == map = [k \in Keys |-> Absent] /\ ret = "none"

Put(k, v) == map' = [map EXCEPT ![k] = v] /\ ret' = "success"

\* AddInsertShadowed: the old object stays although the addition reports success.
PutShadowed(k) == map[k] # Absent /\ UNCHANGED map /\ ret' = "success"

\* AddInsertFails: before or after the old object was dropped.
PutFails(k) == map' \in {map, [map EXCEPT ![k] = Absent]} /\ ret' \in {"empty", "library_add"}

Delete(k) == map[k] # Absent /\ map' = [map EXCEPT ![k] = Absent] /\ ret' = "success"
DeleteFails(k) ==
  UNCHANGED map /\ (ret' = "empty" \/ (map[k] = Absent /\ ret' = "not_found"))

\* A lookup says what it found.
Lookup(k) ==
  UNCHANGED map /\ (ret' = "empty" \/ ret' = IF map[k] = Absent THEN "not_found" ELSE map[k])

MapNext ==
  \E k \in Keys :
    \/ \E v \in Vals : Put(k, v)
    \/ PutShadowed(k) \/ PutFails(k) \/ Delete(k) \/ DeleteFails(k) \/ Lookup(k)

MapSpec == MapInit /\ [][MapNext]_<<map, ret>>
=============================================================================
