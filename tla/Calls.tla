-------------------------------- MODULE Calls --------------------------------
(***************************************************************************)
(* A C function as the sequence of its calls.  A call may yield a resource *)
(* and names the label that the function jumps to when it fails.           *)
(***************************************************************************)

Step(op, res, label) == [op |-> op, res |-> res, label |-> label]
Take(res, label) == Step("take", res, label)
Drop(res) == Step("drop", res, "none")
Try(op, label) == Step(op, "none", label)
=============================================================================
