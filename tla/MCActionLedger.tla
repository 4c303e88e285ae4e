--------------------------- MODULE MCActionLedger ---------------------------
(* ActionLedger with interchangeable runs.  The runs of a task are deliveries *)
(* of the same message: nothing in the specification tells them apart.        *)
EXTENDS ActionLedger, TLC

RunSymmetry == Permutations(Runs)
=============================================================================
