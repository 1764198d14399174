-------------------------- MODULE MCTransferTasks --------------------------
(* Instances of TransferTasks for TLC. *)
EXTENDS TransferTasks, TLC

Symmetry == Permutations(Runners)
=============================================================================
