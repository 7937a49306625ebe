------------------------- MODULE PatchOperationsMC -------------------------
(* Small instances of PatchOperations for TLC. *)
EXTENDS PatchOperations, TLC

OpsSymmetry == Permutations(Workers) \cup Permutations(Addresses)
=============================================================================
