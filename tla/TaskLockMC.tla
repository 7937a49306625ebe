------------------------------ MODULE TaskLockMC ------------------------------
(* Small instances of TaskLock for TLC. *)
EXTENDS TaskLock, TLC

Symmetry == Permutations(Processes)
=============================================================================
