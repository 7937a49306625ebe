-------------------------- MODULE PatchLifecycleMC --------------------------
(* Small instances of PatchLifecycle for TLC. *)
EXTENDS PatchLifecycle, TLC

\* Handlers of one kind, workers and addresses are interchangeable.
Symmetry ==
    Permutations(AsyncHandlers) \cup Permutations(Handlers \ AsyncHandlers)
        \cup Permutations(Workers) \cup Permutations(Addresses)
=============================================================================
