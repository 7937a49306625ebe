------------------------------ MODULE MerkleMC ------------------------------
(* Batches of 1 to MaxLeaves records.  A hash is symbolic: a leaf is <<n>>,  *)
(* a node the pair of its children, so that no two inputs collide.           *)
EXTENDS Merkle

CONSTANT MaxLeaves

Batches == {[k \in 1..n |-> <<k>>] : n \in 1..MaxLeaves}
Pair(l, r) == <<l, r>>
=============================================================================
