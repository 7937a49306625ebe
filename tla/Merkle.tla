-------------------------------- MODULE Merkle --------------------------------
(***************************************************************************)
(* The Merkle tree of a batch: computeMerkleRoot and computeMerklePath of  *)
(* scripts/batchAnchor.js, which controllers/adminController.js repeats    *)
(* word for word.  A batch computes the root once and then the path of     *)
(* each record.  One behaviour follows the root and one path; `proof' is   *)
(* what someone who holds the record makes of that path.                   *)
(***************************************************************************)
EXTENDS Naturals, Sequences

CONSTANTS
    HashLists,      \* the lists of hashes a batch may have
    Hash(_, _)      \* sha256(concat([left, right]))

\* An empty batch returns before it computes anything (batchAnchor.js:83).
ASSUME MerkleAssumption ==
    \A hashes \in HashLists :
        /\ hashes \in Seq({hashes[k] : k \in DOMAIN hashes})
        /\ Len(hashes) > 0

VARIABLES
    step,       \* which loop runs: "root", "path", or "done"
    levels,     \* the values of `level' in computeMerkleRoot, first to last
    index,      \* the record whose path is computed, counted from 0
    idx,        \* its place in the current level
    level,      \* the current level in computeMerklePath
    path,       \* the siblings found so far
    proof       \* the hash of the record, combined with those siblings

vars == <<step, levels, index, idx, level, path, proof>>

hashes == levels[1]
top == levels[Len(levels)]      \* once it has one node, that is the root

-----------------------------------------------------------------------------
\* The level above: nodes in pairs, an odd last one paired with itself.
Above(nodes) ==
    [k \in 1..((Len(nodes) + 1) \div 2) |->
        Hash(nodes[2 * k - 1],
             IF 2 * k <= Len(nodes) THEN nodes[2 * k] ELSE nodes[2 * k - 1])]

\* Mutant of Sibling: always the next node.
NextNode(nodes, i) == IF i + 1 < Len(nodes) THEN nodes[i + 2] ELSE nodes[i + 1]

\* level[pairIndex] || level[idx]; sequences count from 1, the code from 0.
Sibling(nodes, i) ==
    LET pair == IF i % 2 = 1 THEN i - 1 ELSE i + 1 IN
    IF pair < Len(nodes) THEN nodes[pair + 1] ELSE nodes[i + 1]

\* What a verifier does with a sibling: the place tells left from right.
Combine(node, sibling, i) ==
    IF i % 2 = 1 THEN Hash(sibling, node) ELSE Hash(node, sibling)

Init ==
    /\ \E list \in HashLists :
          /\ levels = <<list>>
          /\ level = list
          /\ index \in 0..(Len(list) - 1)
          /\ proof = list[index + 1]
    /\ step = "root"
    /\ idx = index
    /\ path = <<>>

\* One turn of the loop of computeMerkleRoot, or its end.
RootLoop ==
    /\ step = "root"
    /\ IF Len(top) > 1
       THEN levels' = Append(levels, Above(top)) /\ UNCHANGED step
       ELSE step' = "path" /\ UNCHANGED levels
    /\ UNCHANGED <<index, idx, level, path, proof>>

\* One turn of the loop of computeMerklePath, or its end.
PathLoop ==
    /\ step = "path"
    /\ IF Len(level) > 1
       THEN /\ path' = Append(path, Sibling(level, idx))
            /\ proof' = Combine(proof, Sibling(level, idx), idx)
            /\ level' = Above(level)
            /\ idx' = idx \div 2
            /\ UNCHANGED step
       ELSE step' = "done" /\ UNCHANGED <<path, proof, level, idx>>
    /\ UNCHANGED <<levels, index>>

Next == RootLoop \/ PathLoop

Spec == Init /\ [][Next]_vars

-----------------------------------------------------------------------------
\* The path of each record leads from the hash of the record to the root that
\* is broadcast, whatever the number of records (README.md:527; the duplicated
\* last node of batchAnchor.js:30 and :45 has to be the same one).
PathLeadsToRoot == step = "done" => top = <<proof>>

=============================================================================
