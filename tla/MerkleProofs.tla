----------------------------- MODULE MerkleProofs -----------------------------
(***************************************************************************)
(* For every list of hashes and every hash function, the path that         *)
(* computeMerklePath finds leads to the root that computeMerkleRoot found. *)
(*                                                                         *)
(* The two loops run one after the other and never meet, so the argument   *)
(* keeps the levels of the first one: the second passes through the same   *)
(* levels in the same order, and at each of them the verifier's hash is    *)
(* the node at idx.                                                        *)
(***************************************************************************)
EXTENDS Merkle, TLAPS

IsList(nodes) == (\E S : nodes \in Seq(S)) /\ Len(nodes) > 0

\* The levels of the root loop: each is made from the one before.
LevelsInv ==
    /\ \E S : levels \in Seq(S)
    /\ Len(levels) > 0
    /\ \A k \in 1..Len(levels) : IsList(levels[k])
    /\ \A k \in 1..(Len(levels) - 1) :
          Len(levels[k]) > 1 /\ levels[k + 1] = Above(levels[k])

\* The path loop is at one of those levels, at the record's ancestor.
PathInv ==
    /\ \E S : path \in Seq(S)
    /\ Len(path) < Len(levels)
    /\ level = levels[Len(path) + 1]
    /\ idx \in 0..(Len(level) - 1)
    /\ proof = level[idx + 1]

Inv ==
    /\ LevelsInv
    /\ PathInv
    /\ step \in {"root", "path", "done"}
    /\ step # "root" => Len(top) = 1
    /\ step = "done" => Len(level) = 1

-----------------------------------------------------------------------------
\* A longer sequence: what Append leaves, and what it adds.
LEMMA Appended ==
    ASSUME NEW s, NEW x, \E S : s \in Seq(S)
    PROVE  /\ \E S : Append(s, x) \in Seq(S)
           /\ Len(s) \in Nat
           /\ Len(Append(s, x)) = Len(s) + 1
           /\ \A k \in 1..Len(s) : Append(s, x)[k] = s[k]
           /\ Append(s, x)[Len(s) + 1] = x
<1>1. PICK S : s \in Seq(S)
  OBVIOUS
<1>2. s \in Seq(S \cup {x}) /\ x \in S \cup {x}
  BY <1>1
<1>3. Append(s, x) \in Seq(S \cup {x})
  BY <1>2
<1> QED
  BY <1>2, <1>3

\* A list has one node or several.
LEMMA OneOrMore ==
    ASSUME NEW n \in Nat \ {0}
    PROVE  n = 1 <=> ~(n > 1)
  OBVIOUS

\* The length of a list is a positive number.
LEMMA ListLength ==
    ASSUME NEW nodes, IsList(nodes)
    PROVE  Len(nodes) \in Nat \ {0}
  BY DEF IsList

\* The level above a list is a list, half as long.
LEMMA AboveIsList ==
    ASSUME NEW nodes, IsList(nodes)
    PROVE  /\ IsList(Above(nodes))
           /\ Len(Above(nodes)) = (Len(nodes) + 1) \div 2
<1> DEFINE half == (Len(nodes) + 1) \div 2
           S == {Above(nodes)[k] : k \in 1..half}
<1>1. Len(nodes) \in Nat /\ Len(nodes) > 0
  BY DEF IsList
<1>2. half \in Nat /\ half > 0
  BY <1>1
<1>3. Above(nodes) \in [1..half -> S]
  BY DEF Above
<1> HIDE DEF half, S
<1>4. Above(nodes) \in Seq(S) /\ Len(Above(nodes)) = half
  BY <1>2, <1>3
<1> QED
  BY <1>2, <1>4 DEF IsList, half

\* A node and its sibling make the node above them: right children after their
\* sibling, left children before it, and an odd last one with itself.
LEMMA CombineWithSibling ==
    ASSUME NEW nodes, IsList(nodes), NEW i \in 0..(Len(nodes) - 1)
    PROVE  /\ i \div 2 \in 0..(Len(Above(nodes)) - 1)
           /\ Combine(nodes[i + 1], Sibling(nodes, i), i) = Above(nodes)[i \div 2 + 1]
<1>1. Len(nodes) \in Nat /\ Len(nodes) > 0 /\ i \in Nat
  BY DEF IsList
<1>2. i \div 2 \in 0..(Len(Above(nodes)) - 1) /\ i \div 2 + 1 \in 1..((Len(nodes) + 1) \div 2)
  BY <1>1, AboveIsList
<1> DEFINE k == i \div 2 + 1
<1>3. Above(nodes)[k] =
         Hash(nodes[2 * k - 1], IF 2 * k <= Len(nodes) THEN nodes[2 * k] ELSE nodes[2 * k - 1])
  BY <1>2 DEF Above
<1>4. CASE i % 2 = 1
  <2>1. 2 * k = i + 1 /\ i - 1 + 1 = 2 * k - 1 /\ i - 1 < Len(nodes)
    BY <1>1, <1>4
  <2>2. Sibling(nodes, i) = nodes[2 * k - 1]
    BY <2>1, <1>4 DEF Sibling
  <2>3. Combine(nodes[i + 1], Sibling(nodes, i), i) = Hash(nodes[2 * k - 1], nodes[2 * k])
    BY <2>1, <2>2, <1>4 DEF Combine
  <2> QED
    BY <1>1, <1>2, <1>3, <2>1, <2>3
<1>5. CASE i % 2 # 1
  <2>1. 2 * k = i + 2 /\ i + 1 = 2 * k - 1
    BY <1>1, <1>5
  <2>2. Sibling(nodes, i) = IF 2 * k <= Len(nodes) THEN nodes[2 * k] ELSE nodes[2 * k - 1]
    BY <1>1, <2>1, <1>5 DEF Sibling
  <2>3. Combine(nodes[i + 1], Sibling(nodes, i), i) = Hash(nodes[2 * k - 1], Sibling(nodes, i))
    BY <2>1, <1>5 DEF Combine
  <2> QED
    BY <1>2, <1>3, <2>2, <2>3
<1> QED
  BY <1>4, <1>5

-----------------------------------------------------------------------------
\* A batch begins with its hashes as the only level, and the record's own hash.
LEMMA InvInit == Init => Inv
<1> SUFFICES ASSUME Init PROVE Inv
  OBVIOUS
<1>1. PICK list \in HashLists :
         /\ levels = <<list>>
         /\ level = list
         /\ index \in 0..(Len(list) - 1)
         /\ proof = list[index + 1]
  BY DEF Init
<1>2. IsList(list)
  BY MerkleAssumption DEF IsList
<1>3. levels \in Seq({list}) /\ Len(levels) = 1 /\ levels[1] = list
  BY <1>1
<1>4. LevelsInv
  BY <1>2, <1>3 DEF LevelsInv
<1>5. path \in Seq({}) /\ Len(path) = 0
  BY DEF Init
<1>6. PathInv
  BY <1>1, <1>3, <1>5 DEF PathInv, Init
<1> QED
  BY <1>4, <1>6 DEF Inv, Init

\* The root loop adds a level above the last one, or stops at a single node.
LEMMA InvRootLoop == Inv /\ RootLoop => Inv'
<1> SUFFICES ASSUME Inv, RootLoop PROVE Inv'
  OBVIOUS
<1>1. Len(levels) \in Nat /\ Len(levels) > 0
  BY DEF Inv, LevelsInv
<1>2. IsList(top)
  BY <1>1 DEF Inv, LevelsInv, top
<1>3. CASE Len(top) > 1
  <2> DEFINE n == Len(levels)
  <2>1. levels' = Append(levels, Above(top)) /\ step' = "root"
    BY <1>3 DEF RootLoop
  <2>2. /\ \E S : levels' \in Seq(S)
        /\ Len(levels') = n + 1
        /\ \A k \in 1..n : levels'[k] = levels[k]
        /\ levels'[n + 1] = Above(top)
    BY <2>1, Appended DEF Inv, LevelsInv
  <2>3. ASSUME NEW k \in 1..(n + 1) PROVE IsList(levels'[k])
    <3>1. CASE k \in 1..n
      BY <2>2, <3>1 DEF Inv, LevelsInv
    <3>2. CASE k = n + 1
      BY <2>2, <3>2, <1>2, AboveIsList
    <3> QED
      BY <1>1, <3>1, <3>2
  <2>4. ASSUME NEW k \in 1..n
        PROVE  Len(levels'[k]) > 1 /\ levels'[k + 1] = Above(levels'[k])
    <3>1. CASE k \in 1..(n - 1)
      <4>1. k \in 1..n /\ k + 1 \in 1..n
        BY <1>1, <3>1
      <4> QED
        BY <2>2, <3>1, <4>1 DEF Inv, LevelsInv
    <3>2. CASE k = n
      BY <2>2, <3>2, <1>1, <1>3 DEF top
    <3> QED
      BY <1>1, <3>1, <3>2
  <2>5. LevelsInv'
    BY <2>2, <2>3, <2>4, <1>1 DEF LevelsInv
  <2>6. PathInv'
    <3>1. level' = level /\ idx' = idx /\ path' = path /\ proof' = proof
      BY DEF RootLoop
    <3>2. Len(path) \in Nat /\ Len(path) < n
      BY DEF Inv, PathInv
    <3>3. Len(path) + 1 \in 1..n
      BY <1>1, <3>2
    <3> QED
      BY <2>2, <1>1, <3>1, <3>2, <3>3 DEF Inv, PathInv
  <2> QED
    BY <2>1, <2>5, <2>6 DEF Inv
<1>4. CASE ~(Len(top) > 1)
  <2>1. UNCHANGED <<levels, index, idx, level, path, proof>> /\ step' = "path"
    BY <1>4 DEF RootLoop
  <2>2. Len(top) = 1
    BY <1>2, <1>4 DEF IsList
  <2> QED
    BY <2>1, <2>2 DEF Inv, LevelsInv, PathInv, top
<1> QED
  BY <1>3, <1>4

\* The path loop climbs to the parent, which the root loop has made before.
LEMMA InvPathLoop == Inv /\ PathLoop => Inv'
<1> SUFFICES ASSUME Inv, PathLoop PROVE Inv'
  OBVIOUS
<1> DEFINE n == Len(levels)
           k == Len(path) + 1
<1>1. n \in Nat /\ n > 0 /\ Len(path) \in Nat /\ k \in 1..n
  BY DEF Inv, LevelsInv, PathInv
<1>2. level = levels[k] /\ IsList(level)
  BY <1>1 DEF Inv, LevelsInv, PathInv
<1>3. levels' = levels /\ Len(top) = 1
  BY DEF PathLoop, Inv
<1> HIDE DEF n, k
<1>6. Len(level) \in Nat \ {0}
  BY <1>2, ListLength
<1>4. CASE Len(level) > 1
  <2>1. /\ path' = Append(path, Sibling(level, idx))
        /\ proof' = Combine(proof, Sibling(level, idx), idx)
        /\ level' = Above(level)
        /\ idx' = idx \div 2
        /\ step' = "path"
    BY <1>4 DEF PathLoop
  <2>2. k # n
    <3>1. k = n => level = top
      BY <1>2 DEF top, n
    <3>2. Len(level) # 1
      BY <1>6, <1>4, OneOrMore
    <3> QED
      BY <1>3, <3>1, <3>2
  <2>3. levels[k + 1] = Above(level)
    BY <1>1, <1>2, <2>2 DEF Inv, LevelsInv, n
  <2>4. (\E S : path' \in Seq(S)) /\ Len(path') = k
    BY <2>1, Appended DEF Inv, PathInv, k
  <2>5. /\ idx' \in 0..(Len(level') - 1)
        /\ proof' = level'[idx' + 1]
    BY <2>1, <1>2, CombineWithSibling DEF Inv, PathInv
  <2>6. PathInv'
    BY <1>1, <1>3, <2>1, <2>2, <2>3, <2>4, <2>5 DEF PathInv, n, k
  <2> QED
    BY <1>3, <2>1, <2>6 DEF Inv, LevelsInv, top
<1>5. CASE ~(Len(level) > 1)
  <2>1. UNCHANGED <<path, proof, level, idx, levels>> /\ step' = "done"
    BY <1>5 DEF PathLoop
  <2>2. Len(level) = 1
    BY <1>6, <1>5, OneOrMore
  <2> QED
    BY <1>3, <2>1, <2>2 DEF Inv, LevelsInv, PathInv, top
<1> QED
  BY <1>4, <1>5

\* Both loops, and stuttering, preserve the invariant.
LEMMA InvStep == Inv /\ [Next]_vars => Inv'
<1>1. Inv /\ UNCHANGED vars => Inv'
  BY DEF Inv, LevelsInv, PathInv, vars, top
<1> QED
  BY <1>1, InvRootLoop, InvPathLoop DEF Next

\* When both loops are done, the second one is at the last level of the first,
\* for every level below has more than one node.
LEMMA InvImplies == Inv => PathLeadsToRoot
<1> SUFFICES ASSUME Inv, step = "done" PROVE top = <<proof>>
  BY DEF PathLeadsToRoot
<1>1. Len(level) = 1 /\ idx = 0 /\ proof = level[1]
  BY DEF Inv, PathInv
<1>2. Len(path) + 1 = Len(levels)
  <2> DEFINE k == Len(path) + 1
  <2>1. Len(levels) \in Nat /\ Len(path) \in Nat /\ k \in 1..Len(levels)
    BY DEF Inv, LevelsInv, PathInv
  <2>2. level = levels[k]
    BY DEF Inv, PathInv
  <2> HIDE DEF k
  <2>3. ~(Len(levels[k]) > 1)
    <3>1. ~(1 > 1)
      OBVIOUS
    <3> QED
      BY <1>1, <2>2, <3>1, Zenon
  <2>4. ~(k \in 1..(Len(levels) - 1))
    BY <2>3 DEF Inv, LevelsInv
  <2>5. k = Len(levels)
    BY <2>1, <2>4
  <2> QED
    BY <2>5 DEF k
<1>3. top = level /\ IsList(top)
  BY <1>2 DEF Inv, LevelsInv, PathInv, top
<1>4. PICK S : top \in Seq(S)
  BY <1>3 DEF IsList
<1> QED
  BY <1>1, <1>3, <1>4

\* A record's path proves that it is under the broadcast root, for batches of
\* every size (scripts/batchAnchor.js:23-58).
THEOREM PathCorrect == Spec => []PathLeadsToRoot
  BY InvInit, InvStep, InvImplies, PTL DEF Spec
=============================================================================
