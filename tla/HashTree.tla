------------------------------ MODULE HashTree ------------------------------
(***************************************************************************)
(* Binary hash trees of a fixed depth, as the contract, tree.go, status.go *)
(* and the circuits walk them: a level at a time from a leaf to the root.  *)
(* Level 0 are the leaves, and a node is named by its level and its        *)
(* position there.  Compress is collision-free: a hash is the pair it      *)
(* hashes.                                                                 *)
(***************************************************************************)
EXTENDS Integers

Compress(l, r) == <<l, r>>

\* 1 << n
Pow2[n \in Nat] == IF n = 0 THEN 1 ELSE 2 * Pow2[n - 1]

\* The position of the ancestor of a leaf at a level, after as many shifts, and
\* its neighbour, the position with the last bit flipped.
Ancestor(index, level) == index \div Pow2[level]
IsLeft(position)       == position % 2 = 0
Neighbour(position)    == IF IsLeft(position) THEN position + 1 ELSE position - 1

\* The hashes of empty subtrees, by level.
EmptyHashes(empty, depth) ==
  LET zeroes[level \in 0..depth] ==
        IF level = 0 THEN empty ELSE Compress(zeroes[level - 1], zeroes[level - 1])
  IN  zeroes

\* The hashes from a leaf up to the root, given the siblings on the way.
Hashes(leaf, index, siblings, depth) ==
  LET current[level \in 0..depth] ==
        IF level = 0 THEN leaf
        ELSE IF IsLeft(Ancestor(index, level - 1))
             THEN Compress(current[level - 1], siblings[level - 1])
             ELSE Compress(siblings[level - 1], current[level - 1])
  IN  current

\* nodes after the hashes from a leaf up to the root are stored in it.
Stored(nodes, index, hashes, depth) ==
  LET way == {<<level, Ancestor(index, level)>> : level \in 0..depth}
  IN  [key \in way \cup DOMAIN nodes |-> IF key \in way THEN hashes[key[1]] ELSE nodes[key]]

-----------------------------------------------------------------------------
\* Reference: all hashes of the complete tree over leaves, by level and position.
CompleteTree(leaves, depth) ==
  LET tree[level \in 0..depth] ==
        IF level = 0 THEN leaves
        ELSE [position \in 0..Pow2[depth - level] - 1 |->
                Compress(tree[level - 1][2 * position], tree[level - 1][2 * position + 1])]
  IN  tree
=============================================================================
