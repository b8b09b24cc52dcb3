----------------------------- MODULE MerkleTree -----------------------------
(***************************************************************************)
(* The incremental Merkle tree of commitments, twice: _append of           *)
(* ZkDPPV2Ledger.sol with its nodes in one mapping, and tree.go, which the *)
(* prover keeps to make membership paths.  Both append the same            *)
(* commitments in the same order, neither waits for the other.             *)
(*                                                                         *)
(* The ledger takes a commitment once, so the k-th commitment is named     *)
(* <<k + 1>>, and a leaf that is still empty <<0>>.                        *)
(***************************************************************************)
EXTENDS HashTree, FiniteSets

CONSTANT Depth   \* TREE_DEPTH

ASSUME DepthAssumption == Depth \in Nat \ {0}

VARIABLES
  leafCount, storage, currentRoot, acceptedRoots,   \* the contract
  count, nodes, root                                \* the prover

contractVars == <<leafCount, storage, currentRoot, acceptedRoots>>
proverVars   == <<count, nodes, root>>
treeVars     == <<contractVars, proverVars>>

Capacity == Pow2[Depth]
Levels   == 0..Depth - 1

Empty         == <<0>>
Commitment(k) == <<k + 1>>
zeroes        == EmptyHashes(Empty, Depth)

-----------------------------------------------------------------------------
(* The contract. *)

NodeIndex(level, position) == Pow2[Depth - level] - 1 + position

\* Mutant: a node that was never written is taken for an empty leaf.
NodeAsStored(level, position) == storage[NodeIndex(level, position)]

\* A node that was never written reads as zero and stands for an empty subtree.
NodeOnChain(level, position) ==
  LET stored == storage[NodeIndex(level, position)]
  IN  IF stored = Empty THEN zeroes[level] ELSE stored

AppendOnChain ==
  LET siblings == [level \in Levels |->
                     NodeOnChain(level, Neighbour(Ancestor(leafCount, level)))]
      current  == Hashes(Commitment(leafCount), leafCount, siblings, Depth)
      written  == {NodeIndex(level, Ancestor(leafCount, level)) : level \in 0..Depth}
      LevelOf(i) == CHOOSE level \in 0..Depth :
                      i = NodeIndex(level, Ancestor(leafCount, level))
  IN  /\ leafCount < Capacity
      /\ storage' = [i \in DOMAIN storage |->
                       IF i \in written THEN current[LevelOf(i)] ELSE storage[i]]
      /\ leafCount' = leafCount + 1
      /\ currentRoot' = current[Depth]
      /\ acceptedRoots' = acceptedRoots \cup {current[Depth]}
      /\ UNCHANGED proverVars

-----------------------------------------------------------------------------
(* The prover. *)

Node(level, position) ==
  IF <<level, position>> \in DOMAIN nodes THEN nodes[<<level, position>>]
                                          ELSE zeroes[level]

AppendInProver ==
  LET siblings == [level \in Levels |-> Node(level, Neighbour(Ancestor(count, level)))]
      current  == Hashes(Commitment(count), count, siblings, Depth)
  IN  /\ count < Capacity
      /\ nodes' = Stored(nodes, count, current, Depth)
      /\ count' = count + 1
      /\ root' = current[Depth]
      /\ UNCHANGED contractVars

\* Mutant: the right neighbour at every level.
RightNeighbours(index) == [level \in Levels |-> Node(level, Ancestor(index, level) + 1)]

\* The siblings on the way from a leaf to the root.
Path(index) == [level \in Levels |-> Node(level, Neighbour(Ancestor(index, level)))]

\* Verify of tree.go.
Verify(top, leaf, index, siblings) == Hashes(leaf, index, siblings, Depth)[Depth] = top

\* The constraints of assertMerkleRoot, over the bits of the index.
AssertMembership(top, leaf, index, siblings) ==
  LET bits == [level \in Levels |-> (index % Pow2[level + 1]) \div Pow2[level]]
      current[level \in 0..Depth] ==
        IF level = 0 THEN leaf
        ELSE LET below == level - 1
                 left  == IF bits[below] = 1 THEN siblings[below] ELSE current[below]
                 right == IF bits[below] = 1 THEN current[below] ELSE siblings[below]
             IN  Compress(left, right)
  IN  current[Depth] = top

-----------------------------------------------------------------------------
TreesInit ==
  /\ leafCount = 0 /\ count = 0
  /\ storage = [i \in 0..2 * Capacity - 2 |-> Empty]
  /\ nodes = [key \in {} |-> Empty]
  /\ currentRoot = zeroes[Depth] /\ root = zeroes[Depth]
  /\ acceptedRoots = {zeroes[Depth]}

TreesNext == AppendOnChain \/ AppendInProver

TreesSpec == TreesInit /\ [][TreesNext]_treeVars

-----------------------------------------------------------------------------
(* Reference: the complete tree over the first k commitments. *)

Leaves(k) ==
  [position \in 0..Capacity - 1 |-> IF position < k THEN Commitment(position) ELSE Empty]

RootOf(k) == CompleteTree(Leaves(k), Depth)[Depth][0]

\* What _append computes from the nodes it stored is the root of the whole
\* padded tree, in the contract and in the prover, also where an append closes
\* a subtree; and the accepted roots are those of all prefixes, no two alike.
RootsAreOfCompleteTrees ==
  /\ currentRoot = RootOf(leafCount)
  /\ root = RootOf(count)
  /\ acceptedRoots = {RootOf(k) : k \in 0..leafCount}
  /\ Cardinality(acceptedRoots) = leafCount + 1

\* A prover that is not ahead of the contract can prove every commitment it
\* knows, and nothing else at that position: each of its paths opens a root the
\* contract accepts to the commitment there, for tree.go and for the circuit.
PathsOpenAcceptedRoots ==
  count <= leafCount =>
    \A index \in 0..count - 1, k \in 0..Capacity - 1 :
      LET member == /\ root \in acceptedRoots
                    /\ Verify(root, Commitment(k), index, Path(index))
      IN  /\ member <=> k = index
          /\ member <=> AssertMembership(root, Commitment(k), index, Path(index))
=============================================================================
