----------------------------- MODULE StatusTree -----------------------------
(***************************************************************************)
(* internal/core/status/status.go: the sparse Merkle tree of statuses by   *)
(* leaf index, whose root is all the status ledger knows of them.  Only    *)
(* nodes that differ from the empty subtree are stored.                    *)
(***************************************************************************)
EXTENDS HashTree

CONSTANT StatusDepth   \* merkle.Depth

ASSUME StatusDepthAssumption == StatusDepth \in Nat \ {0}

VARIABLES
  statusNodes,   \* <<level, position>> -> hash, where the subtree is not empty
  statusRoot,
  statuses       \* what was applied so far: index -> status

statusVars == <<statusNodes, statusRoot, statuses>>

Indices == 0..Pow2[StatusDepth] - 1

\* The element of a status; a leaf is wrapped to compare it with hashes.
Status     == {"ACTIVE", "FROZEN", "REVOKED"}
Element(s) == IF s = "ACTIVE" THEN <<0>> ELSE IF s = "FROZEN" THEN <<1>> ELSE <<2>>

statusZeroes == EmptyHashes(Element("ACTIVE"), StatusDepth)

StatusNode(level, position) ==
  IF <<level, position>> \in DOMAIN statusNodes THEN statusNodes[<<level, position>>]
                                                ELSE statusZeroes[level]

StatusOf(index) == CHOOSE s \in Status : Element(s) = StatusNode(0, index)

StatusPath(index) ==
  [level \in 0..StatusDepth - 1 |-> StatusNode(level, Neighbour(Ancestor(index, level)))]

ComputeRoot(s, index, siblings) ==
  Hashes(Element(s), index, siblings, StatusDepth)[StatusDepth]

AllowedTransition ==
  {<<"ACTIVE", "FROZEN">>, <<"FROZEN", "ACTIVE">>, <<"FROZEN", "REVOKED">>}

-----------------------------------------------------------------------------
StatusTreeInit ==
  /\ statusNodes = [key \in {} |-> <<>>]
  /\ statusRoot = statusZeroes[StatusDepth]
  /\ statuses = [index \in Indices |-> "ACTIVE"]

\* Mutant: setNode returns early on an empty subtree and deletes nothing.
SetNodesKeeping(written) ==
  [key \in {k \in DOMAIN written : written[k] # statusZeroes[k[1]]} \cup DOMAIN statusNodes |->
     IF written[key] = statusZeroes[key[1]] THEN statusNodes[key] ELSE written[key]]

\* setNode, of every node on the path: one that equals an empty subtree is
\* deleted.
SetNodes(written) ==
  [key \in {k \in DOMAIN written : written[k] # statusZeroes[k[1]]} |-> written[key]]

ApplyStatus(index, old, new) ==
  LET current == Hashes(Element(new), index, StatusPath(index), StatusDepth)
  IN  /\ <<old, new>> \in AllowedTransition
      /\ StatusOf(index) = old
      /\ statusNodes' = SetNodes(Stored(statusNodes, index, current, StatusDepth))
      /\ statusRoot' = current[StatusDepth]
      /\ statuses' = [statuses EXCEPT ![index] = new]

StatusTreeNext == \E index \in Indices, old, new \in Status : ApplyStatus(index, old, new)

StatusTreeSpec == StatusTreeInit /\ [][StatusTreeNext]_statusVars

-----------------------------------------------------------------------------
\* Reference: the complete tree over all statuses, active ones included.
StatusLeaves == [index \in Indices |-> Element(statuses[index])]

\* The sparse tree is the complete one: it stores exactly the nodes that differ
\* from an empty subtree, so the history of updates leaves no trace in it, its
\* root is the complete tree's, and a path from it proves of an index the status
\* that was applied there last, and no other, also where nothing was stored.
SparseTreeIsComplete ==
  LET tree == CompleteTree(StatusLeaves, StatusDepth)
  IN  /\ \A level \in 0..StatusDepth : \A position \in 0..Pow2[StatusDepth - level] - 1 :
           /\ StatusNode(level, position) = tree[level][position]
           /\ <<level, position>> \in DOMAIN statusNodes
                <=> tree[level][position] # statusZeroes[level]
      /\ statusRoot = tree[StatusDepth][0]
      /\ \A index \in Indices, s \in Status :
           ComputeRoot(s, index, StatusPath(index)) = statusRoot <=> s = statuses[index]
=============================================================================
