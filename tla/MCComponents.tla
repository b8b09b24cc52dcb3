---------------------------- MODULE MCComponents ----------------------------
(***************************************************************************)
(* The parts the ledgers are built from, each alone: the policy registry   *)
(* (two authorities, one policy each, three versions, one scope), the two  *)
(* commitment trees, the status tree, the circuits (amounts up to 3, rates *)
(* at which every division of Process leaves a remainder for some input),  *)
(* and the audit key of two committees over the group of order 7, with the *)
(* same session name or with different ones.  They share no state, so a    *)
(* behaviour exercises one of them, the others stay as they were initially.*)
(***************************************************************************)
EXTENDS PolicyRegistry, KeyCommittee, Circuits, MerkleTree, StatusTree, TLC

CONSTANTS
  v1, a1, a2, c1, c2                                    \* model values

VARIABLE component                                      \* the one exercised

keyVars     == <<secret, package, shares, released, recovered>>
partVars    == <<registryVars, treeVars, statusVars, circuitVars, keyVars>>

MCRates == [denominator |-> 3, loss |-> 1, carbon |-> 2, waste |-> 1]
MCIssueConfigs == [version \in {} |-> 0]
MCProcessInputs == {s \in [q : 0..2, a : 0..2, e : 0..2] : s.a <= s.q}

NoRequest == Request("merge", [i \in 1..2 |-> [q |-> 0, a |-> 0, e |-> 0]], 0, 0)

CommitteeSymmetry == Permutations({c1, c2})

PartsInit ==
  /\ Init /\ RegistryInit /\ TreesInit /\ StatusTreeInit
  /\ \/ /\ component \in {"registry", "trees", "status", "keys"}
        /\ request = NoRequest /\ proof = <<>>
     \/ /\ component = "circuits"
        /\ CircuitsInit

PartsNext ==
  /\ UNCHANGED component
  /\ \/ /\ component = "registry"
        /\ RegistryNext
        /\ UNCHANGED <<treeVars, statusVars, circuitVars, keyVars>>
     \/ /\ component = "trees"
        /\ TreesNext
        /\ UNCHANGED <<registryVars, statusVars, circuitVars, keyVars>>
     \/ /\ component = "status"
        /\ StatusTreeNext
        /\ UNCHANGED <<registryVars, treeVars, circuitVars, keyVars>>
     \/ /\ component = "circuits"
        /\ CircuitsNext
        /\ UNCHANGED <<registryVars, treeVars, statusVars, keyVars>>
     \/ /\ component = "keys"
        /\ Next
        /\ UNCHANGED <<registryVars, treeVars, statusVars, circuitVars>>

PartsSpec == PartsInit /\ [][PartsNext]_<<component, partVars>>
=============================================================================
