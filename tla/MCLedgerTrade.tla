---------------------------- MODULE MCLedgerTrade ----------------------------
(***************************************************************************)
(* Two users trade lots: entry, transfer, proceed, recall, merge, split,   *)
(* exit and the status authority, no policies.                             *)
(***************************************************************************)
EXTENDS V2LedgerFlow, TLC

CONSTANTS u1, u2, d1, o1, o2, i1

MCEntryStates == {[q |-> 1, a |-> 1, e |-> 1]}
MCRates == [denominator |-> 2, loss |-> 0, carbon |-> 0, waste |-> 0]
MCIssueConfigs == [version \in {} |-> 0]

MCForeknown == {n \in Notes : n.state \in MCEntryStates}

OpeningSymmetry == Permutations({o1, o2})
UserSymmetry == Permutations({u1, u2})
MCSymmetry == OpeningSymmetry \cup UserSymmetry
=============================================================================
