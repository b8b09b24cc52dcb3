--------------------------- MODULE MCLedgerProcess ---------------------------
(***************************************************************************)
(* One user, one policy authority: lots are entered, processed under the   *)
(* granted policy, and what comes out is transferred, merged, split and    *)
(* exited while the authority registers, grants and disables the policy.   *)
(***************************************************************************)
EXTENDS V2LedgerFlow, TLC

CONSTANTS u1, d1, o1, o2, o3, i1, a1, n1

MCEntryStates == {[q |-> 1, a |-> 0, e |-> 0]}
MCRates == [denominator |-> 2, loss |-> 1, carbon |-> 1, waste |-> 1]
MCIssueConfigs == [version \in {1} |-> [minRecycled |-> 0, maxCarbon |-> 1]]
MCScopes == {ScopeRef(u, CanonicalRef) : u \in Users}
MCVerifiers == {CanonicalRef}

\* The issuer is not dropped once it made an entry (MCLedgerTrade does that).
IssuerStays == entryIssuers # {} \/ nextAuditRecordId = 1

OpeningSymmetry == Permutations({o1, o2, o3})
=============================================================================
