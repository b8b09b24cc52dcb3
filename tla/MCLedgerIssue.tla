---------------------------- MODULE MCLedgerIssue ----------------------------
(***************************************************************************)
(* One user enters and splits lots and issues claims, while its authority  *)
(* reserves, registers and disables two versions of the issue policy, also *)
(* with the verifier of the other one.  One lot meets the thresholds of    *)
(* the first version only, the other those of the second.                  *)
(***************************************************************************)
EXTENDS V2LedgerFlow, TLC

CONSTANTS u1, d1, o1, o2, i1, a1, n1

MCEntryStates == {[q |-> 2, a |-> 1, e |-> 2], [q |-> 2, a |-> 0, e |-> 1]}
MCRates == [denominator |-> 2, loss |-> 0, carbon |-> 0, waste |-> 0]
MCIssueConfigs == 1 :> [minRecycled |-> 1, maxCarbon |-> 2] @@
                  2 :> [minRecycled |-> 0, maxCarbon |-> 1]
MCVerifiers == {IssueRef(1), IssueRef(2)}

\* The issuer is not dropped once it made an entry (MCLedgerTrade does that), and
\* only versions of the issue policy are registered (MCComponents registers others).
IssuerStays == entryIssuers # {} \/ nextAuditRecordId = 1
IssueOnly   == DOMAIN policyRecords \subseteq {IssueRef(1), IssueRef(2)}

OpeningSymmetry == Permutations({o1, o2})
=============================================================================
