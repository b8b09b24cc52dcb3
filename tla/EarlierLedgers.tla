--------------------------- MODULE EarlierLedgers ---------------------------
(***************************************************************************)
(* The ledgers before the current one, and the one it is compared with.    *)
(* One of them is deployed; the others stay as they were constructed.      *)
(* The last three are instances of their modules with state of their own;  *)
(* names that only one of them declares stand for themselves.              *)
(***************************************************************************)
EXTENDS EpochLedger

CONSTANTS
  LotOpenings, ProcessInputs,                              \* status and claim
  Scopes, StatusEntryNotes, MaxLeaves, MaxStatusTransactions, MaxUpdates,
  Grades, Accepted, ClaimEntryNotes, Watched, MaxRecords, MaxStatusChanges,
  Administrator, SahaiDocuments

VARIABLES
  deployed,
  statusEpoch, noteTree, voucherTree, noteStatusRoot, voucherStatusRoot,
  statusNoteNfs, statusVoucherNfs, granted, statusTransactions, updates,
  enabled, records, producerOf, spentIn, statusByNf, claimRecordOf, claimStatus,
  changes,
  participants, documents, transitions

statusVars == <<statusEpoch, noteTree, voucherTree, noteStatusRoot,
                voucherStatusRoot, statusNoteNfs, statusVoucherNfs, granted,
                statusTransactions, updates>>
claimVars  == <<enabled, records, producerOf, spentIn, statusByNf, claimRecordOf,
                claimStatus, changes>>
sahaiVars  == <<participants, documents, transitions>>
vars       == <<deployed, epochVars, statusVars, claimVars, sahaiVars>>

Status == INSTANCE StatusLedger WITH
  Openings          <- LotOpenings,
  EntryNotes        <- StatusEntryNotes,
  MaxTransactions   <- MaxStatusTransactions,
  epoch             <- statusEpoch,
  noteNullifiers    <- statusNoteNfs,
  voucherNullifiers <- statusVoucherNfs,
  transactions      <- statusTransactions

Claim == INSTANCE ClaimLedger WITH
  Openings   <- LotOpenings,
  EntryNotes <- ClaimEntryNotes

Sahai == INSTANCE SahaiLedger WITH
  Documents <- SahaiDocuments

-----------------------------------------------------------------------------
Init ==
  /\ deployed \in {"epoch", "status", "claim", "sahai"}
  /\ EpochInit /\ Status!StatusInit /\ Claim!ClaimInit /\ Sahai!SahaiInit

Next ==
  /\ UNCHANGED deployed
  /\ \/ /\ deployed = "epoch"
        /\ EpochNext
        /\ UNCHANGED <<statusVars, claimVars, sahaiVars>>
     \/ /\ deployed = "status"
        /\ Status!StatusNext
        /\ UNCHANGED <<epochVars, claimVars, sahaiVars>>
     \/ /\ deployed = "claim"
        /\ Claim!ClaimNext
        /\ UNCHANGED <<epochVars, statusVars, sahaiVars>>
     \/ /\ deployed = "sahai"
        /\ Sahai!SahaiNext
        /\ UNCHANGED <<epochVars, statusVars, claimVars>>

Spec == Init /\ [][Next]_vars

-----------------------------------------------------------------------------
\* The status ledger implements AssetFlow with blocked objects (StatusLedger).
StatusImplementsFlow == Status!StatusImplementsFlow

\* Recalls are in time although the ledger sees no deadline (StatusLedger).
RecallsAreInTime == Status!RecallsAreInTime

\* The claim ledger implements AssetFlow, issue is invisible (ClaimLedger).
ClaimImplementsFlow == Claim!ClaimImplementsFlow

\* Every claim stands on its one issue record and an exit (ClaimLedger).
ClaimsStand == Claim!ClaimsStand

\* The comparison ledger implements AssetFlow (SahaiLedger).
SahaiImplementsFlow == Sahai!SahaiImplementsFlow

\* The provenance the documents name is the history (SahaiLedger).
InDocsAreHistory == Sahai!InDocsAreHistory

\* Salted documents can be entered whatever their attributes (SahaiLedger).
SaltsMakeDocumentsDistinct ==
  deployed = "sahai" => Sahai!SaltsMakeDocumentsDistinct
=============================================================================
