---------------------------- MODULE V2LedgerFlow ----------------------------
(***************************************************************************)
(* The main ledger implements AssetFlow: its audit records are the history *)
(* of events, and an object is blocked when the status of its spend value  *)
(* is not ACTIVE.                                                          *)
(***************************************************************************)
EXTENDS V2LedgerProps

\* The objects whose spend value has one of these statuses.
WithStatus(statuses) ==
  {Ref(NOTE, s.cm) : s \in {t \in DOMAIN noteStatusByNf :
                              noteStatusByNf[t] \in statuses}}
    \cup {Ref(VOUCHER, s.rv) : s \in {t \in DOMAIN voucherStatusByNf :
                                        voucherStatusByNf[t] \in statuses}}

Flow == INSTANCE AssetFlow WITH
  Objects   <- Refs,
  Spendable <- {ref \in Refs : ref.objectType # CLAIM},
  events    <- [aid \in RecordIds |-> [inputs |-> ParentRefs(aid),
                                       outputs |-> OutputRefs(aid)]],
  blocked   <- WithStatus({FROZEN, REVOKED}),
  revoked   <- WithStatus({REVOKED})

\* Every transaction of the contract is an event of AssetFlow, a change of what
\* is blocked, or invisible there: nullifier mappings, trees, proofs and record
\* ids together never let an object be consumed twice, while blocked, or before
\* it exists, and never let one be created twice.
ImplementsAssetFlow == Flow!Spec
=============================================================================
