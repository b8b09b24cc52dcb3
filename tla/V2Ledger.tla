------------------------------ MODULE V2Ledger ------------------------------
(***************************************************************************)
(* contracts/src/ZkDPPV2Ledger.sol: the main ledger with its nine events,  *)
(* the status of spend values and the Policy registry.                     *)
(*                                                                         *)
(* A transaction is one step; one that reverts is no step.  A proof is     *)
(* bound to its public inputs alone, so a proof made earlier against an    *)
(* older root is the same step as one made now: the root is any accepted   *)
(* one.  The audit ciphertext is kept as its plaintext, which AssertAudit  *)
(* ties to the witness; only the auditor's key reads it.                   *)
(***************************************************************************)
EXTENDS Assets, Sequences, FiniteSetsExt

CONSTANTS
  Issuers,        \* accounts the admin may allow as entry issuers
  TreeCapacity,   \* 2^TREE_DEPTH leaves
  EntryStates,    \* bound on the states entered in an instance
  ForeknownNotes, \* notes whose nullifier the status authority can know early
  MaxWatched,     \* bound on the spend values given a status in an instance
  MaxRecords,     \* bound on the audit records of an instance
  MaxBlock        \* bound on the block number of an instance

ASSUME LedgerAssumption ==
  /\ TreeCapacity \in Nat
  /\ ForeknownNotes \subseteq Notes
  /\ MaxWatched \in Nat
  /\ MaxRecords \in Nat
  /\ MaxBlock \in Nat

VARIABLES
  blockNumber,
  entryIssuers,         \* the allowed issuers
  noteTree,             \* [leaves, acceptedRoots]
  voucherTree,
  commitments,          \* note commitments ever recorded
  voucherCommitments,
  producerOf,           \* object ref -> audit record id
  noteSpentIn,          \* nullifier -> audit record id
  voucherSpentIn,
  noteStatusByNf,       \* nullifier -> status
  voucherStatusByNf,
  claimRegistered,      \* registered claim handles
  nextAuditRecordId,
  auditRecords          \* audit record id -> record

ledgerVars == <<blockNumber, entryIssuers, noteTree, voucherTree, commitments,
                voucherCommitments, producerOf, noteSpentIn, voucherSpentIn,
                noteStatusByNf, voucherStatusByNf, claimRegistered,
                nextAuditRecordId, auditRecords>>

vars == <<ledgerVars, registryVars>>

NOTE    == 1
VOUCHER == 2
CLAIM   == 3

ACTIVE  == 0
FROZEN  == 1
REVOKED == 2

ENTRY    == 0
TRANSFER == 1
PROCEED  == 2
RECALL   == 3
MERGE    == 4
SPLIT    == 5
EXIT     == 7

Ref(type, id) == [objectType |-> type, rawId |-> id]

\* A root commits to the sequence of leaves under it and is named by their
\* number; initially the root of the empty tree is accepted.
EmptyTree == [leaves |-> <<>>, acceptedRoots |-> {0}]

\* AssertMembership of every id under one root, which the contract accepts; it
\* need not be the current one.
ProvenUnder(tree, ids) ==
  \E root \in tree.acceptedRoots : ids \subseteq {tree.leaves[i] : i \in 1..root}

\* Mutant: only the current root is accepted.
AppendAllCurrentRoot(tree, ids) ==
  LET leaves == tree.leaves \o ids
  IN  [leaves |-> leaves, acceptedRoots |-> {Len(leaves)}]

\* _append of each id in turn: every intermediate root is accepted too.
AppendAll(tree, ids) ==
  LET leaves == tree.leaves \o ids
  IN  [leaves |-> leaves,
       acceptedRoots |-> tree.acceptedRoots \cup
                         (Len(tree.leaves) + 1 .. Len(leaves))]

Init ==
  /\ RegistryInit
  /\ blockNumber = 0
  /\ entryIssuers = {}
  /\ noteTree = EmptyTree
  /\ voucherTree = EmptyTree
  /\ commitments = {}
  /\ voucherCommitments = {}
  /\ producerOf = EmptyMapping
  /\ noteSpentIn = EmptyMapping
  /\ voucherSpentIn = EmptyMapping
  /\ noteStatusByNf = EmptyMapping
  /\ voucherStatusByNf = EmptyMapping
  /\ claimRegistered = {}
  /\ nextAuditRecordId = 1
  /\ auditRecords = EmptyMapping

-----------------------------------------------------------------------------
Unspent(type, s) ==
  IF type = NOTE THEN At(noteSpentIn, s) = 0 ELSE At(voucherSpentIn, s) = 0

Unblocked(type, s) ==
  IF type = NOTE THEN At(noteStatusByNf, s) = ACTIVE
                 ELSE At(voucherStatusByNf, s) = ACTIVE

\* _active: the spend value is unspent and neither frozen nor revoked.
Active(type, s) == Unspent(type, s) /\ Unblocked(type, s)

\* Ids of the outputs of a type, in order.
IdsOf(type, outputs) ==
  LET positions == {i \in DOMAIN outputs : outputs[i].objectType = type}
      rank(i)   == Cardinality({j \in positions : j <= i})
  IN  [k \in 1..Cardinality(positions) |->
         outputs[CHOOSE i \in positions : rank(i) = k].rawId]

\* The same as a set.
IdSet(type, outputs) ==
  {ref.rawId : ref \in {r \in Range(outputs) : r.objectType = type}}

\* No two outputs are the same object.
Distinct(outputs) ==
  \A i, j \in DOMAIN outputs : i # j => outputs[i] # outputs[j]

\* _fresh: the outputs are distinct and none exists already.
Fresh(outputs) ==
  /\ Distinct(outputs)
  /\ \A i \in DOMAIN outputs :
       CASE outputs[i].objectType = NOTE    -> outputs[i].rawId \notin commitments
         [] outputs[i].objectType = VOUCHER -> outputs[i].rawId \notin voucherCommitments
         [] outputs[i].objectType = CLAIM   -> outputs[i].rawId \notin claimRegistered

\* Type of the parents of an event kind (Shape of internal/v2audit).
ParentType(kind) == IF kind \in {PROCEED, RECALL} THEN VOUCHER ELSE NOTE

\* What _recordPolicy checks: new outputs and room for them and their record.
Recordable(outputs) ==
  /\ nextAuditRecordId <= MaxRecords
  /\ Fresh(outputs)
  /\ Len(noteTree.leaves) + Len(IdsOf(NOTE, outputs)) <= TreeCapacity
  /\ Len(voucherTree.leaves) + Len(IdsOf(VOUCHER, outputs)) <= TreeCapacity

\* The tail of every event, _recordPolicy: check the outputs, take the next
\* record id, mark the spend values spent in it, store the record and append
\* the outputs to their trees.
RecordPolicy(kind, spends, parents, outputs, futureNfs, policyRef) ==
  LET aid        == nextAuditRecordId
      noteIds    == IdsOf(NOTE, outputs)
      voucherIds == IdsOf(VOUCHER, outputs)
      record     == [eventKind |-> kind, policyRef |-> policyRef,
                     outputRefs |-> outputs, parents |-> parents,
                     futureNfs |-> futureNfs]
  IN  /\ Recordable(outputs)
      /\ nextAuditRecordId' = aid + 1
      /\ IF ParentType(kind) = VOUCHER
         THEN /\ voucherSpentIn' = Put(voucherSpentIn, spends, aid)
              /\ UNCHANGED noteSpentIn
         ELSE /\ noteSpentIn' = Put(noteSpentIn, spends, aid)
              /\ UNCHANGED voucherSpentIn
      /\ auditRecords' = Put(auditRecords, {aid}, record)
      /\ producerOf' = Put(producerOf, Range(outputs), aid)
      /\ commitments' = commitments \cup IdSet(NOTE, outputs)
      /\ voucherCommitments' = voucherCommitments \cup IdSet(VOUCHER, outputs)
      /\ noteTree' = AppendAll(noteTree, noteIds)
      /\ voucherTree' = AppendAll(voucherTree, voucherIds)

\* The zero policyRef of the events that use no policy.
NoPolicy == PolicyRef(0, 0, 0, 0)

\* Events under a fixed verifier: no policy, and the registry of claims is
\* left alone.
RecordFixed(kind, spends, parents, outputs, futureNfs) ==
  /\ RecordPolicy(kind, spends, parents, outputs, futureNfs, NoPolicy)
  /\ UNCHANGED <<blockNumber, entryIssuers, noteStatusByNf, voucherStatusByNf,
                 claimRegistered, registryVars>>

-----------------------------------------------------------------------------
NextBlock ==
  /\ blockNumber < MaxBlock
  /\ blockNumber' = blockNumber + 1
  /\ UNCHANGED <<entryIssuers, noteTree, voucherTree, commitments,
                 voucherCommitments, producerOf, noteSpentIn, voucherSpentIn,
                 noteStatusByNf, voucherStatusByNf, claimRegistered,
                 nextAuditRecordId, auditRecords, registryVars>>

SetEntryIssuer(account, allowed) ==
  /\ entryIssuers' = IF allowed THEN entryIssuers \cup {account}
                                ELSE entryIssuers \ {account}
  /\ UNCHANGED <<blockNumber, noteTree, voucherTree, commitments,
                 voucherCommitments, producerOf, noteSpentIn, voucherSpentIn,
                 noteStatusByNf, voucherStatusByNf, claimRegistered,
                 nextAuditRecordId, auditRecords, registryVars>>

Entry(sender, n) ==
  /\ sender \in entryIssuers
  /\ n \in EntryNotes
  /\ RecordFixed(ENTRY, {}, <<>>, <<Ref(NOTE, n)>>, <<Nullifier(n)>>)

Transfer(n) ==
  /\ ProvenUnder(noteTree, {n})
  /\ Active(NOTE, Nullifier(n))
  /\ \E o \in TransferOutputs(n) :
       /\ blockNumber < o.voucher.deadline
       /\ RecordFixed(TRANSFER, {Nullifier(n)}, <<n>>,
                      <<Ref(VOUCHER, o.voucher), Ref(NOTE, o.change)>>,
                      <<VoucherNullifier(o.voucher), Nullifier(o.change)>>)

\* Mutant: the receiver may proceed until the deadline only.
ProceedsInTime(v) ==
  /\ ProvenUnder(voucherTree, {v})
  /\ Active(VOUCHER, VoucherNullifier(v))
  /\ blockNumber <= v.deadline

\* The receiver may proceed at any block.
Proceeds(v) ==
  /\ ProvenUnder(voucherTree, {v})
  /\ Active(VOUCHER, VoucherNullifier(v))

Proceed(v) ==
  /\ Proceeds(v)
  /\ \E m \in ResolveOutputs(v, v.receiver) :
       RecordFixed(PROCEED, {VoucherNullifier(v)}, <<v>>, <<Ref(NOTE, m)>>,
                   <<Nullifier(m)>>)

Recall(v) ==
  /\ ProvenUnder(voucherTree, {v})
  /\ Active(VOUCHER, VoucherNullifier(v))
  /\ blockNumber <= v.deadline
  /\ \E m \in ResolveOutputs(v, v.sender) :
       RecordFixed(RECALL, {VoucherNullifier(v)}, <<v>>, <<Ref(NOTE, m)>>,
                   <<Nullifier(m)>>)

Merge(n1, n2) ==
  /\ ProvenUnder(noteTree, {n1, n2})
  /\ Nullifier(n1) # Nullifier(n2)
  /\ Active(NOTE, Nullifier(n1)) /\ Active(NOTE, Nullifier(n2))
  /\ \E m \in MergeOutputs(n1, n2) :
       RecordFixed(MERGE, {Nullifier(n1), Nullifier(n2)}, <<n1, n2>>,
                   <<Ref(NOTE, m)>>, <<Nullifier(m)>>)

\* Mutant: the future nullifiers of a split are recorded in the other order.
SplitSwapped(n) ==
  /\ ProvenUnder(noteTree, {n})
  /\ Active(NOTE, Nullifier(n))
  /\ \E o \in SplitOutputs(n) :
       RecordFixed(SPLIT, {Nullifier(n)}, <<n>>,
                   <<Ref(NOTE, o[1]), Ref(NOTE, o[2])>>,
                   <<Nullifier(o[2]), Nullifier(o[1])>>)

Split(n) ==
  /\ ProvenUnder(noteTree, {n})
  /\ Active(NOTE, Nullifier(n))
  /\ \E o \in SplitOutputs(n) :
       RecordFixed(SPLIT, {Nullifier(n)}, <<n>>,
                   <<Ref(NOTE, o[1]), Ref(NOTE, o[2])>>,
                   <<Nullifier(o[1]), Nullifier(o[2])>>)

\* The verifier accepts a proof under ref only if its circuit was compiled for
\* ref, and the only Process circuit is the canonical one.
Process(n1, n2, n3) ==
  LET ref  == CanonicalRef
      ins  == {n1, n2, n3}
      nfs  == {Nullifier(n) : n \in ins}
  IN  /\ UsablePolicy(ref, PROCESS, 3, 2)
      /\ Granted(ref, ScopeRef(n1.owner, ref))
      /\ policyRecords[ref].verifierRef = ref
      /\ ProvenUnder(noteTree, ins)
      /\ \A n \in ins : Active(NOTE, Nullifier(n))
      /\ Cardinality(nfs) = 3
      /\ \E o \in ProcessOutputs(n1, n2, n3) :
           RecordPolicy(PROCESS, nfs, <<n1, n2, n3>>,
                        <<Ref(NOTE, o[1]), Ref(NOTE, o[2])>>,
                        <<Nullifier(o[1]), Nullifier(o[2])>>, ref)
      /\ UNCHANGED <<blockNumber, entryIssuers, noteStatusByNf, voucherStatusByNf,
                     claimRegistered, registryVars>>

\* Any note can leave, waste included.
Exit(n) ==
  /\ ProvenUnder(noteTree, {n})
  /\ Active(NOTE, Nullifier(n))
  /\ RecordFixed(EXIT, {Nullifier(n)}, <<n>>, <<>>, <<>>)

Issue(n, version) ==
  LET ref == IssueRef(version)
  IN  /\ UsablePolicy(ref, ISSUE, 1, 1)
      /\ policyRecords[ref].verifierRef = ref
      /\ ProvenUnder(noteTree, {n})
      /\ Active(NOTE, Nullifier(n))
      /\ \E h \in IssueClaims(n, version) :
           /\ h \notin claimRegistered
           /\ RecordPolicy(ISSUE, {Nullifier(n)}, <<n>>, <<Ref(CLAIM, h)>>, <<>>, ref)
           /\ claimRegistered' = claimRegistered \cup {h}
      /\ UNCHANGED <<blockNumber, entryIssuers, noteStatusByNf, voucherStatusByNf,
                     registryVars>>

\* Mutant: a revoked spend value can be released.
StatusStepReversible(old, new) ==
  \/ old = ACTIVE /\ new = FROZEN
  \/ old # ACTIVE /\ new \in {ACTIVE, REVOKED} \ {old}

StatusStep(old, new) ==
  \/ old = ACTIVE /\ new = FROZEN
  \/ old = FROZEN /\ new \in {ACTIVE, REVOKED}

\* Called by the status authority, for a spend value of either type.
SetStatus(type, s, new) ==
  /\ \/ s \in DOMAIN noteStatusByNf \cup DOMAIN voucherStatusByNf
     \/ Cardinality(DOMAIN noteStatusByNf) + Cardinality(DOMAIN voucherStatusByNf)
          < MaxWatched
  /\ \/ /\ type = NOTE
        /\ At(noteSpentIn, s) = 0
        /\ StatusStep(At(noteStatusByNf, s), new)
        /\ noteStatusByNf' = Put(noteStatusByNf, {s}, new)
        /\ UNCHANGED voucherStatusByNf
     \/ /\ type = VOUCHER
        /\ At(voucherSpentIn, s) = 0
        /\ StatusStep(At(voucherStatusByNf, s), new)
        /\ voucherStatusByNf' = Put(voucherStatusByNf, {s}, new)
        /\ UNCHANGED noteStatusByNf
  /\ UNCHANGED <<blockNumber, entryIssuers, noteTree, voucherTree, commitments,
                 voucherCommitments, producerOf, noteSpentIn, voucherSpentIn,
                 claimRegistered, nextAuditRecordId, auditRecords, registryVars>>

PolicyAdministration == RegistryNext /\ UNCHANGED ledgerVars

Next ==
  \/ NextBlock
  \/ \E account \in Issuers, allowed \in BOOLEAN : SetEntryIssuer(account, allowed)
  \/ \E sender \in Issuers, n \in {m \in EntryNotes : m.state \in EntryStates} :
       Entry(sender, n)
  \/ \E n \in commitments :
       \/ Transfer(n)
       \/ Split(n)
       \/ Exit(n)
       \/ \E version \in DOMAIN IssueConfigs : Issue(n, version)
  \/ \E n1, n2 \in commitments : Merge(n1, n2)
  \/ \E n1, n2, n3 \in commitments : Process(n1, n2, n3)
  \/ \E v \in voucherCommitments : Proceed(v) \/ Recall(v)
  \/ \E n \in commitments \cup ForeknownNotes, new \in {ACTIVE, FROZEN, REVOKED} :
       SetStatus(NOTE, Nullifier(n), new)
  \/ \E v \in voucherCommitments, new \in {ACTIVE, FROZEN, REVOKED} :
       SetStatus(VOUCHER, VoucherNullifier(v), new)
  \/ PolicyAdministration

Spec == Init /\ [][Next]_vars
=============================================================================
