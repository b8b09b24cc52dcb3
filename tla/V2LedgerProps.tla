---------------------------- MODULE V2LedgerProps ----------------------------
(***************************************************************************)
(* What the main ledger promises: its properties, over the whole recorded  *)
(* history.                                                                *)
(***************************************************************************)
EXTENDS V2Ledger

RecordIds == 1..(nextAuditRecordId - 1)

\* The typed parents of a record.
ParentRefs(aid) ==
  {Ref(ParentType(auditRecords[aid].eventKind), auditRecords[aid].parents[i]) :
     i \in DOMAIN auditRecords[aid].parents}

OutputRefs(aid) == Range(auditRecords[aid].outputRefs)

SpendValue(ref) ==
  IF ref.objectType = NOTE THEN Nullifier(ref.rawId) ELSE VoucherNullifier(ref.rawId)

SpentIn(ref) ==
  IF ref.objectType = NOTE THEN At(noteSpentIn, SpendValue(ref))
                           ELSE At(voucherSpentIn, SpendValue(ref))

StatusOf(ref) ==
  IF ref.objectType = NOTE THEN At(noteStatusByNf, SpendValue(ref))
                           ELSE At(voucherStatusByNf, SpendValue(ref))

Objects == {Ref(NOTE, n) : n \in commitments}
             \cup {Ref(VOUCHER, v) : v \in voucherCommitments}

Live == {ref \in Objects : SpentIn(ref) = 0}

NoteNfs    == {Nullifier(n) : n \in Notes}
VoucherNfs == {VoucherNullifier(v) : v \in Vouchers}
Statuses   == {ACTIVE, FROZEN, REVOKED}
Refs       == {Ref(NOTE, n) : n \in Notes} \cup {Ref(VOUCHER, v) : v \in Vouchers}
                \cup {Ref(CLAIM, h) : h \in Claims}

\* Every mapping of the ledger holds values of its declared type.
MappingsTypeOK ==
  /\ blockNumber \in Nat
  /\ entryIssuers \subseteq Issuers
  /\ commitments \subseteq Notes
  /\ voucherCommitments \subseteq Vouchers
  /\ nextAuditRecordId \in Nat \ {0}
  /\ IsMapping(producerOf, Refs, Nat \ {0})
  /\ IsMapping(noteSpentIn, NoteNfs, Nat \ {0})
  /\ IsMapping(voucherSpentIn, VoucherNfs, Nat \ {0})
  /\ IsMapping(noteStatusByNf, NoteNfs, Statuses)
  /\ IsMapping(voucherStatusByNf, VoucherNfs, Statuses)
  /\ claimRegistered \subseteq Claims
  /\ DOMAIN auditRecords = RecordIds

\* A frozen or revoked spend value is unspent, whichever came first: _active
\* refuses the spend and setStatus refuses the freeze.  Frozen objects stay
\* where they are, also when their value was frozen before they existed.
BlockedIsUnspent ==
  /\ \A s \in DOMAIN noteStatusByNf :
       noteStatusByNf[s] # ACTIVE => At(noteSpentIn, s) = 0
  /\ \A s \in DOMAIN voucherStatusByNf :
       voucherStatusByNf[s] # ACTIVE => At(voucherSpentIn, s) = 0

\* No double spend: an object is a parent of at most one record, the record its
\* spend value names, and spend values name no other records.
ConsumedOnce ==
  /\ \A aid \in RecordIds : \A ref \in ParentRefs(aid) : SpentIn(ref) = aid
  /\ \A s \in DOMAIN noteSpentIn : \E aid \in RecordIds :
       /\ noteSpentIn[s] = aid
       /\ \E ref \in ParentRefs(aid) : ref.objectType = NOTE /\ SpendValue(ref) = s
  /\ \A s \in DOMAIN voucherSpentIn : \E aid \in RecordIds :
       /\ voucherSpentIn[s] = aid
       /\ \E ref \in ParentRefs(aid) : ref.objectType = VOUCHER /\ SpendValue(ref) = s

\* An object has one producer: producerOf names the only record with the object
\* among its outputs, and the recorded commitments are the produced objects.
ProducedOnce ==
  /\ \A aid \in RecordIds : \A ref \in OutputRefs(aid) : At(producerOf, ref) = aid
  /\ DOMAIN producerOf = UNION {OutputRefs(aid) : aid \in RecordIds}
  /\ Objects = {ref \in DOMAIN producerOf : ref.objectType # CLAIM}

\* The lineage graph is acyclic: a record consumes only what earlier records
\* produced, which is what backward and forward tracing check at every edge.
Acyclic ==
  \A aid \in RecordIds : \A ref \in ParentRefs(aid) :
    ref \in DOMAIN producerOf /\ producerOf[ref] < aid

\* The recorded history is sound: every object was made once and consumed at
\* most once, by a record after the one that made it.
LineageSound == ConsumedOnce /\ ProducedOnce /\ Acyclic

\* The trees hold every commitment exactly once, and a root, once accepted,
\* stays accepted: a proof against it can never lose its membership.
TreesHoldCommitments ==
  /\ Range(noteTree.leaves) = commitments
  /\ Range(voucherTree.leaves) = voucherCommitments
  /\ \A tree \in {noteTree, voucherTree} :
       /\ \A i, j \in DOMAIN tree.leaves : tree.leaves[i] = tree.leaves[j] => i = j
       /\ tree.acceptedRoots = 0..Len(tree.leaves)

\* What the auditor decrypts is usable: the future spend value at a position is
\* the spend value of the output at that position, and only claims have none.
FutureNfsOpenOutputs ==
  \A aid \in RecordIds :
    LET r == auditRecords[aid]
        spendable == {i \in DOMAIN r.outputRefs : r.outputRefs[i].objectType # CLAIM}
    IN  /\ DOMAIN r.futureNfs = spendable
        /\ \A i \in spendable : r.futureNfs[i] = SpendValue(r.outputRefs[i])

\* A live, unblocked voucher is never stranded: whatever the block number, its
\* receiver can still proceed as long as a fresh opening and room are left.
NoStrandedVoucher ==
  \A v \in voucherCommitments :
    /\ Active(VOUCHER, VoucherNullifier(v))
    /\ ResolveOutputs(v, v.receiver) \ commitments # {}
    /\ Len(noteTree.leaves) < TreeCapacity
    /\ nextAuditRecordId <= MaxRecords
    => /\ Proceeds(v)
       /\ \E m \in ResolveOutputs(v, v.receiver) : Recordable(<<Ref(NOTE, m)>>)

\* Verify of internal/v2dpp at the latest block, for a product whose disclosed
\* fields recompute the handle h.
DPPVerifies(h) ==
  LET aid == At(producerOf, Ref(CLAIM, h)) IN
    /\ h \in claimRegistered
    /\ aid # 0
    /\ aid \in RecordIds
    /\ auditRecords[aid].eventKind = ISSUE
    /\ auditRecords[aid].policyRef = h.policy
    /\ auditRecords[aid].outputRefs = <<Ref(CLAIM, h)>>
    /\ h.policy \in DOMAIN policyRecords
    /\ policyRecords[h.policy].eventKind = ISSUE
    /\ policyRecords[h.policy].inputArity = 1
    /\ policyRecords[h.policy].outputArity = 1

\* A product passport, once issued, verifies ever after, whatever its authority
\* registers or disables later; and it names a lot that met the published
\* thresholds: the record of the claim consumed a note of the claim's document
\* that meets the thresholds of the claim's policy version.
ClaimsAreBacked ==
  \A h \in claimRegistered \cup {ref.rawId : ref \in {r \in DOMAIN producerOf :
                                                        r.objectType = CLAIM}} :
    /\ DPPVerifies(h)
    /\ \E n \in commitments :
         /\ auditRecords[producerOf[Ref(CLAIM, h)]].parents = <<n>>
         /\ n.doc = h.doc
         /\ MeetsThresholds(n.state, h.policy.version)

\* Waste leaves the chain: no event but Exit ever consumes a waste note, so no
\* waste mass flows back into a product or a claim.
WasteOnlyExits ==
  \A aid \in RecordIds : \A ref \in ParentRefs(aid) :
    ref.rawId.role = WASTE => auditRecords[aid].eventKind = EXIT

\* The sum of a quantity over objects.
Total(field, refs) == SumFunction([ref \in refs |-> ref.rawId.state[field]])

EventsOf(kind) == {aid \in RecordIds : auditRecords[aid].eventKind = kind}

\* What Entry brought in, what Exit and Issue took out, and the mass the Process
\* policy takes off.
Entered == UNION {OutputRefs(aid) : aid \in EventsOf(ENTRY)}
Gone    == UNION {ParentRefs(aid) : aid \in EventsOf(EXIT) \cup EventsOf(ISSUE)}
Losses(parents) == MulDiv(Total("q", parents), Rates.loss, Rates.denominator)
Lost    == SumFunction([aid \in EventsOf(PROCESS) |-> Losses(ParentRefs(aid))])

\* Nothing is created or lost on the way: what was entered is still live, or has
\* left by Exit or Issue, or was lost at the rates of the Process policy.
\* Recycled mass is exact, emissions are only ever added.
MassConserved ==
  /\ Total("q", Live) + Total("q", Gone) + Lost = Total("q", Entered)
  /\ Total("a", Live) + Total("a", Gone) = Total("a", Entered)
  /\ Total("e", Live) + Total("e", Gone) >= Total("e", Entered)

\* History only grows: records, producers and spends are never overwritten.
HistoryAppendOnly ==
  [][/\ \A aid \in DOMAIN auditRecords : auditRecords'[aid] = auditRecords[aid]
     /\ \A ref \in DOMAIN producerOf : producerOf'[ref] = producerOf[ref]
     /\ \A s \in DOMAIN noteSpentIn : noteSpentIn'[s] = noteSpentIn[s]
     /\ \A s \in DOMAIN voucherSpentIn : voucherSpentIn'[s] = voucherSpentIn[s]
     /\ \A tree \in {<<noteTree, noteTree'>>, <<voucherTree, voucherTree'>>} :
          tree[1].acceptedRoots \subseteq tree[2].acceptedRoots]_vars
=============================================================================
