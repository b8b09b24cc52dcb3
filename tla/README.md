# zkDPP in TLA+

TLA+ specifications, TLC configurations and TLAPS proofs for zkDPP, a ledger
of private material lots and product passports: a Solidity contract keeps
commitments and nullifiers, Groth16 circuits prove what an event does to the
hidden lots, an auditor who holds the audit key follows lots through the
history and freezes what became of them.

The repository holds several generations of the system. At the centre here is
the last one, under `src/zkDPP-poc-v2`: the contract
`contracts/src/ZkDPPV2Ledger.sol` (written V2 below), the circuits in
`features/v2events` and the packages in `internal/` that V2 is used with. The
ledgers before it, the one with private statuses and the one with claims in the
same directory and the epoch ledger of `src/poc-v2`, and the ledger of
`src/sahai-poc` it is compared with are modelled too, each at its own rules. One
short specification, `AssetFlow`, is what all five promise.

## 1. Inventory

### Components, their state and operations

| Component | Source | State | Operations |
| --- | --- | --- | --- |
| Policy registry | V2 lines 73-81 and 235-270 | authorities, reservations, counters, records, grants | registerPolicyAuthority, reservePolicy, reservePolicyVersion, registerPolicy, setPolicyGrant, disablePolicy |
| Main ledger | rest of V2 | two trees with their accepted roots, commitments, producers, spend values with their record and status, claims, audit records, entry issuers | setEntryIssuer, entry, transfer, proceed, recall, merge, split, process, exit, issue, setStatus |
| Event circuits | `features/v2events` and the base circuits of `features/entry`, `merge`, `split`, `proceed`, `process_policy_3_2`; `internal/circuitutil` | none | one statement per event |
| Asset arithmetic, objects | `internal/core/allocation`, `policy`, `issuepolicy`, `note`, `voucher`, `claim` | none | ByMass, Apply, Validate, commitments, nullifiers, handles |
| Passport verification | `internal/v2dpp/verify.go` | none | Verify |
| Forward audit and freeze | `internal/v2audit/freeze.go`, `rpc.go`, `model.go` | search queue, targets, observations, transactions, checkpoint | TraceForward, AuditAndFreeze over RPC |
| Backward audit | `internal/v2audit/backward.go` | search queue, records, entries, edges | TraceBackward |
| In-memory audit source | `internal/v2audit/memory.go` | records, producers, spends | Add and the reads |
| Merkle tree | `internal/core/merkle/tree.go`, `_append` of V2 | leaf count, nodes, root, accepted roots | Append, Path, Verify |
| Audit encryption, key committee | `internal/core/auditcrypto` | packages, shares, released shares | TrustedSetup, Encrypt, PartialDecrypt, CombineAndDecrypt, RecoverReleased (2 of 3) |
| Sparse status tree | `internal/core/status` | nodes that are not empty, root | Apply, Path, ComputeRoot |
| Ledger with private statuses | `ZkDPPStatusLedger.sol`, `features/status_*` | two commitment trees, two status roots, nullifiers, policies | entry to exit, recall and proceed by epochs, updateStatus |
| Claim ledger | `ZkDPPClaimLedger.sol`, `internal/core/dpp`, `features/m8_exit_dpp`, `issue_claim` | audit records, producers, nullifiers with their record and status, claims with theirs | entry to exit, issue, setStatus, setClaimStatus |
| Audits of the claim ledger | `internal/audit`, `m8audit`, `m9audit` | search queues | TraceClaim, Trace, Forward over RPC |
| Earlier proof of concept | `src/poc-v2` | users, commitments and vouchers with nullifiers, a deadline per voucher | registerUser, entry, transfer, proceed, recall, merge, split, process, exit |
| Comparison ledger (Sahai) | `src/sahai-poc` | participants, documents with parents and flags | registerParticipant, entry, ship, merge, process, split, exit |
| Superseded ledgers | `EntryExitLedger.sol`, `ZkDPPAuditLedger.sol` | subsets of the claim ledger's | subsets of its events |
| First copy | `src/zkDPP-poc-v1` | as the milestones that `zkDPP-poc-v2` took over | the same |
| Azeroth reference | `Azeroth Contract` | a published shielded token contract | kept for comparison, not called |
| Benchmarks, setup, reports | `cmd`, `internal/*case`, `internal/*run`, `internal/experiments`, `evaluation` | none of their own | drive the rest, measure, print |

### How they interact

A user's client computes outputs with the asset arithmetic, proves the event
circuit over them, and sends one transaction to V2. V2 checks the proof against
the public inputs, its own state and, for Process and Issue, the policy
registry; then `_recordPolicy` writes everything at once. Every record carries
a ciphertext of the parents and of the future spend values of the outputs; the
circuit ties it to the witness. An auditor decrypts records read over RPC,
walks the graph of parents and outputs, and calls `setStatus` as the status
authority. A third party who is shown a product's fields runs `Verify`, which
only reads V2.

The earlier ledgers work the same way with other state. The ledger with private
statuses keeps two roots of sparse status trees, and a spender proves that the
index of his commitment is active there. The claim ledger separates the
passport from the claims about it: exit makes a DPP out of a note, issue adds
claims one policy at a time, and its audits read records of a block by number.
The epoch ledger has no policies and no audit; its recall deadline is an epoch of
block time. The comparison ledger keeps documents in the open except for their
attributes, which participants open one leaf at a time in proofs.

### What is hard here

The contracts are sequential, but their callers race: two events over one object,
a spend and a freeze of it, a proof made against an old root, a recall and a
proceed around a deadline, a policy disabled before it is used. V2 keeps
its facts in many mappings (separate ones for notes and vouchers, for spends
and for statuses) that agree only when each event updates the right ones. The
audits are clients: blocks arrive between any two of their calls, calls fail
without telling whether they took effect, blocks are replaced. The circuits
replace divisions by quotients that the prover supplies. In the ledger with
private statuses, what a spend is checked against depends on an index only the
prover knows, and an old commitment root meets the current status root. On the
claim ledger the statuses of notes, of vouchers and of claims live apart.
`PROJECT.json` lists these hazards one by one, each at its line, with the
properties that would catch it.

### What makes the components correct

- Registry: no gaps in a policy's versions, also for authorities that act in
  turns; accounts and authority ids determine each other; kinds agree; disabled
  stays disabled.
- Ledger: one sound lineage (one producer per object, one consumer, no cycles), no
  spend of a blocked object in either order, roots never revoked, usable audit
  plaintexts, conservation of mass, no way back for waste, no stranded
  voucher, claims backed by a lot that met the thresholds, and all in all the
  short abstract ledger `AssetFlow`.
- Circuits: the constraints admit the outputs the Go code computes and no
  others.
- Trees: contract and prover compute the root of the padded complete tree;
  a prover that lags can still prove its members, and nothing else; the sparse tree
  is the complete tree of all statuses.
- Key committee: two members' shares of one package recover its key and nothing
  else does; every record can be read.
- Audit: a backward trace finds exactly what an object descends from;
  the targets of a freeze are exactly the live descendants; a complete report means
  containment; nobody else is frozen; it ends.
- Earlier ledgers: each implements `AssetFlow`. Besides, recalls are in time
  although the ledger with private statuses sees no deadline; a shipment of the
  epoch ledger can always be resolved, and its third state is exact; every claim stands on
  one issue and the exit of a note that met its policy; the provenance that
  documents name is the history; audits of the claim ledger are of one snapshot.

## 2. Modules

```
module              extends or instantiates
------------------  ---------------------------------------------------
SolidityMapping
PolicyRegistry      SolidityMapping
Allocation
Assets              Allocation, PolicyRegistry
V2Ledger            Assets
V2LedgerProps       V2Ledger
Lineage
AssetFlow           Lineage
V2LedgerFlow        V2LedgerProps; AssetFlow, as Flow
Circuits            Allocation
AuditFreeze         Lineage; AssetFlow, as Flow
BackwardTrace       AuditFreeze
HashTree
MerkleTree          HashTree
KeyCommittee
StatusTree          HashTree
EpochLedger         SolidityMapping; AssetFlow, as EpochFlow
StatusLedger        AssetFlow, as StatusFlow
ClaimLedger         SolidityMapping; AssetFlow, as ClaimFlow
ClaimAudit          Lineage
SahaiLedger         AssetFlow, as SahaiFlow
EarlierLedgers      EpochLedger; StatusLedger, ClaimLedger, SahaiLedger

FlowHistory         lemmas on histories, sequences and sums; Lineage
FlowProofs          AssetFlow, SahaiLedger, FlowHistory
V2LedgerProofs      V2LedgerFlow, PolicyRegistry, FlowHistory; FlowProofs
AuditFreezeProofs   BackwardTrace, FlowHistory
ClaimProofs         ClaimLedger, ClaimAudit, FlowHistory
StatusLedgerProofs  StatusLedger, FlowHistory
EarlierLedgersProofs  EarlierLedgers, FlowHistory; ClaimProofs,
                    StatusLedgerProofs, FlowProofs
ComponentProofs     Circuits, KeyCommittee, MerkleTree, StatusTree, FlowHistory

MCComponents        PolicyRegistry, KeyCommittee, Circuits, MerkleTree, StatusTree
MCLedgerTrade, MCLedgerProcess, MCLedgerIssue    V2LedgerFlow
MCAuditFreeze       AuditFreeze (three configurations)
MCBackwardTrace     BackwardTrace
MCEarlierLedgers    EarlierLedgers (two)
MCClaimAudit        ClaimAudit (two)
```

`SolidityMapping` models a mapping as the finite function of the keys written
so far, `At` reads the default zero.

`PolicyRegistry` has one action per registry function; a call that reverts is
no step. Bit-packed references (`policyRef`) are records, so packing is
injective here; the code bounds every field before it packs it. Verifier
addresses are the reference they were compiled for, which is how V2 uses them.

`Allocation` is the arithmetic on (mass, recycled mass, emissions), where
`MaxAmount` stands for 2^64-1 and a result out of range is an error, as in the
code. `Assets` adds notes, vouchers and claims, and for each event the set of
outputs its statement allows for given inputs.

`V2Ledger` extends `Assets` and so includes the registry: its `Next` has the
nine events, `SetEntryIssuer`, `SetStatus`, the registry's actions and a clock of
blocks. The code's tail `_recordPolicy` is `RecordPolicy`, with its checks and
writes in one step. Commitments, nullifiers, handles and scopes are the records
they hash (collision-free). A root is named by the number of leaves under it,
and a proof can use any accepted root. The verifier's answer is the existence of
a witness. The audit ciphertext is its plaintext, kept in the record as
`parents` and `futureNfs`, which is what the circuit's AssertAudit ties to the
witness. The contract itself never reads these two fields in the model either.
`ForeknownNotes` are notes whose nullifier the status authority knows before the
note is recorded: `setStatus` does not ask whether the object exists.

`V2LedgerProps` states the ledger's properties over the recorded history.
`Lineage` says of a history of events what it created and consumed, when it is one
that a ledger records, and which objects descend from an object: the least set with
it that is closed under being made of a member. `AssetFlow` is what a ledger promises,
in fifty lines: events that consume
live unblocked objects and create new ones, and an authority that blocks,
releases and revokes. `Sound` and `Lasting` say in it what this comes to for an
object: created once, consumed at most once and after that, never while blocked;
nothing recorded or revoked is undone. `V2LedgerFlow` gives the refinement mapping: the events
are the audit records, an object is blocked when the status of its spend value
is not ACTIVE.

`Circuits` models transfer, split, merge and process constraint by
constraint, with a prover that fills in any witness, and compares with the
native computation. `Assets` uses the native computation; `Circuits` is why it
may.

`AuditFreeze` is a chain whose blocks carry one transaction each (a ledger
event of `AssetFlow`, a status change of another operator, a freeze of the
audit, or nothing) and the auditor as a program with a program counter, one
action per RPC exchange. The order of the checks, the bookkeeping of `complete`,
`lowerBound` and the transaction states, and all early exits are those of
`freeze.go`; `send` may fail with or without effect; a receipt may never
come. What the chain may record is what `AssetFlow` accepts, so that what the ledger
refines is what the audit relies on; it grows by events of at most two inputs.

`BackwardTrace` runs `TraceBackward` over the same chain and the same failing
RPC; it shares the search variables of `AuditFreeze` and adds the records, entries
and edges it collects. What it must find is stated with `Descendants` of
`Lineage`, the forward relation, so the two directions of the audit are checked
against one definition.

`HashTree` is what all trees share: the way from a leaf to the root, the hashes on it,
and as the reference the complete tree, level by level.
`MerkleTree` has the incremental append twice: `_append` of the contract, with
its nodes in one mapping by index and zero for what was never written, and
`tree.go`, with a map by level and position. Hashes are pairs, so two roots are
equal only for equal trees. The two appenders move independently. It also has
`Path`, `Verify` and the constraints of `assertMerkleRoot`. Together they justify
that `V2Ledger` names a root by its number of leaves and reads membership as
being among them. `StatusTree` does the same for the sparse tree, whose nodes are
deleted again when they become those of an empty subtree; it justifies that
`StatusLedger` names a status root by the indices that are not ACTIVE.

`KeyCommittee` keeps the arithmetic of the shares (interpolation modulo the group
order, inverses, negative differences) and replaces the curve by the integers
modulo that order, which is the same group, and hashes by tuples. A member may
answer a request with a share he holds for another committee.
`RecoverReleased` clears the big integers it worked on; `ReleasesAfter` is what
that leaves of the releases it was given.

`EpochLedger` has the functions of `ZkDPP.sol` and what its circuits say of
owners, documents, quantities and the third state, the one of three that
Process may not change: its allocation is fractions that add up to one, each output
gets its floored share and the first what is left. The circuits bound a remainder r by r + 1 <= Q and
not r itself, so r = -1 is allowed; `Shares` keeps that.

`StatusLedger` keeps the two commitment trees as sequences of leaves, the status
roots as said above, and every epoch and deadline check of the circuits, since the
contract checks none. Amounts are left out, and policies are the scopes that an
enabled policy is granted to.

`ClaimLedger` replaces the amounts of a note by a grade, what the thresholds of the
issue policies tell apart; an event that divides or adds amounts may give its
outputs any grade. Recall deadlines are those of `StatusLedger` and left to it. Issue is an event that consumes and creates nothing, so the
refinement of `AssetFlow` maps its record to an event without objects.

`ClaimAudit` is the two audits of that ledger over a chain that grows and changes
its fork: blocks are replaced by a new one, with another record or none (`Reorg`), and a fork that was left may become
the chain again, with the hashes it had (`Restore`). Both audits name a snapshot by
number and hash, and read by number (`internal/audit/rpc.go:68`,
`m8audit/audit.go:147`); a visit of an object with its reads is one step. The variable
`cameBack` records, for the properties only, that the snapshot's block left the
chain and came back. The records are events of a history, and the operators of
`Lineage` state what the audits must find.

`SahaiLedger` keeps documents by the id their attributes give them (the salts do
not enter it), and what the gadget proofs say: of some opened leaf of one
document and some of another, not of the documents as a whole.

The parts of `MCComponents` and the ledgers of `EarlierLedgers` share no
state. A behaviour picks one (`component`, `deployed`) and leaves the others as they
were initially, so one run checks their sum, not their product.

## 3. Runs

| Run | Question | Bounds | Distinct states |
| --- | --- | --- | --- |
| components | does each part alone do what the ledgers take for granted? | registry: 2 authorities, 1 policy each, 3 versions, 1 scope; commitment trees of depth 4, status tree of depth 3; circuits: all states of amounts up to 3, up to 2 for the inputs of process, rates in thirds; keys: group of order 7, 2 committees, 2 releases, 2 contexts | 97 thousand |
| ledger_trade | one sound lineage, sound trees, no stranded voucher, refinement of AssetFlow | 2 users, 2 openings, 1 entry state, amounts up to 2, 1 deadline with blocks before, at and after it, 1 watched spend value, 4 records, 4 leaves | 178 thousand |
| ledger_process | is mass conserved by Process, is waste final? | 1 user, 3 openings, unit lots, 5 records, 7 leaves, rates of one half so that both divisions leave remainders | 250 thousand |
| ledger_issue | is every claim backed and verifiable for ever? | 2 versions of the issue policy, 1 lot that meets the thresholds of the first only and 1 those of the second, amounts up to 2, 5 records | 193 thousand |
| audit_freeze | is the report right, with growth and failures? does the audit end? | 4 histories (a lot, a split, a diamond, one that ended in a claim and an exit), 4 goods, 1 claim, 4 blocks, 1 failing call, no reorganisation | 1.4 million |
| audit_reorg | is the report right when blocks are replaced? | the same, 1 replacement above the snapshot, no failing call | 1.7 million |
| backward_trace | is the lineage exact? | chains that start empty, with two lots of which one is split and half of it merged with the other, or with a lot whose halves meet again in a claim; 6 goods, 3 more blocks, 1 replacement, 1 failing call | 468 thousand |
| earlier_ledgers | does each earlier ledger implement AssetFlow and keep its own promises? | epoch: 2 users, 1 document, 2 openings, unit lots, 4 transactions, epochs 0 and 1; status: 2 users, 3 openings, Process of 2 inputs, 3 transactions, 2 updates; claim: 1 grade, 2 policies, 4 records, 2 status changes; sahai: 7 documents, 4 transactions | 170 thousand |
| claim_audit | are the audits of the claim ledger those of one snapshot? | 3 chains at first (a lot, processed, sold and claimed in a block of its own; a lot whose halves met again in a claim; two lots, one of them split, with a DPP and no claim yet), 6 goods, 2 DPPs, 3 blocks, 2 changes of fork, which may go back to one that was left | 3.4 million |
| audit_snapshot_reorg | is a complete report about the canonical chain when the snapshot's own block is replaced? | as audit_reorg, the replacement may reach the snapshot | a violation |
| forward_snapshot | is what Forward returns always of its snapshot? | as claim_audit, 4 blocks, 1 change of fork | a violation |
| sahai_salts | can a document with fresh salts always be entered? | as earlier_ledgers | a violation |

Every passing run ends with all its properties holding; each property is also
known to fail for at least one altered definition of the model (the `mutants` of
`PROJECT.json`; their operators stand next to the originals and are marked
"Mutant").

Why these bounds. In `ledger_trade` four records are an entry, a transfer, a
resolution and one more event of its outputs, or a split followed by a merge:
enough for every pair of events to compete for one object. Two openings suffice to
produce the same commitment twice. The tree of four leaves is filled, so a
two-output event meets a tree with room for one. Block numbers 0 to 2 around
deadline 1 are before, at and after. One watched value is enough for the
properties of a status, which speak of one value at a time; `ForeknownNotes`
makes it possible that it was frozen first. In `ledger_process` five records are
three entries, a Process and one event of its outputs; five in `ledger_issue` are two
entries, a split and a claim under each version, or several claims about one document;
versions are registered, with the verifier of either, superseded and disabled at any time. Its
constraint `IssueOnly` leaves other policies unregistered; the registry with policies of
both kinds is in `components`.
Openings and users are symmetric in all of the ledger's formulas. The constraint
`IssuerStays` of the process and issue runs drops the histories in which the
issuer is removed after an entry; `ledger_trade` has them. In the audit runs three
blocks after the snapshot are one for the freeze and two for somebody else, or one
for each of two targets and one for somebody else; the diamond is the smallest
history in which an object is reached twice.

A backward trace of three merged generations reaches a record by two of its
outputs and two entries by different branches. In `components`, two authorities
with three versions each interleave reservations and registrations; depth 4
closes subtrees of every height below the root and fills the tree (a commitment
is named by its position, since the ledger never takes one twice), depth 3 of the
status tree takes every order of updates of eight leaves. Order 7 is the smallest
prime for which a line through the shares is not determined by the secret alone.
Two releases are enough because recovery takes exactly two, and the statement is
checked again after each recovery. Rates in thirds leave every remainder.

In `earlier_ledgers` the epoch ledger's four transactions are an entry, a
transfer, its resolution in the epoch of the deadline or before, and an event of
the result, or a Process of two lots. Its constraint `UsersFirst` lets the user register
before anything else, which no other function asks for, and `MoreToCome` does not
continue a full history, after which only epochs pass. Three
transactions of the status ledger with two updates freeze, release or revoke
any object before and after its use; four records of the claim ledger are an entry,
an exit and an issue under each of two policies, or an object's whole way to an exit. The seven
documents make every event of the comparison ledger possible, exit included, and two of
them are the same but for their salts. In `claim_audit` the halves of a lot meet
again, so a record is reached by two objects. The chain can be replaced and
regrown to the length of the snapshot while an audit reads; two changes
of fork leave the snapshot and come back to it. One of the first chains has two blocks, so
that a new second block can have another producer for an object the trace has queued.
Without `~cameBack` TLC refutes both properties of this run, and without the last check of
the trace `ClaimTraceExact`. An object is queued
by the one record that consumes or creates it, so a search meets a queued object again only if a
replaced chain moves it to another record; forward that happens here, backward it takes
longer chains than these.

`CHECK_DEADLOCK FALSE` stands in all runs: with bounded records, blocks, openings and
versions every run ends when they are used up, a circuit run ends with its
proof, an audit with its report, the trees when they are full.

The properties of the runs include no mere type invariants: the types of registry and
ledger are part of the inductive invariants of section 4.

Fairness is used once: `FairSpec` of `AuditFreeze` has weak fairness of
`AuditStep`. The auditor is one goroutine, its loops go on as long as it
runs, and every RPC call returns (with an error at the latest when its context or its
polling ends, which is an action here). Nothing is assumed of the chain: it may
never grow again. The ledgers have no fairness; instead of liveness they have
`NoStrandedVoucher` and `ShipmentsResolve`, which say in every state that the
receiver *can* act: what his call checks, `Proceeds` and `Recordable`, or
`Acceptable`, holds.

### Findings

`audit_snapshot_reorg` checks what
`src/zkDPP-poc-v2/milestones/M1-HF-spec-conformance.md:639` says: a change of
the block hash of the snapshot H_t is refused. TLC finds a behaviour where it is
not. `TraceForward` checks the snapshot for the last time when the
search is over (`freeze.go:239`); `AuditAndFreeze` afterwards checks the observations
and the checkpoint, never H_t. If the block of H_t is replaced between the trace and
the report, the outcome is still `COMPLETE_AT_CHECKPOINT`, about a history
that is no longer on the chain. This is why `audit_reorg` is restricted to
replacements above the snapshot (`FinalSnapshot`).

`forward_snapshot` checks what
`src/zkDPP-poc-v1/milestones/M7-audit-tracing.md:809` says of the audits: at start
and end they check that the snapshot's block hash has not changed. `Trace` does
(`audit/trace.go:247`); `Forward` (`m9audit/forward.go:29`) checks it before its first read only, and
reads by block number. When the block is replaced in between, it returns what a
mixture of two chains says, without an error. `claim_audit` therefore states of
`Forward` what holds while the snapshot stands.

`sahai_salts` checks what `src/sahai-poc/milestones/M1-evaluation.md:5` says: the
id of a document is its salted commitment. The id is computed from the
attributes without the salts (`document/merkle.go:36`), so a document with the
attributes of a stored one is refused as a duplicate, whatever its salts.

## 4. Proofs

TLAPS proves the following for all values of the constants, from the named
assumptions of the modules (bounds are natural numbers, rates are
fractions, the order of the group is prime, trees have a level, the histories an audit starts from are
recorded ones). Nothing is assumed of the sizes of the sets; the bounds of an
instance may be arbitrarily large. The proofs use of a hash only that different
records differ (commitments, nullifiers and handles are records), and of the hash of
a tree that it determines its two arguments and is no leaf.

**The main ledger (`V2LedgerProofs`).** The inductive invariant of the registry,
`RegistryInv`, is the conjunction
of the types, `AuthoritiesBijective`, `CountersBound`, `FamilyKindFixed` and
`VersionsContiguous`. The interesting one is `VersionsContiguous`: a version
is reserved only when the version just before is registered, and the conclusion is about
all versions below. It needs the counters (no reservation lies above its
counter, so the next version is new), and these need the authorities (two
accounts never act for the same id). One lemma per action preserves
`RegistryInv`; the theorems `RegistryTypes`, `RegistryAuthorities`,
`RegistryVersions`, `RegistryKinds` follow, and `RegistryDisabledForever`, an
action property, from the types.

`LedgerInv` is `MappingsTypeOK` (the types of everything but
the trees), `HistoryOK` (record ids are the numbers below the next one, the
produced claims are the registered ones), `BlockedIsUnspent` and the three parts of
`LineageSound`: `ConsumedOnce`, `ProducedOnce` and `Acyclic`. The argument
follows the code: all nine events end in `RecordPolicy`, so the lemmas
`Recorded...` show once that an event whose
parents are recorded, unspent and unblocked, and whose outputs are typed and
fresh, preserves each conjunct (`EventOK` says what an event owes), and a short
lemma per event shows that its guards provide this. `LedgerSteps` sums up: every
step records an event, sets a status, or does neither. The conjuncts need each
other: an output that is fresh has no producer by `ProducedOnce` (for notes and
vouchers) and `HistoryOK` (for claims); a parent is produced earlier by
`ProducedOnce`; the spend value of an earlier parent is not spent again because
`ConsumedOnce` says it is spent and the guard says it is not, in the mapping of
its own type. `SetStatusInv` is the other half of the race between freeze
and spend. `LedgerBlocked`, `LedgerLineage` and `LedgerTypes` are its
consequences; `LedgerAppendOnly` is an
action property from the same invariant. `LedgerKeepsRegistry` shows that the ledger's
behaviours are the registry's as far as the registry is concerned, so the
registry's theorems hold of the ledger.

A second invariant, `RecordsSound`, says that what the circuits proved
of an event stays true of its record: the roles of its parents and outputs
(`EventSound`), the spend values it lists (`Opened`), what its quantities owe each
other (`Balanced`), and for an issue, the
thresholds of its policy version (`Backed`, `IssuePolicy`). The lemma `IssuePoliciesStay`
needs `FamilyKindFixed` of the registry: a policy can be disabled and superseded,
not lost or changed into one of another kind. From it follow
`LedgerWasteOnlyExits`, `LedgerFutureNfs` and `LedgerClaimsBacked`.

`LedgerMassConserved` is a statement about sums over all records and all live
objects. With the lineage every object that was created is live or was consumed by
exactly one record, so a record changes the sum over live objects by what it
created less what it consumed, and `Balanced` says what that is. `LedgerTrees` says
that the trees hold the commitments of the recorded outputs, each once and in order.
`LedgerNoStranded` uses it: a live, unblocked voucher is a leaf under the
current root, which is accepted, so nothing that `proceed` checks can fail but for the
room of one note. The voucher's own tree may be full, never fuller (`VouchersFit`).

`LedgerImplementsFlow` is the refinement, `Spec =>
Flow!Spec`. A recorded event appends exactly one event to the mapped history,
and it is acceptable to `AssetFlow`: its inputs were created (`ProducedOnce`), not
consumed (`ConsumedOnce`), and not blocked, because a nullifier determines
its note, so the status that the contract looked up is the one of this object.
A change of status is a `Block`, `Release` or `Revoke`; anything else
stutters.

`FlowIsSound` (`FlowProofs`) shows once, of `AssetFlow` alone, that whatever implements it is
`Sound` and `Lasting`. `LedgerSound` carries this over the refinement to the main
ledger and `EarlierSound` to the four others, through instances of
`FlowProofs` under each refinement mapping. So the promise that a nullifier set, a
status root, a commitment and a consumed flag are each there to keep is one theorem,
and what it says of a ledger is said of that ledger's own history.

**The audits of the main ledger (`AuditFreezeProofs`).** `AuditInv` has one conjunct for
each thing the audit relies on. `ChainInv`: each block's history continues the one
below, and hashes are given out once. `SnapshotInv`: what was observed carries hashes
of the past. `PhaseInv`: where the program is. `TraceInv`: what the search reached came out
of the object, what it has seen was followed. `FoundInv`: when it is over, the
targets are the live descendants (what was followed is closed, hence contains the
least closed set). `SubmittedInv`: freezes are sent for targets only.
`VerdictInv`: as long as the outcome is complete so far, every target looked at again is
blocked at the checkpoint. `PendingInv`: without replacements, a freeze whose receipt
was not awaited made the audit incomplete.

`FrontierIsExact`, `FreezesAreTargets` and `NoTargetsForever` allow any replacements of
blocks and speak of a snapshot that is on the chain, as their definitions do.
`CompleteIsContained` has the condition that the block of the snapshot is not
replaced (`FinalSnapshot`), and `CompleteOnFinalSnapshot` shows with the same condition
that the finding of `audit_snapshot_reorg` needs the replacement of that one block.
`CompleteIsSettled` and `ContainmentLasts` have the condition that no
block is replaced. `LineageIsExact` has an
invariant of its own, `BackInv`: what was visited is an ancestor, and the inputs of the
records that were expanded were visited. When nothing is left to expand, no event
leads from an object that was not visited to one that was, so the objects that were not
visited are a closed set without the start, and none of them is an ancestor.

`AuditComesNearer` is why an audit ends. What is left is counted in the order of phase,
objects not yet seen (or targets not yet handled), and calls for the one in hand; each
step of the program makes it smaller, a failing one too, and what happens on the chain
leaves it alone. The search is never stuck on an object it can read, because in a
recorded history an object was produced before it was consumed.

**The claim ledger and its audits (`ClaimProofs`).** `ClaimImplements`: objects
are blocked through the nullifier that will spend
them (`NullifiersInjective`); an issue is an empty event, a passport is created
once and never consumed. `ClaimsHaveGround` is `ClaimsStand`, with `ClaimInv` (`MappingsOK`,
`HistoryOK`, `ClaimIdsOK`): each claim has one issue record, after the exit that
made its DPP. `ClaimTraceIsExact` and `ForwardIsExact`: a read names a block by number
only, so a search may mix two chains. As long as the snapshot stands (`Standing`: its
block is on the chain and has not left it), everything was read from its history, because no two
blocks of any fork have one hash (`ChainInv`); `TraceInv` and `ForwardInv` are
conditional on that. The last check of a trace
discharges half of the condition, that the block is on the chain. The other half
no check can: if the snapshot's block left the chain and came back between the checks at
`trace.go:75` and `trace.go:247`, both succeed and the reads in between may be of another
chain. `ClaimTraceExact` therefore says so (`~cameBack`), and TLC refutes it without
these words. Reads by block hash, as those of the current ledger's audits
(`v2audit`), would close this gap. Forward has no last check, which is why its theorem
keeps the whole condition. `ForwardOnFinalSnapshot` shows that the finding of
`forward_snapshot` needs a change of fork.

**The other ledgers** implement `AssetFlow` each by an argument of its own over a
history kept next to its state.

- `EpochImplements`: the nullifier sets and the recorded commitments are
  together the consumed and created objects. Proceed and recall of one voucher
  compete for one nullifier, so it is resolved once. `EpochThirdState`: over any
  history, the third state that entered is that of the live objects and of those
  that left, to the unit: a process divides the sum of its inputs by floors of
  which the first output takes the remainders. `EpochShipmentsResolve`: no recall is late
  (`EpochRecallsInTime`), and whatever others record or resolve, the nullifier of a live
  voucher is free, so its receiver can take it.
- `StatusImplements`: an object is blocked when its leaf's index is in the status
  root of its tree. `StatusInv` (`TreesOK`, `HistoryOK`, `DatesOK`) makes leaves and
  indices determine each other, so an update concerns one object and a spend is
  checked at its own index. `StatusRecalls` is the time of recalls, the
  invariant's fourth conjunct: the contract binds only the epoch of the transaction
  into the proofs, and the deadline in the voucher was bound the same way at the transfer,
  so `DatesOK` keeps it equal to that transfer's epoch plus the sender's choice.
- `SahaiImplements` (`FlowProofs`): the consumed flags are the history's; `SahaiProvenance`
  says that the parents a document names are those of the one transition that
  made it.

`EarlierLedgersProofs` holds the proofs of the epoch ledger, and carries the theorems
on the other three from their modules to their instances in the composition that
`earlier_ledgers` checks: `EarlierRecalls` and `EarlierStatusImplements` from
`StatusRecalls` and `StatusImplements`, `EarlierClaims` and `EarlierClaimImplements` from
`ClaimsHaveGround` and `ClaimImplements`, `EarlierProvenance` and
`EarlierSahaiImplements` from `SahaiProvenance` and `SahaiImplements`. A step of the
composition is a step of one ledger or leaves it alone; an instance of a module
of proofs has definitions of its own, which are shown to be those of
the instance in the model (`StatusSame`, `ClaimSame`, `SahaiSame`).

**The parts (`ComponentProofs`).** `CircuitsExact`: a remainder below the divisor
determines the quotient, so the constraints of transfer, split, merge and process
leave one value for each output, the one the Go code computes, for all amounts and
rates. `CircuitsComplete` is the converse, that this value satisfies them whenever the Go
code returns no error: the remainder of its floor is below the divisor and, the divisor
having 64 bits (`RatesAssumption`), in range; the share of everything is everything, so
a part without mass carries nothing; partial sums are in range because the total is.
`AuditKeyRecovery` and `AuditRecordsReadable` are about the arithmetic modulo
the group order: congruence respects sums and products; the differences of two of the
three members have inverses because the order is odd and above 3; so two points of a
line give its value at 0 (`LineThroughTwo`), also multiplied by the randomness of a
ciphertext. That no product of scalars is zero is where the order must be prime
(`ProductIsNotZero`, by descent along remainders). The invariant `KeyInv` says that
every committee holds a line through its secret, that released shares are dealt ones,
and that recovered keys are secrets. A share of another committee may have the value
of the right one, and then it is the right one, which is why `RecoveryExact` speaks of
shares and not of who sent them.

`CommitmentTrees`, `PathsOpenRoots` and `SparseTree` hold for any depth. Everything a
tree does walks one way from a leaf to the root, so the lemmas on `HashTree` are
inductions over the levels (`LevelInduction`, by a least counterexample): a leaf is
hashed into its ancestors only (`TreeElsewhere`); siblings taken from a complete tree
lead to its root from the leaf that is there and from no other (`HashesOpen`), hence
replacing a leaf replaces exactly the hashes computed on its way (`LeafReplaced`);
different leaves give different roots (`RootsDiffer`). The recursive functions are shown
to exist and to be unique first (`Pow2Def`, `HashesDef`, `CompleteTreeDef`). The
invariants are then short: what `NodeOnChain`, `Node` and `StatusNode` read, at every
position, is what the complete tree has there (`TreesInv`, `StatusTreeInv`). They need
that no two nodes share a slot of the contract's mapping (`SlotsInjective`), that no
stored hash is taken for an empty node (`HashesNotEmpty`), and that a deleted node of the
status tree is one whose hash is that of an empty subtree. `CircuitOpens` shows that
selecting by the bits of the index is going left and right by its halves.

**Lemmas (`FlowHistory`)** on histories, sequences and finite sums. Induction over a
finite set is by a least counterexample (`SubsetInduction`), since the library's
induction rules take operators as parameters; the same way a sum is
shown not to depend on the order in which it is taken.

Model-checked only:

- `AuditEnds`, which is liveness. `AuditComesNearer` proves its argument: every step of the
  audit decreases the measure. That such a step is always ENABLED, and taken under weak
  fairness, is left to TLC.
- `SaltsMakeDocumentsDistinct`, which says what is ENABLED and does not hold.

## 5. What is not modelled

- Elliptic curves, hashes, Groth16, PLONK and ElGamal themselves (out of TLC's reach; their
  ideal behaviour is assumed as said above), and generated verifiers.
- The decoding of records and logs, and `VerifyOriginal`: records decode and decrypt without error.
- `memory.go`, a test double of the RPC source: the interface the audits call, over
  maps, without chain, failures or replacements.
- The administration of policies and entry issuers of the status and claim
  ledgers, which is the main ledger's: it enters as the scopes granted and the
  policies enabled.
- The forward direction of `Trace` in `internal/audit`, the search of
  `AuditFreeze` without statuses.
- `EntryExitLedger.sol` and `ZkDPPAuditLedger.sol`, whose functions are a subset of
  the claim ledger's, and `contracts/src/final/ZkDPPClaimLedger.sol`, which differs
  from it only in taking the verifier of a process from its policy record.
- `src/zkDPP-poc-v1`, the first copy of what `src/zkDPP-poc-v2` took over: its status
  and claim ledgers, trees and audits are the same but for import paths. Its notes
  and vouchers hash their fields in another order, and its Process policy accepts a product of
  no mass.
- `Azeroth Contract`, third-party code kept for comparison.
- The ledgers under `contracts/src/experiments` and the copies under `evaluation`, variants
  of the modelled ones whose cost is measured.
- Drivers, benchmarks, setup, experiments, reports and comparisons. They are most
  of the repository's lines: each calls the parts above in one fixed order,
  measures and prints, and has no state of its own that could be in a wrong
  one. They are the reason why the mapped lines are a small share of all lines, though
  they cover most of the contracts and of `internal/core`.

## 6. Running

```
tlc -workers 2 -config MCLedgerTrade.cfg MCLedgerTrade
tlc -workers 2 -config MCClaimAudit.cfg MCClaimAudit
tlapm V2LedgerProofs.tla
```

The largest runs take two to three minutes on two cores, each proof module a few
minutes from nothing.
