----------------------------- MODULE EpochLedger -----------------------------
(***************************************************************************)
(* contracts/src/ZkDPP.sol of the earlier proof of concept, with its event *)
(* circuits: notes and vouchers without status, policies or audit records, *)
(* and a recall deadline the ledger keeps for each voucher, in epochs of   *)
(* block time.                                                             *)
(*                                                                         *)
(* A commitment is the record that opens it.  Recording one also appends   *)
(* it to its tree, and every root the tree ever had stays accepted, so     *)
(* membership can be proved of exactly the recorded commitments            *)
(* (MerkleTree).  A note carries its quantity and one of its three states, *)
(* the one Process may neither add to nor take from.                       *)
(***************************************************************************)
EXTENDS Naturals, Integers, FiniteSetsExt, SequencesExt, SolidityMapping

CONSTANTS
  Accounts,         \* callers of registerUser
  Users,            \* owners; an address H(H(sk)) is named by its owner
  Documents,        \* document hashes
  Openings,         \* commitment randomness
  DeltaEpochs,      \* epochs a sender may leave itself for a recall
  MaxQuantity,      \* 2^64 - 1
  Denominator,      \* scale of the allocation shares of Process
  MaxArity,         \* MAX_PROCESS_ARITY
  TreeCapacity,     \* 2^TREE_DEPTH leaves
  EntryNotes,       \* bound on the notes entered in an instance
  MaxTransactions,  \* bound on the transactions of an instance
  MaxEpoch          \* bound on the epoch of an instance

ASSUME EpochAssumption ==
  /\ DeltaEpochs \subseteq Nat
  /\ MaxQuantity \in Nat
  /\ Denominator \in Nat \ {0}
  /\ MaxArity \in Nat
  /\ TreeCapacity \in Nat
  /\ MaxTransactions \in Nat
  /\ MaxEpoch \in Nat

VARIABLES
  epoch,              \* block.timestamp / EPOCH_SIZE
  users,              \* registered accounts
  commitments,
  nullifiers,
  vouchers,
  voucherNullifiers,
  deadlineRV,         \* voucher -> first epoch in which it cannot be recalled
  transactions        \* the accepted events, as the chain keeps them

epochVars == <<epoch, users, commitments, nullifiers, vouchers,
               voucherNullifiers, deadlineRV, transactions>>

Quantity == 0..MaxQuantity

Notes == [doc : Documents, q : Quantity, s : Quantity, owner : Users,
          opening : Openings]

Vouchers == [doc : Documents, q : Quantity, s : Quantity, sender : Users,
             receiver : Users, delta : DeltaEpochs, opening : Openings]

Note(doc, q, s, owner, opening) ==
  [doc |-> doc, q |-> q, s |-> s, owner |-> owner, opening |-> opening]

\* H(sk, cm) and H(rv, opening): the resolution of a voucher has one nullifier,
\* whether it is proceeded or recalled.
Nullifier(n)        == [cm |-> n, sk |-> n.owner]
VoucherNullifier(v) == [rv |-> v, opening |-> v.opening]

-----------------------------------------------------------------------------
\* What the part of quantity q may get of the state of n: q * s = Q * c + r with
\* r + 1 <= Q.  The circuits bound r + 1 and not r, so r = -1, the other
\* representation of a product one short of a multiple of Q, satisfies them.
Shares(n, q) == {c \in 0..n.s : \E r \in -1..(n.q - 1) : q * n.s = n.q * c + r}

\* transfer: part of a note goes to a voucher, the change stays.
TransferOutputs(n) ==
  {o \in
     UNION {UNION {{[voucher |-> [doc |-> n.doc, q |-> q, s |-> n.s - c,
                                  sender |-> n.owner, receiver |-> receiver,
                                  delta |-> delta, opening |-> vOpening],
                     change  |-> Note(n.doc, n.q - q, c, n.owner, cOpening)] :
                      receiver \in Users, delta \in DeltaEpochs,
                      vOpening \in Openings, cOpening \in Openings} :
                   c \in Shares(n, n.q - q)} :
            q \in 1..n.q} :
     o.voucher \in Vouchers /\ o.change \in Notes}

\* proceed and recall: the voucher becomes a note of its receiver or sender.
ResolveOutputs(v, owner) ==
  {Note(v.doc, v.q, v.s, owner, opening) : opening \in Openings} \cap Notes

\* merge: two notes of one owner and one document.
MergeOutputs(n1, n2) ==
  {m \in {Note(n1.doc, n1.q + n2.q, n1.s + n2.s, n1.owner, o) : o \in Openings} :
     /\ m \in Notes
     /\ n1.owner = n2.owner
     /\ n1.doc = n2.doc}

\* split: the second part gets its share, the first the rest.
SplitOutputs(n) ==
  {o \in
     UNION {UNION {{<<Note(n.doc, n.q - q, n.s - c, n.owner, opening[1]),
                      Note(n.doc, q, c, n.owner, opening[2])>> :
                       opening \in Openings \X Openings} :
                   c \in Shares(n, q)} :
            q \in 0..n.q} :
     o[1] \in Notes /\ o[2] \in Notes}

\* The third state of notes and vouchers together.
Total(objects) == SumFunction([x \in objects |-> x.s])

\* Mutant: no output takes the rounding.
AllottedFloored(total, a, j) == (total * a[j]) \div Denominator

\* Share of output j in the total: rounded down, the first takes the rest.
Allotted(total, a, j) ==
  LET parts == [i \in DOMAIN a |-> (total * a[i]) \div Denominator]
  IN  IF j > 1 THEN parts[j] ELSE total - SumFunctionOnSet(parts, DOMAIN a \ {1})

\* k notes of one owner among which an allocation that adds up to the denominator
\* divides the total.
Divisions(total, k, doc, q, owner, opening) ==
  {[j \in 1..k |-> Note(doc[j], q[j], Allotted(total, a, j), owner, opening[j])] :
     a \in {b \in [1..k -> 0..Denominator] : SumFunction(b) = Denominator}}

\* process: the outputs divide the total state of the inputs; their quantities and
\* documents are free.
ProcessOutputs(ins) ==
  {o \in UNION {Divisions(Total(ins), k, doc, q, owner, opening) :
                  k \in 1..MaxArity, doc \in [1..MaxArity -> Documents],
                  q \in [1..MaxArity -> Quantity \ {0}],
                  owner \in {n.owner : n \in ins},
                  opening \in [1..MaxArity -> Openings]} :
     /\ \A n1, n2 \in ins : n1.owner = n2.owner
     /\ \A j \in DOMAIN o : o[j] \in Notes}

-----------------------------------------------------------------------------
EpochInit ==
  /\ epoch = 0
  /\ users = {}
  /\ commitments = {}
  /\ nullifiers = {}
  /\ vouchers = {}
  /\ voucherNullifiers = {}
  /\ deadlineRV = EmptyMapping
  /\ transactions = <<>>

\* Mutant: a voucher can be resolved twice.
UnspentNotes(inNotes, inVouchers) ==
  \A n \in inNotes : Nullifier(n) \notin nullifiers

Unspent(inNotes, inVouchers) ==
  /\ \A n \in inNotes : Nullifier(n) \notin nullifiers
  /\ \A v \in inVouchers : VoucherNullifier(v) \notin voucherNullifiers

\* What the events check: recorded inputs with fresh nullifiers, new outputs and
\* room in the trees.  outNotes are inserted one by one, so an output given twice
\* reverts.
Acceptable(inNotes, inVouchers, outNotes, outVouchers) ==
  /\ Len(transactions) < MaxTransactions
  /\ inNotes \subseteq commitments /\ inVouchers \subseteq vouchers
  /\ Unspent(inNotes, inVouchers)
  /\ IsInjective(outNotes) /\ Range(outNotes) \cap commitments = {}
  /\ outVouchers \cap vouchers = {}
  /\ Cardinality(commitments) + Len(outNotes) <= TreeCapacity
  /\ Cardinality(vouchers) + Cardinality(outVouchers) <= TreeCapacity

\* What the events share: the checks and the assignments that follow the proof.
Accept(kind, inNotes, inVouchers, outNotes, outVouchers) ==
  /\ Acceptable(inNotes, inVouchers, outNotes, outVouchers)
  /\ nullifiers' = nullifiers \cup {Nullifier(n) : n \in inNotes}
  /\ voucherNullifiers' = voucherNullifiers
                            \cup {VoucherNullifier(v) : v \in inVouchers}
  /\ commitments' = commitments \cup Range(outNotes)
  /\ vouchers' = vouchers \cup outVouchers
  /\ transactions' = Append(transactions,
       [kind |-> kind, epoch |-> epoch, inputs |-> inNotes \cup inVouchers,
        outputs |-> Range(outNotes) \cup outVouchers])
  /\ UNCHANGED <<epoch, users>>

NextEpoch ==
  /\ epoch < MaxEpoch
  /\ epoch' = epoch + 1
  /\ UNCHANGED <<users, commitments, nullifiers, vouchers, voucherNullifiers,
                 deadlineRV, transactions>>

RegisterUser(account) ==
  /\ account \notin users
  /\ users' = users \cup {account}
  /\ UNCHANGED <<epoch, commitments, nullifiers, vouchers, voucherNullifiers,
                 deadlineRV, transactions>>

Entry(n) ==
  /\ n.q # 0
  /\ Accept("entry", {}, {}, <<n>>, {})
  /\ UNCHANGED deadlineRV

Transfer(n) ==
  \E o \in TransferOutputs(n) :
    /\ Accept("transfer", {n}, {}, <<o.change>>, {o.voucher})
    /\ deadlineRV' = Put(deadlineRV, {o.voucher}, epoch + o.voucher.delta)

\* The receiver may proceed in every epoch.
ProceedOutputs(v) ==
  {m \in ResolveOutputs(v, v.receiver) : Acceptable({}, {v}, <<m>>, {})}

Proceed(v) ==
  \E m \in ProceedOutputs(v) :
    /\ Accept("proceed", {}, {v}, <<m>>, {})
    /\ UNCHANGED deadlineRV

\* Mutant: recall in the deadline's epoch too.
RecallInDeadlineEpoch(v) ==
  \E m \in ResolveOutputs(v, v.sender) :
    /\ epoch <= At(deadlineRV, v)
    /\ Accept("recall", {}, {v}, <<m>>, {})
    /\ UNCHANGED deadlineRV

\* The sender may recall until the deadline the ledger keeps.
Recall(v) ==
  \E m \in ResolveOutputs(v, v.sender) :
    /\ epoch < At(deadlineRV, v)
    /\ Accept("recall", {}, {v}, <<m>>, {})
    /\ UNCHANGED deadlineRV

Merge(n1, n2) ==
  /\ n1 # n2
  /\ \E m \in MergeOutputs(n1, n2) : Accept("merge", {n1, n2}, {}, <<m>>, {})
  /\ UNCHANGED deadlineRV

Split(n) ==
  /\ \E o \in SplitOutputs(n) : Accept("split", {n}, {}, o, {})
  /\ UNCHANGED deadlineRV

Process(ins) ==
  /\ Cardinality(ins) \in 1..MaxArity
  /\ \E o \in ProcessOutputs(ins) : Accept("process", ins, {}, o, {})
  /\ UNCHANGED deadlineRV

Exit(n) ==
  /\ Accept("exit", {n}, {}, <<>>, {})
  /\ UNCHANGED deadlineRV

EpochNext ==
  \/ NextEpoch
  \/ \E account \in Accounts : RegisterUser(account)
  \/ \E n \in EntryNotes \cap Notes : Entry(n)
  \/ \E n \in commitments : Transfer(n) \/ Split(n) \/ Exit(n)
  \/ \E n1, n2 \in commitments : Merge(n1, n2)
  \/ \E v \in vouchers : Proceed(v) \/ Recall(v)
  \/ \E ins \in SUBSET commitments : Process(ins)

EpochSpec == EpochInit /\ [][EpochNext]_epochVars

-----------------------------------------------------------------------------
Live == {n \in commitments : Nullifier(n) \notin nullifiers}
          \cup {v \in vouchers : VoucherNullifier(v) \notin voucherNullifiers}

Objects == Notes \cup Vouchers

\* What the transactions consumed and created.
Events == [i \in DOMAIN transactions |-> [inputs  |-> transactions[i].inputs,
                                         outputs |-> transactions[i].outputs]]

EpochFlow == INSTANCE AssetFlow WITH
  Spendable <- Objects,
  events    <- Events,
  blocked   <- {},
  revoked   <- {}

\* Nullifier sets, commitments and vouchers together never let a note or a
\* voucher be consumed twice, or both proceeded and recalled, or created twice.
EpochImplementsFlow == EpochFlow!Spec

\* A shipment returns to its sender only in an epoch before the one its transfer
\* announced.
RecallsBeforeDeadline ==
  \A i \in DOMAIN transactions : transactions[i].kind = "recall" =>
    \E j \in 1..(i - 1) : \E v \in transactions[i].inputs :
      /\ transactions[j].kind = "transfer"
      /\ v \in transactions[j].outputs
      /\ transactions[i].epoch < transactions[j].epoch + v.delta

\* A shipment returns to its sender only before the deadline; and whatever the
\* epoch, its receiver can always still take it, given a fresh opening and room
\* for one more note and transaction.
ShipmentsResolve ==
  /\ RecallsBeforeDeadline
  /\ \A v \in vouchers \cap Live :
       /\ ResolveOutputs(v, v.receiver) \ commitments # {}
       /\ Cardinality(commitments) < TreeCapacity
       /\ Len(transactions) < MaxTransactions
       => ProceedOutputs(v) # {}

\* What was entered, and what left the ledger.
Entered == UNION {transactions[i].outputs :
                    i \in {j \in DOMAIN transactions : transactions[j].kind = "entry"}}
Left    == UNION {transactions[i].inputs :
                    i \in {j \in DOMAIN transactions : transactions[j].kind = "exit"}}

\* The third state, which Process may not change, is exact over the whole
\* ledger: what was entered is in a live note or voucher, or left by Exit.
ThirdStateExact ==
  Total(Entered) = Total(Live) + Total(Left)
=============================================================================
