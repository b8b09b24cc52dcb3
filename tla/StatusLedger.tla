---------------------------- MODULE StatusLedger ----------------------------
(***************************************************************************)
(* contracts/src/ZkDPPStatusLedger.sol with the status_* circuits: the     *)
(* ledger whose status is private.  It keeps no status of an object, only  *)
(* the roots of two sparse trees of statuses, one for notes and one for    *)
(* vouchers, indexed like the commitment trees.  A spender proves of one   *)
(* index that its commitment is a leaf there, under any root the tree ever *)
(* had, and that the status there is ACTIVE, under the current root.       *)
(*                                                                         *)
(* A commitment is the record that opens it, a status root the statuses    *)
(* that are not ACTIVE (StatusTree).  Amounts and documents are left out:  *)
(* Assets and Circuits treat the constraints on them.                      *)
(***************************************************************************)
EXTENDS Naturals, FiniteSets, SequencesExt

CONSTANTS
  Users,            \* owners; an address is named by its owner
  Openings,         \* commitment randomness
  DeltaEpochs,      \* epochs a sender may leave itself for a recall
  ProcessInputs,    \* inputs of Process, 3
  Scopes,           \* owners that policies are granted to in an instance
  EntryNotes,       \* notes entered in an instance
  MaxLeaves,        \* 2^TREE_DEPTH leaves
  MaxTransactions,  \* bound on the transactions of an instance
  MaxUpdates,       \* bound on the status updates of an instance
  MaxEpoch          \* bound on the epoch of an instance

VARIABLES
  epoch,              \* block.timestamp / EPOCH_SIZE
  noteTree,           \* leaves of the note tree, in order
  voucherTree,        \* leaves of the voucher tree, in order
  noteStatusRoot,     \* index -> status, where it is not ACTIVE
  voucherStatusRoot,
  noteNullifiers,
  voucherNullifiers,
  granted,            \* scopes that some enabled PROCESS policy is granted to
  transactions,       \* the accepted events, as the chain keeps them
  updates             \* number of status updates

statusVars == <<epoch, noteTree, voucherTree, noteStatusRoot, voucherStatusRoot,
                noteNullifiers, voucherNullifiers, granted, transactions, updates>>

trees    == <<noteTree, voucherTree, noteNullifiers, voucherNullifiers, transactions>>
statuses == <<noteStatusRoot, voucherStatusRoot, updates>>

Roles == {"ELIGIBLE", "WASTE"}

Notes == [role : Roles, owner : Users, opening : Openings]

Vouchers == [role : Roles, sender : Users, receiver : Users,
             deadline : 0..MaxEpoch + Max(DeltaEpochs \cup {0}), opening : Openings]

Note(role, owner, opening) == [role |-> role, owner |-> owner, opening |-> opening]

Nullifier(n)        == [cm |-> n, sk |-> n.owner]
VoucherNullifier(v) == [rv |-> v, opening |-> v.opening]

-----------------------------------------------------------------------------
\* AssertStatusActive, of an index of a status tree.
ActiveAt(root, index) == index \notin DOMAIN root

\* Mutant: the index of the status path is not that of the membership path.
ActiveElsewhere(tree, root, indices) ==
  /\ indices \subseteq DOMAIN tree
  /\ \A index \in indices : \E other \in DOMAIN tree : ActiveAt(root, other)

\* Leaves of the commitment tree, each active at its own index.
ActiveLeaves(tree, root, indices) ==
  /\ indices \subseteq DOMAIN tree
  /\ \A index \in indices : ActiveAt(root, index)

\* AssertStatusRoot of the old root, and the root with one status replaced.
StatusAt(root, index) == IF index \in DOMAIN root THEN root[index] ELSE "ACTIVE"

WithStatus(root, index, status) ==
  LET others == DOMAIN root \ {index} IN
    [i \in IF status = "ACTIVE" THEN others ELSE others \cup {index} |->
       IF i = index THEN status ELSE root[i]]

AllowedStatus == {<<"ACTIVE", "FROZEN">>, <<"FROZEN", "ACTIVE">>, <<"FROZEN", "REVOKED">>}

-----------------------------------------------------------------------------
StatusInit ==
  /\ epoch = 0
  /\ noteTree = <<>> /\ voucherTree = <<>>
  /\ noteStatusRoot = <<>> /\ voucherStatusRoot = <<>>
  /\ noteNullifiers = {} /\ voucherNullifiers = {}
  /\ granted = {}
  /\ transactions = <<>> /\ updates = 0

\* What the events share, the inputs given by their indices: fresh nullifiers,
\* active inputs, new outputs, room in the trees.
Accept(kind, ns, vs, outNotes, outVouchers) ==
  LET notesIn    == {noteTree[i] : i \in ns}
      vouchersIn == {voucherTree[i] : i \in vs}
  IN
    /\ Len(transactions) < MaxTransactions
    /\ ActiveLeaves(noteTree, noteStatusRoot, ns)
    /\ ActiveLeaves(voucherTree, voucherStatusRoot, vs)
    /\ \A n \in notesIn : Nullifier(n) \notin noteNullifiers
    /\ \A v \in vouchersIn : VoucherNullifier(v) \notin voucherNullifiers
    /\ IsInjective(noteTree \o outNotes) /\ IsInjective(voucherTree \o outVouchers)
    /\ Len(noteTree) + Len(outNotes) <= MaxLeaves
    /\ Len(voucherTree) + Len(outVouchers) <= MaxLeaves
    /\ noteNullifiers' = noteNullifiers \cup {Nullifier(n) : n \in notesIn}
    /\ voucherNullifiers' = voucherNullifiers
                              \cup {VoucherNullifier(v) : v \in vouchersIn}
    /\ noteTree' = noteTree \o outNotes
    /\ voucherTree' = voucherTree \o outVouchers
    /\ transactions' = Append(transactions,
         [kind |-> kind, epoch |-> epoch, inputs |-> notesIn \cup vouchersIn,
          outputs |-> Range(outNotes) \cup Range(outVouchers)])
    /\ UNCHANGED <<epoch, statuses, granted>>

NextEpoch ==
  /\ epoch < MaxEpoch
  /\ epoch' = epoch + 1
  /\ UNCHANGED <<trees, statuses, granted>>

Entry(n) ==
  Accept("entry", {}, {}, <<n>>, <<>>)

Exit(i) ==
  Accept("exit", {i}, {}, <<>>, <<>>)

\* The deadline is in the voucher, computed from the epoch the ledger checks.
Transfer(i, v, opening) ==
  LET n == noteTree[i] IN
    /\ v.role = n.role
    /\ v.sender = n.owner
    /\ \E delta \in DeltaEpochs : v.deadline = epoch + delta
    /\ Accept("transfer", {i}, {}, <<Note(n.role, n.owner, opening)>>, <<v>>)

Proceed(i, opening) ==
  LET v == voucherTree[i] IN
    Accept("proceed", {}, {i}, <<Note(v.role, v.receiver, opening)>>, <<>>)

\* Mutant: recall in the deadline's epoch too.
RecallAtDeadline(i, opening) ==
  LET v == voucherTree[i] IN
    /\ epoch <= v.deadline
    /\ Accept("recall", {}, {i}, <<Note(v.role, v.sender, opening)>>, <<>>)

Recall(i, opening) ==
  LET v == voucherTree[i] IN
    /\ epoch + 1 <= v.deadline
    /\ Accept("recall", {}, {i}, <<Note(v.role, v.sender, opening)>>, <<>>)

Merge(i, j, opening) ==
  LET n1 == noteTree[i]
      n2 == noteTree[j]
  IN /\ Nullifier(n1) # Nullifier(n2)
     /\ n1.owner = n2.owner
     /\ n1.role = n2.role
     /\ Accept("merge", {i, j}, {}, <<Note(n1.role, n1.owner, opening)>>, <<>>)

Split(i, opening1, opening2) ==
  LET n == noteTree[i] IN
    Accept("split", {i}, {},
           <<Note(n.role, n.owner, opening1), Note(n.role, n.owner, opening2)>>, <<>>)

\* Eligible notes of one owner become an eligible one and waste, under a policy
\* granted to the owner's scope.
Process(is, opening1, opening2) ==
  LET owner == noteTree[CHOOSE i \in is : TRUE].owner IN
    /\ owner \in granted
    /\ Cardinality({Nullifier(noteTree[i]) : i \in is}) = ProcessInputs
    /\ \A i \in is : noteTree[i].owner = owner /\ noteTree[i].role = "ELIGIBLE"
    /\ Accept("process", is, {},
              <<Note("ELIGIBLE", owner, opening1), Note("WASTE", owner, opening2)>>, <<>>)

\* updateStatus of a note, spent or not, by the status authority.
UpdateNoteStatus(index, new) ==
  LET old == StatusAt(noteStatusRoot, index) IN
    /\ updates < MaxUpdates
    /\ index \in DOMAIN noteTree
    /\ <<old, new>> \in AllowedStatus
    /\ noteStatusRoot' = WithStatus(noteStatusRoot, index, new)
    /\ updates' = updates + 1
    /\ UNCHANGED <<epoch, trees, voucherStatusRoot, granted>>

UpdateVoucherStatus(index, new) ==
  LET old == StatusAt(voucherStatusRoot, index) IN
    /\ updates < MaxUpdates
    /\ index \in DOMAIN voucherTree
    /\ <<old, new>> \in AllowedStatus
    /\ voucherStatusRoot' = WithStatus(voucherStatusRoot, index, new)
    /\ updates' = updates + 1
    /\ UNCHANGED <<epoch, trees, noteStatusRoot, granted>>

\* The registry of PROCESS policies, as far as process reads it: the scopes that
\* an enabled policy is granted to (PolicyRegistry has the whole of it).
SetGranted(scopes) ==
  /\ granted' = scopes
  /\ UNCHANGED <<epoch, trees, statuses>>

StatusNext ==
  \/ NextEpoch
  \/ \E n \in EntryNotes \cap Notes : Entry(n)
  \/ \E i \in DOMAIN noteTree :
       \/ Exit(i)
       \/ \E v \in Vouchers, opening \in Openings : Transfer(i, v, opening)
       \/ \E opening1, opening2 \in Openings : Split(i, opening1, opening2)
       \/ \E j \in DOMAIN noteTree, opening \in Openings : Merge(i, j, opening)
       \/ \E new \in {"ACTIVE", "FROZEN", "REVOKED"} : UpdateNoteStatus(i, new)
  \/ \E i \in DOMAIN voucherTree :
       \/ \E opening \in Openings : Proceed(i, opening) \/ Recall(i, opening)
       \/ \E new \in {"ACTIVE", "FROZEN", "REVOKED"} : UpdateVoucherStatus(i, new)
  \/ \E is \in (SUBSET DOMAIN noteTree) \ {{}}, opening1, opening2 \in Openings :
       Process(is, opening1, opening2)
  \/ \E scopes \in SUBSET Scopes : SetGranted(scopes)

StatusSpec == StatusInit /\ [][StatusNext]_statusVars

-----------------------------------------------------------------------------
Spent == {n \in Range(noteTree) : Nullifier(n) \in noteNullifiers}
           \cup {v \in Range(voucherTree) : VoucherNullifier(v) \in voucherNullifiers}

\* The leaves of a tree with one of these statuses.
Marked(tree, root, statusesHeld) ==
  {tree[i] : i \in {j \in DOMAIN root : root[j] \in statusesHeld}}

Held(statusesHeld) ==
  (Marked(noteTree, noteStatusRoot, statusesHeld)
    \cup Marked(voucherTree, voucherStatusRoot, statusesHeld)) \ Spent

Objects == Notes \cup Vouchers

\* What the transactions consumed and created.
Events == [i \in DOMAIN transactions |-> [inputs  |-> transactions[i].inputs,
                                         outputs |-> transactions[i].outputs]]

StatusFlow == INSTANCE AssetFlow WITH
  Spendable <- Objects,
  events    <- Events,
  blocked   <- Held({"FROZEN", "REVOKED"}),
  revoked   <- Held({"REVOKED"})

\* Two status roots and two nullifier sets do what a status per object would:
\* an object whose status the authority set is not consumed before it is active
\* again, never when it was revoked, and every other object only once.  A
\* status update of a spent object is accepted and changes nothing.
StatusImplementsFlow == StatusFlow!Spec

\* A recall is accepted only before the deadline of the voucher it takes back, the
\* one its transfer's epoch and the sender's choice gave it; the ledger never sees
\* that deadline.
RecallsAreInTime ==
  \A i \in DOMAIN transactions : transactions[i].kind = "recall" =>
    \A v \in transactions[i].inputs :
      \E j \in 1..(i - 1), delta \in DeltaEpochs :
        /\ transactions[j].kind = "transfer" /\ v \in transactions[j].outputs
        /\ v.deadline = transactions[j].epoch + delta
        /\ transactions[i].epoch < v.deadline
=============================================================================
