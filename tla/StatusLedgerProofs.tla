-------------------------- MODULE StatusLedgerProofs --------------------------
(***************************************************************************)
(* The ledger with private status implements AssetFlow and its recalls are *)
(* in time, for any users, openings, deadlines and bounds.                 *)
(***************************************************************************)
EXTENDS StatusLedger, FlowHistory

Steps == DOMAIN transactions

\* The trees hold notes and vouchers, each once; the roots have the statuses of
\* leaves, those that are not ACTIVE, and only leaves are spent.
TreesOK ==
  /\ noteTree \in Seq(Notes) /\ IsInjective(noteTree)
  /\ voucherTree \in Seq(Vouchers) /\ IsInjective(voucherTree)
  /\ DOMAIN noteStatusRoot \subseteq DOMAIN noteTree
  /\ DOMAIN voucherStatusRoot \subseteq DOMAIN voucherTree
  /\ \A x : Nullifier(x) \in noteNullifiers => x \in Range(noteTree)
  /\ \A x : VoucherNullifier(x) \in voucherNullifiers => x \in Range(voucherTree)

Leaves == Range(noteTree) \cup Range(voucherTree)

\* The leaves are what the transactions created, and what they consumed is spent.
HistoryOK ==
  /\ Len(transactions) \in Nat /\ Steps = 1..Len(transactions)
  /\ transactions = [i \in Steps |-> transactions[i]]
  /\ UNION {transactions[i].outputs : i \in Steps} = Leaves
  /\ \A i \in Steps : transactions[i].inputs \subseteq Spent

\* A voucher has the deadline that the transfer which created it gave it.
DatesOK ==
  /\ epoch \in Nat
  /\ \A v \in Range(voucherTree) : \E j \in Steps, delta \in DeltaEpochs :
       /\ transactions[j].kind = "transfer"
       /\ v \in transactions[j].outputs
       /\ v.deadline = transactions[j].epoch + delta

StatusInv == TreesOK /\ HistoryOK /\ DatesOK /\ RecallsAreInTime

NotesAt(ns)    == {noteTree[i] : i \in ns}
VouchersAt(vs) == {voucherTree[i] : i \in vs}

\* What every event does.
Moves(kind, ns, vs, outNotes, outVouchers) ==
  /\ outNotes \in Seq(Notes) /\ outVouchers \in Seq(Vouchers)
  /\ \A v \in Range(outVouchers) :
       kind = "transfer" /\ \E delta \in DeltaEpochs : v.deadline = epoch + delta
  /\ kind = "recall" => ns = {} /\ \E i : vs = {i} /\ epoch < voucherTree[i].deadline
  /\ Accept(kind, ns, vs, outNotes, outVouchers)

Moved == \E kind, ns, vs, outNotes, outVouchers :
           Moves(kind, ns, vs, outNotes, outVouchers)

\* What a status update does, of a note or of a voucher.
Updated ==
  \/ \E index, new : UpdateNoteStatus(index, new)
  \/ \E index, new : UpdateVoucherStatus(index, new)

Untouched ==
  /\ UNCHANGED <<trees, statuses>>
  /\ epoch' \in {epoch, epoch + 1}

-----------------------------------------------------------------------------
\* A note is no voucher: their records have different fields.
LEMMA KindsDiffer == Notes \cap Vouchers = {}
<1>1. \A n \in Notes : "owner" \in DOMAIN n
  BY DEF Notes
<1>2. \A v \in Vouchers : "owner" \notin DOMAIN v
  BY DEF Vouchers
<1> QED
  BY <1>1, <1>2

\* The circuits make notes of the owner of a note, the sender or the receiver of
\* a voucher.
LEMMA OutputsTyped ==
  ASSUME NEW opening \in Openings
  PROVE  /\ \A n \in Notes : Note(n.role, n.owner, opening) \in Notes
         /\ \A n \in Notes : Note("ELIGIBLE", n.owner, opening) \in Notes
         /\ \A n \in Notes : Note("WASTE", n.owner, opening) \in Notes
         /\ \A v \in Vouchers : /\ Note(v.role, v.sender, opening) \in Notes
                                /\ Note(v.role, v.receiver, opening) \in Notes
  BY DEF Note, Notes, Vouchers, Roles

LEMMA StatusSteps ==
  ASSUME StatusInv, [StatusNext]_statusVars
  PROVE  Moved \/ Updated \/ Untouched
<1>0. /\ \A i \in DOMAIN noteTree : noteTree[i] \in Notes
      /\ \A i \in DOMAIN voucherTree : voucherTree[i] \in Vouchers
  BY DEF StatusInv, TreesOK
<1>1. ASSUME NEW n \in Notes, Entry(n)
      PROVE  Moved
  <2>1. Moves("entry", {}, {}, <<n>>, <<>>)
    BY <1>1 DEF Entry, Moves, Range
  <2> QED
    BY <2>1 DEF Moved
<1>2. ASSUME NEW i, Exit(i)
      PROVE  Moved
  <2>1. Moves("exit", {i}, {}, <<>>, <<>>)
    BY <1>2 DEF Exit, Moves, Range
  <2> QED
    BY <2>1 DEF Moved
<1>3. ASSUME NEW i \in DOMAIN noteTree, NEW v \in Vouchers, NEW opening \in Openings,
             Transfer(i, v, opening)
      PROVE  Moved
  <2>1. PICK n : n = noteTree[i]
    OBVIOUS
  <2>2. Note(n.role, n.owner, opening) \in Notes
    BY <1>0, <2>1, OutputsTyped
  <2>3. Moves("transfer", {i}, {}, <<Note(n.role, n.owner, opening)>>, <<v>>)
    BY <1>3, <2>1, <2>2 DEF Transfer, Moves, Range
  <2> QED
    BY <2>3 DEF Moved
<1>4. ASSUME NEW i \in DOMAIN voucherTree, NEW opening \in Openings, Proceed(i, opening)
      PROVE  Moved
  <2>1. PICK v : v = voucherTree[i]
    OBVIOUS
  <2>2. Note(v.role, v.receiver, opening) \in Notes
    BY <1>0, <2>1, OutputsTyped
  <2>3. Moves("proceed", {}, {i}, <<Note(v.role, v.receiver, opening)>>, <<>>)
    BY <1>4, <2>1, <2>2 DEF Proceed, Moves, Range
  <2> QED
    BY <2>3 DEF Moved
<1>5. ASSUME NEW i \in DOMAIN voucherTree, NEW opening \in Openings, Recall(i, opening)
      PROVE  Moved
  <2>1. PICK v : v = voucherTree[i]
    OBVIOUS
  <2>2. Note(v.role, v.sender, opening) \in Notes
    BY <1>0, <2>1, OutputsTyped
  <2>3. Moves("recall", {}, {i}, <<Note(v.role, v.sender, opening)>>, <<>>)
    <3>1. epoch < v.deadline
      <4>1. v \in Vouchers /\ epoch \in Nat /\ epoch + 1 <= v.deadline
        BY <1>0, <1>5, <2>1 DEF Recall, StatusInv, DatesOK
      <4>2. v.deadline \in Int
        BY <4>1 DEF Vouchers
      <4> QED
        BY <4>1, <4>2
    <3>2. Accept("recall", {}, {i}, <<Note(v.role, v.sender, opening)>>, <<>>)
      BY <1>5, <2>1 DEF Recall
    <3> QED
      BY <2>1, <2>2, <3>1, <3>2 DEF Moves, Range
  <2> QED
    BY <2>3 DEF Moved
<1>6. ASSUME NEW i \in DOMAIN noteTree, NEW j, NEW opening \in Openings,
             Merge(i, j, opening)
      PROVE  Moved
  <2>1. PICK n : n = noteTree[i]
    OBVIOUS
  <2>2. Note(n.role, n.owner, opening) \in Notes
    BY <1>0, <2>1, OutputsTyped
  <2>3. Moves("merge", {i, j}, {}, <<Note(n.role, n.owner, opening)>>, <<>>)
    BY <1>6, <2>1, <2>2 DEF Merge, Moves, Range
  <2> QED
    BY <2>3 DEF Moved
<1>7. ASSUME NEW i \in DOMAIN noteTree, NEW opening1 \in Openings, NEW opening2 \in Openings,
             Split(i, opening1, opening2)
      PROVE  Moved
  <2>1. PICK n : n = noteTree[i]
    OBVIOUS
  <2>2. /\ Note(n.role, n.owner, opening1) \in Notes
        /\ Note(n.role, n.owner, opening2) \in Notes
    BY <1>0, <2>1, OutputsTyped
  <2>3. Moves("split", {i}, {},
              <<Note(n.role, n.owner, opening1), Note(n.role, n.owner, opening2)>>, <<>>)
    BY <1>7, <2>1, <2>2 DEF Split, Moves, Range
  <2> QED
    BY <2>3 DEF Moved
<1>8. ASSUME NEW is \in (SUBSET DOMAIN noteTree) \ {{}}, NEW opening1 \in Openings,
             NEW opening2 \in Openings, Process(is, opening1, opening2)
      PROVE  Moved
  <2>1. PICK n : n = noteTree[CHOOSE i \in is : TRUE]
    OBVIOUS
  <2>2. n \in Notes
    <3>1. \E i \in is : TRUE
      OBVIOUS
    <3>2. (CHOOSE i \in is : TRUE) \in is
      BY <3>1
    <3> QED
      BY <1>0, <2>1, <3>2
  <2>3. /\ Note("ELIGIBLE", n.owner, opening1) \in Notes
        /\ Note("WASTE", n.owner, opening2) \in Notes
    BY <2>2, OutputsTyped
  <2>4. Moves("process", is, {},
              <<Note("ELIGIBLE", n.owner, opening1), Note("WASTE", n.owner, opening2)>>, <<>>)
    BY <1>8, <2>1, <2>3 DEF Process, Moves, Range
  <2> QED
    BY <2>4 DEF Moved
<1>9. ASSUME NEW scopes, SetGranted(scopes)
      PROVE  Untouched
  BY <1>9 DEF SetGranted, Untouched, trees, statuses
<1>10. CASE NextEpoch
  BY <1>10 DEF NextEpoch, Untouched, trees, statuses
<1>11. CASE UNCHANGED statusVars
  BY <1>11 DEF statusVars, Untouched, trees, statuses
<1>12. CASE StatusNext
  <2>1. \A i, new : UpdateNoteStatus(i, new) \/ UpdateVoucherStatus(i, new) => Updated
    BY DEF Updated
  <2> QED
    BY <1>1, <1>2, <1>3, <1>4, <1>5, <1>6, <1>7, <1>8, <1>9, <1>10, <1>12, <2>1
       DEF StatusNext
<1> QED
  BY <1>11, <1>12

-----------------------------------------------------------------------------
\* Nullifiers name their note or voucher.
LEMMA NullifiersInjective ==
  /\ \A x, y : Nullifier(x) = Nullifier(y) => x = y
  /\ \A x, y : VoucherNullifier(x) = VoucherNullifier(y) => x = y
<1>1. \A x : Nullifier(x).cm = x /\ VoucherNullifier(x).rv = x
  BY DEF Nullifier, VoucherNullifier
<1> QED
  BY <1>1

LEMMA LeavesTyped ==
  ASSUME TreesOK
  PROVE  /\ Range(noteTree) \subseteq Notes /\ Range(voucherTree) \subseteq Vouchers
         /\ Range(noteTree) \cap Range(voucherTree) = {}
<1>1. Range(noteTree) \subseteq Notes /\ Range(voucherTree) \subseteq Vouchers
  BY RangeOfSeq DEF TreesOK
<1> QED
  BY <1>1, KindsDiffer

\* What a move does to the trees and the nullifiers.
LEMMA MoveTrees ==
  ASSUME TreesOK, NEW kind, NEW ns, NEW vs, NEW outNotes, NEW outVouchers,
         Moves(kind, ns, vs, outNotes, outVouchers),
         NEW notesIn, notesIn = NotesAt(ns),
         NEW vouchersIn, vouchersIn = VouchersAt(vs)
  PROVE  /\ ns \subseteq DOMAIN noteTree /\ vs \subseteq DOMAIN voucherTree
         /\ notesIn \subseteq Range(noteTree) /\ vouchersIn \subseteq Range(voucherTree)
         /\ noteTree' \in Seq(Notes) /\ IsInjective(noteTree')
         /\ voucherTree' \in Seq(Vouchers) /\ IsInjective(voucherTree')
         /\ \A i \in DOMAIN noteTree : i \in DOMAIN noteTree' /\ noteTree'[i] = noteTree[i]
         /\ \A i \in DOMAIN voucherTree :
              i \in DOMAIN voucherTree' /\ voucherTree'[i] = voucherTree[i]
         /\ Range(noteTree)' = Range(noteTree) \cup Range(outNotes)
         /\ Range(voucherTree)' = Range(voucherTree) \cup Range(outVouchers)
         /\ Range(noteTree) \cap Range(outNotes) = {}
         /\ Range(voucherTree) \cap Range(outVouchers) = {}
         /\ Range(outNotes) \subseteq Notes /\ Range(outVouchers) \subseteq Vouchers
<1>1. /\ ns \subseteq DOMAIN noteTree /\ vs \subseteq DOMAIN voucherTree
      /\ outNotes \in Seq(Notes) /\ outVouchers \in Seq(Vouchers)
      /\ IsInjective(noteTree \o outNotes) /\ IsInjective(voucherTree \o outVouchers)
      /\ noteTree' = noteTree \o outNotes /\ voucherTree' = voucherTree \o outVouchers
  BY DEF Moves, Accept, ActiveLeaves
<1>2. noteTree \in Seq(Notes) /\ voucherTree \in Seq(Vouchers)
  BY DEF TreesOK
<1>3. /\ noteTree' \in Seq(Notes)
      /\ DOMAIN noteTree \subseteq DOMAIN noteTree'
      /\ \A i \in DOMAIN noteTree : noteTree'[i] = noteTree[i]
      /\ Range(noteTree') = Range(noteTree) \cup Range(outNotes)
      /\ Range(noteTree) \cap Range(outNotes) = {}
  BY <1>1, <1>2, InjectiveConcat
<1>4. /\ voucherTree' \in Seq(Vouchers)
      /\ DOMAIN voucherTree \subseteq DOMAIN voucherTree'
      /\ \A i \in DOMAIN voucherTree : voucherTree'[i] = voucherTree[i]
      /\ Range(voucherTree') = Range(voucherTree) \cup Range(outVouchers)
      /\ Range(voucherTree) \cap Range(outVouchers) = {}
  BY <1>1, <1>2, InjectiveConcat
<1>5. Range(outNotes) \subseteq Notes /\ Range(outVouchers) \subseteq Vouchers
  BY <1>1, RangeOfSeq
<1>6. notesIn \subseteq Range(noteTree) /\ vouchersIn \subseteq Range(voucherTree)
  BY <1>1 DEF Range, NotesAt, VouchersAt
<1>7. IsInjective(noteTree') /\ IsInjective(voucherTree')
  BY <1>1
<1> QED
  BY <1>1, <1>3, <1>4, <1>5, <1>6, <1>7

\* A move spends its inputs, which were unspent leaves, and nothing else.
LEMMA MoveSpends ==
  ASSUME TreesOK, NEW kind, NEW ns, NEW vs, NEW outNotes, NEW outVouchers,
         Moves(kind, ns, vs, outNotes, outVouchers),
         NEW notesIn, notesIn = NotesAt(ns),
         NEW vouchersIn, vouchersIn = VouchersAt(vs)
  PROVE  /\ (notesIn \cup vouchersIn) \cap Spent = {}
         /\ Spent' = Spent \cup notesIn \cup vouchersIn
         /\ \A x : Nullifier(x) \in noteNullifiers' => x \in Range(noteTree)
         /\ \A x : VoucherNullifier(x) \in voucherNullifiers' => x \in Range(voucherTree)
<1>1. /\ notesIn \subseteq Range(noteTree) /\ vouchersIn \subseteq Range(voucherTree)
      /\ Range(noteTree)' = Range(noteTree) \cup Range(outNotes)
      /\ Range(voucherTree)' = Range(voucherTree) \cup Range(outVouchers)
      /\ Range(noteTree) \cap Range(outNotes) = {}
      /\ Range(voucherTree) \cap Range(outVouchers) = {}
  BY MoveTrees
<1>2. /\ \A n \in notesIn : Nullifier(n) \notin noteNullifiers
      /\ \A v \in vouchersIn : VoucherNullifier(v) \notin voucherNullifiers
      /\ noteNullifiers' = noteNullifiers \cup {Nullifier(n) : n \in notesIn}
      /\ voucherNullifiers' = voucherNullifiers \cup {VoucherNullifier(v) : v \in vouchersIn}
  BY DEF Moves, Accept, NotesAt, VouchersAt
<1>3. /\ \A x : Nullifier(x) \in noteNullifiers'
                <=> Nullifier(x) \in noteNullifiers \/ x \in notesIn
      /\ \A x : VoucherNullifier(x) \in voucherNullifiers'
                <=> VoucherNullifier(x) \in voucherNullifiers \/ x \in vouchersIn
  BY <1>2, NullifiersInjective
<1>4. /\ \A x : Nullifier(x) \in noteNullifiers => x \in Range(noteTree)
      /\ \A x : VoucherNullifier(x) \in voucherNullifiers => x \in Range(voucherTree)
  BY DEF TreesOK
<1>5. (notesIn \cup vouchersIn) \cap Spent = {}
  BY <1>1, <1>2, LeavesTyped DEF Spent
<1>6. ASSUME NEW x
      PROVE  x \in Spent' <=> x \in Spent \cup notesIn \cup vouchersIn
  BY <1>1, <1>3, <1>4 DEF Spent
<1>7. /\ \A x : Nullifier(x) \in noteNullifiers' => x \in Range(noteTree)
      /\ \A x : VoucherNullifier(x) \in voucherNullifiers' => x \in Range(voucherTree)
  BY <1>1, <1>3, <1>4
<1>8. Spent' = Spent \cup notesIn \cup vouchersIn
  BY <1>6
<1> QED
  BY <1>5, <1>7, <1>8

\* The inputs of a move are not held, and it leaves alone what is.
LEMMA MoveHolds ==
  ASSUME TreesOK, NEW kind, NEW ns, NEW vs, NEW outNotes, NEW outVouchers,
         Moves(kind, ns, vs, outNotes, outVouchers),
         NEW notesIn, notesIn = NotesAt(ns),
         NEW vouchersIn, vouchersIn = VouchersAt(vs),
         NEW S
  PROVE  /\ (notesIn \cup vouchersIn) \cap Held(S) = {}
         /\ Held(S)' = Held(S)
<1>1. /\ ns \subseteq DOMAIN noteTree /\ vs \subseteq DOMAIN voucherTree
      /\ notesIn \subseteq Range(noteTree) /\ vouchersIn \subseteq Range(voucherTree)
      /\ \A i \in DOMAIN noteTree : i \in DOMAIN noteTree' /\ noteTree'[i] = noteTree[i]
      /\ \A i \in DOMAIN voucherTree :
           i \in DOMAIN voucherTree' /\ voucherTree'[i] = voucherTree[i]
  BY MoveTrees
<1>2. /\ \A i \in ns : i \notin DOMAIN noteStatusRoot
      /\ \A i \in vs : i \notin DOMAIN voucherStatusRoot
      /\ UNCHANGED <<noteStatusRoot, voucherStatusRoot>>
  BY DEF Moves, Accept, ActiveLeaves, ActiveAt, statuses
<1>3. /\ IsInjective(noteTree) /\ IsInjective(voucherTree)
      /\ DOMAIN noteStatusRoot \subseteq DOMAIN noteTree
      /\ DOMAIN voucherStatusRoot \subseteq DOMAIN voucherTree
  BY DEF TreesOK
<1>4. /\ notesIn \cap Marked(noteTree, noteStatusRoot, S) = {}
      /\ vouchersIn \cap Marked(voucherTree, voucherStatusRoot, S) = {}
  BY <1>1, <1>2, <1>3 DEF Marked, IsInjective, NotesAt, VouchersAt
<1>5. /\ Marked(noteTree, noteStatusRoot, S) \subseteq Range(noteTree)
      /\ Marked(voucherTree, voucherStatusRoot, S) \subseteq Range(voucherTree)
  BY <1>3 DEF Marked, Range
<1>6. (notesIn \cup vouchersIn)
        \cap (Marked(noteTree, noteStatusRoot, S) \cup Marked(voucherTree, voucherStatusRoot, S)) = {}
  BY <1>1, <1>4, <1>5, LeavesTyped
<1>7. /\ Marked(noteTree, noteStatusRoot, S)' = Marked(noteTree, noteStatusRoot, S)
      /\ Marked(voucherTree, voucherStatusRoot, S)' = Marked(voucherTree, voucherStatusRoot, S)
  BY <1>1, <1>2, <1>3 DEF Marked
<1>8. Spent' = Spent \cup notesIn \cup vouchersIn
  BY MoveSpends
<1>9. Held(S)' = Held(S)
  BY <1>6, <1>7, <1>8 DEF Held
<1> QED
  BY <1>6, <1>9 DEF Held

\* The event of AssetFlow a move is.
EventOf(ns, vs, outNotes, outVouchers) ==
  [inputs  |-> NotesAt(ns) \cup VouchersAt(vs),
   outputs |-> Range(outNotes) \cup Range(outVouchers)]

\* A move appends its event to the history.
LEMMA MoveAppended ==
  ASSUME HistoryOK, NEW kind, NEW ns, NEW vs, NEW outNotes, NEW outVouchers,
         Moves(kind, ns, vs, outNotes, outVouchers),
         NEW n, n = Len(transactions) + 1,
         NEW event, event = EventOf(ns, vs, outNotes, outVouchers)
  PROVE  /\ n \in Nat \ {0} /\ Steps = 1..(n - 1) /\ Steps' = 1..n
         /\ Len(transactions') = n
         /\ transactions' = [i \in Steps' |-> transactions'[i]]
         /\ transactions'[n].kind = kind
         /\ transactions'[n].epoch = epoch
         /\ transactions'[n].inputs = event.inputs
         /\ transactions'[n].outputs = event.outputs
         /\ \A i \in Steps : transactions'[i] = transactions[i]
<1>1. PICK t : /\ t = [kind |-> kind, epoch |-> epoch, inputs |-> event.inputs,
                       outputs |-> event.outputs]
               /\ transactions' = Append(transactions, t)
  BY DEF Moves, Accept, EventOf, NotesAt, VouchersAt
<1>2. /\ t.kind = kind /\ t.epoch = epoch
      /\ t.inputs = event.inputs /\ t.outputs = event.outputs
  BY <1>1
<1>3. n - 1 \in Nat /\ (n - 1) + 1 = n /\ n \in Nat \ {0} /\ Len(transactions) = n - 1
      /\ Steps = 1..(n - 1) /\ transactions = [i \in 1..(n - 1) |-> transactions[i]]
  <2>1. /\ Len(transactions) \in Nat /\ Steps = 1..Len(transactions)
        /\ transactions = [i \in Steps |-> transactions[i]]
    BY DEF HistoryOK
  <2>2. n - 1 = Len(transactions)
    BY <2>1
  <2> QED
    BY <2>1, <2>2
<1>4. PICK T : T = {transactions[i] : i \in 1..(n - 1)} \cup {t}
  OBVIOUS
<1>5. transactions \in Seq(T) /\ t \in T
  <2>1. \A i \in 1..(n - 1) : transactions[i] \in T
    BY <1>4
  <2> QED
    BY <1>3, <1>4, <2>1, FunctionIsSequence
<1>6. /\ transactions' \in Seq(T) /\ Len(transactions') = n
      /\ \A i \in 1..(n - 1) : transactions'[i] = transactions[i]
      /\ transactions'[n] = t
  BY <1>1, <1>3, <1>5, AppendProperties
<1>7. Steps' = 1..n /\ transactions' = [i \in 1..n |-> transactions'[i]]
  BY <1>3, <1>6 DEF Steps
<1> QED
  BY <1>2, <1>3, <1>6, <1>7

\* A move keeps the invariant.
LEMMA MoveInductive ==
  ASSUME StatusInv, NEW kind, NEW ns, NEW vs, NEW outNotes, NEW outVouchers,
         Moves(kind, ns, vs, outNotes, outVouchers)
  PROVE  StatusInv'
<1>1. PICK n, event, notesIn, vouchersIn :
        /\ n = Len(transactions) + 1
        /\ event = EventOf(ns, vs, outNotes, outVouchers)
        /\ notesIn = NotesAt(ns) /\ vouchersIn = VouchersAt(vs)
  OBVIOUS
<1>2. TreesOK /\ HistoryOK /\ DatesOK /\ RecallsAreInTime
  BY DEF StatusInv
<1>3. /\ ns \subseteq DOMAIN noteTree /\ vs \subseteq DOMAIN voucherTree
      /\ notesIn \subseteq Range(noteTree) /\ vouchersIn \subseteq Range(voucherTree)
      /\ noteTree' \in Seq(Notes) /\ IsInjective(noteTree')
      /\ voucherTree' \in Seq(Vouchers) /\ IsInjective(voucherTree')
      /\ \A i \in DOMAIN noteTree : i \in DOMAIN noteTree' /\ noteTree'[i] = noteTree[i]
      /\ \A i \in DOMAIN voucherTree :
           i \in DOMAIN voucherTree' /\ voucherTree'[i] = voucherTree[i]
      /\ Range(noteTree)' = Range(noteTree) \cup Range(outNotes)
      /\ Range(voucherTree)' = Range(voucherTree) \cup Range(outVouchers)
  BY <1>1, <1>2, MoveTrees
<1>4. /\ Spent' = Spent \cup notesIn \cup vouchersIn
      /\ \A x : Nullifier(x) \in noteNullifiers' => x \in Range(noteTree)
      /\ \A x : VoucherNullifier(x) \in voucherNullifiers' => x \in Range(voucherTree)
  BY <1>1, <1>2, MoveSpends
<1>5. /\ n \in Nat \ {0} /\ Steps = 1..(n - 1) /\ Steps' = 1..n
      /\ Len(transactions') = n
      /\ transactions' = [i \in Steps' |-> transactions'[i]]
      /\ transactions'[n].kind = kind
      /\ transactions'[n].epoch = epoch
      /\ transactions'[n].inputs = event.inputs
      /\ transactions'[n].outputs = event.outputs
      /\ \A i \in Steps : transactions'[i] = transactions[i]
  BY <1>1, <1>2, MoveAppended
<1>6. /\ event.inputs = notesIn \cup vouchersIn
      /\ event.outputs = Range(outNotes) \cup Range(outVouchers)
  BY <1>1 DEF EventOf
<1>7. /\ UNCHANGED <<epoch, noteStatusRoot, voucherStatusRoot>>
      /\ \A v \in Range(outVouchers) :
           kind = "transfer" /\ \E delta \in DeltaEpochs : v.deadline = epoch + delta
      /\ kind = "recall" => ns = {} /\ \E i : vs = {i} /\ epoch < voucherTree[i].deadline
  BY DEF Moves, Accept, statuses
<1>8. n \in Steps' /\ (\A i \in Steps : i \in Steps') /\ (\A i \in Steps : i < n)
      /\ \A i \in Steps' : i \in Steps \/ i = n
  BY <1>5
<1>9. TreesOK'
  <2>1. /\ DOMAIN noteStatusRoot' \subseteq DOMAIN noteTree'
        /\ DOMAIN voucherStatusRoot' \subseteq DOMAIN voucherTree'
    BY <1>2, <1>3, <1>7 DEF TreesOK
  <2>2. /\ \A x : Nullifier(x) \in noteNullifiers' => x \in Range(noteTree)'
        /\ \A x : VoucherNullifier(x) \in voucherNullifiers' => x \in Range(voucherTree)'
    BY <1>3, <1>4
  <2> QED
    BY <1>3, <2>1, <2>2 DEF TreesOK
<1>10. HistoryOK'
  <2>1. ASSUME NEW x
        PROVE  (\E i \in Steps' : x \in transactions'[i].outputs) <=> x \in Leaves'
    <3>1. (\E i \in Steps' : x \in transactions'[i].outputs)
            <=> (\E i \in Steps : x \in transactions[i].outputs) \/ x \in event.outputs
      BY <1>5, <1>8
    <3>2. (\E i \in Steps : x \in transactions[i].outputs) <=> x \in Leaves
      BY <1>2 DEF HistoryOK
    <3>3. Leaves' = Leaves \cup event.outputs
      BY <1>3, <1>6 DEF Leaves
    <3> QED
      BY <3>1, <3>2, <3>3
  <2>2. UNION {transactions'[i].outputs : i \in Steps'} = Leaves'
    BY <2>1
  <2>3. ASSUME NEW i \in Steps'
        PROVE  transactions'[i].inputs \subseteq Spent'
    <3>1. CASE i \in Steps
      BY <1>2, <1>4, <1>5, <3>1 DEF HistoryOK
    <3>2. CASE i = n
      BY <1>4, <1>5, <1>6, <3>2
    <3> QED
      BY <1>8, <3>1, <3>2
  <2> QED
    BY <1>5, <2>2, <2>3 DEF HistoryOK
<1>11. DatesOK'
  <2>1. ASSUME NEW v \in Range(voucherTree)'
        PROVE  \E j \in Steps', delta \in DeltaEpochs :
                 /\ transactions'[j].kind = "transfer"
                 /\ v \in transactions'[j].outputs
                 /\ v.deadline = transactions'[j].epoch + delta
    <3>1. CASE v \in Range(voucherTree)
      <4>1. PICK j \in Steps, delta \in DeltaEpochs :
              /\ transactions[j].kind = "transfer"
              /\ v \in transactions[j].outputs
              /\ v.deadline = transactions[j].epoch + delta
        BY <1>2, <3>1 DEF DatesOK
      <4> QED
        BY <1>5, <1>8, <4>1
    <3>2. CASE v \in Range(outVouchers)
      <4>1. PICK delta \in DeltaEpochs : v.deadline = epoch + delta
        BY <1>7, <3>2
      <4> QED
        BY <1>5, <1>6, <1>7, <1>8, <3>2, <4>1
    <3> QED
      BY <1>3, <3>1, <3>2
  <2> QED
    BY <1>2, <1>7, <2>1 DEF DatesOK
<1>12. RecallsAreInTime'
  <2>1. ASSUME NEW i \in Steps', transactions'[i].kind = "recall",
               NEW w \in transactions'[i].inputs
        PROVE  \E j \in 1..(i - 1), delta \in DeltaEpochs :
                 /\ transactions'[j].kind = "transfer" /\ w \in transactions'[j].outputs
                 /\ w.deadline = transactions'[j].epoch + delta
                 /\ transactions'[i].epoch < w.deadline
    <3>1. CASE i \in Steps
      <4>1. PICK j \in 1..(i - 1), delta \in DeltaEpochs :
              /\ transactions[j].kind = "transfer" /\ w \in transactions[j].outputs
              /\ w.deadline = transactions[j].epoch + delta
              /\ transactions[i].epoch < w.deadline
        BY <1>2, <1>5, <2>1, <3>1 DEF RecallsAreInTime, Steps
      <4>2. j \in Steps
        BY <1>5, <3>1, <4>1
      <4> QED
        BY <1>5, <3>1, <4>1, <4>2
    <3>2. CASE i = n
      <4>1. PICK k : ns = {} /\ vs = {k} /\ epoch < voucherTree[k].deadline
        BY <1>5, <1>7, <2>1, <3>2
      <4>2. PICK v : v = voucherTree[k]
        OBVIOUS
      <4>3. notesIn = {} /\ vouchersIn = {v}
        BY <1>1, <4>1, <4>2 DEF NotesAt, VouchersAt
      <4>4. v \in Range(voucherTree)
        BY <1>3, <4>3
      <4>5. PICK j \in Steps, delta \in DeltaEpochs :
              /\ transactions[j].kind = "transfer"
              /\ v \in transactions[j].outputs
              /\ v.deadline = transactions[j].epoch + delta
        BY <1>2, <4>4 DEF DatesOK
      <4>6. j \in 1..(i - 1)
        BY <1>5, <3>2, <4>5
      <4>7. transactions'[i].inputs = {v} /\ transactions'[i].epoch = epoch
        BY <1>5, <1>6, <3>2, <4>3
      <4>8. w = v
        BY <2>1, <4>7
      <4> QED
        BY <1>5, <4>1, <4>2, <4>5, <4>6, <4>7, <4>8
    <3> QED
      BY <1>8, <3>1, <3>2
  <2> QED
    BY <2>1 DEF RecallsAreInTime, Steps
<1> QED
  BY <1>9, <1>10, <1>11, <1>12 DEF StatusInv

LEMMA StatusInductive ==
  ASSUME StatusInv, [StatusNext]_statusVars
  PROVE  StatusInv'
<1>1. CASE Moved
  BY <1>1, MoveInductive DEF Moved
<1>2. ASSUME UNCHANGED trees, epoch' \in {epoch, epoch + 1},
             DOMAIN noteStatusRoot' \subseteq DOMAIN noteTree,
             DOMAIN voucherStatusRoot' \subseteq DOMAIN voucherTree
      PROVE  StatusInv'
  <2>1. TreesOK'
    BY <1>2 DEF StatusInv, TreesOK, trees
  <2>2. HistoryOK'
    BY <1>2 DEF StatusInv, HistoryOK, Steps, Leaves, Spent, trees
  <2>3. DatesOK'
    BY <1>2 DEF StatusInv, DatesOK, Steps, trees
  <2>4. RecallsAreInTime'
    BY <1>2 DEF StatusInv, RecallsAreInTime, trees
  <2> QED
    BY <2>1, <2>2, <2>3, <2>4 DEF StatusInv
<1>3. CASE Untouched
  <2>1. /\ UNCHANGED trees /\ epoch' \in {epoch, epoch + 1}
        /\ DOMAIN noteStatusRoot' \subseteq DOMAIN noteTree
        /\ DOMAIN voucherStatusRoot' \subseteq DOMAIN voucherTree
    BY <1>3 DEF Untouched, statuses, StatusInv, TreesOK
  <2> QED
    BY <1>2, <2>1
<1>4. ASSUME NEW index, NEW new, UpdateNoteStatus(index, new)
      PROVE  StatusInv'
  <2>1. /\ UNCHANGED trees /\ epoch' \in {epoch, epoch + 1}
        /\ DOMAIN noteStatusRoot' \subseteq DOMAIN noteTree
        /\ DOMAIN voucherStatusRoot' \subseteq DOMAIN voucherTree
    BY <1>4 DEF UpdateNoteStatus, WithStatus, StatusInv, TreesOK
  <2> QED
    BY <1>2, <2>1
<1>5. ASSUME NEW index, NEW new, UpdateVoucherStatus(index, new)
      PROVE  StatusInv'
  <2>1. /\ UNCHANGED trees /\ epoch' \in {epoch, epoch + 1}
        /\ DOMAIN noteStatusRoot' \subseteq DOMAIN noteTree
        /\ DOMAIN voucherStatusRoot' \subseteq DOMAIN voucherTree
    BY <1>5 DEF UpdateVoucherStatus, WithStatus, StatusInv, TreesOK
  <2> QED
    BY <1>2, <2>1
<1> QED
  BY <1>1, <1>3, <1>4, <1>5, StatusSteps DEF Updated

LEMMA StatusInvariant == StatusSpec => []StatusInv
<1>1. StatusInit => StatusInv
  <2> SUFFICES ASSUME StatusInit PROVE StatusInv
    OBVIOUS
  <2>1. TreesOK
    BY DEF StatusInit, TreesOK, IsInjective
  <2>2. Leaves = {} /\ Spent = {} /\ Steps = {} /\ Len(transactions) = 0
    BY DEF StatusInit, Leaves, Spent, Steps, Range
  <2>3. HistoryOK
    BY <2>2 DEF StatusInit, HistoryOK
  <2>4. DatesOK /\ RecallsAreInTime
    BY DEF StatusInit, DatesOK, RecallsAreInTime, Range
  <2> QED
    BY <2>1, <2>3, <2>4 DEF StatusInv
<1> QED
  BY <1>1, StatusInductive, PTL DEF StatusSpec

\* Recalls are in time although the ledger sees no deadline: every accepted
\* recall is of a voucher some earlier transfer created, whose deadline is that
\* transfer's epoch plus the sender's choice, in an epoch before that deadline.
THEOREM StatusRecalls == StatusSpec => []RecallsAreInTime
<1>1. StatusInv => RecallsAreInTime
  BY DEF StatusInv
<1> QED
  BY <1>1, StatusInvariant, PTL

-----------------------------------------------------------------------------
\* Changing the status at one index changes what is marked by its leaf alone.
LEMMA RootUpdated ==
  ASSUME NEW tree, IsInjective(tree), NEW root, DOMAIN root \subseteq DOMAIN tree,
         NEW index \in DOMAIN tree, NEW new, NEW S, "ACTIVE" \notin S,
         NEW changed, changed = WithStatus(root, index, new)
  PROVE  /\ tree[index] \in Marked(tree, root, S) <=> StatusAt(root, index) \in S
         /\ Marked(tree, changed, S)
              = IF new \in S THEN Marked(tree, root, S) \cup {tree[index]}
                             ELSE Marked(tree, root, S) \ {tree[index]}
<1>1. /\ \A i : i \in DOMAIN changed
                <=> i \in DOMAIN root \ {index} \/ (i = index /\ new # "ACTIVE")
      /\ \A i \in DOMAIN changed : changed[i] = IF i = index THEN new ELSE root[i]
  BY DEF WithStatus
<1>2. \A i \in DOMAIN tree : tree[i] = tree[index] <=> i = index
  BY DEF IsInjective
<1>3. ASSUME NEW x
      PROVE  x \in Marked(tree, root, S)
             <=> \E i \in DOMAIN root : root[i] \in S /\ x = tree[i]
  BY DEF Marked
<1>4. ASSUME NEW x
      PROVE  x \in Marked(tree, changed, S)
             <=> \E i \in DOMAIN changed : changed[i] \in S /\ x = tree[i]
  BY DEF Marked
<1>5. tree[index] \in Marked(tree, root, S) <=> StatusAt(root, index) \in S
  <2>1. tree[index] \in Marked(tree, root, S)
          <=> index \in DOMAIN root /\ root[index] \in S
    BY <1>2, <1>3
  <2> QED
    BY <2>1 DEF StatusAt
<1>6. ASSUME NEW x
      PROVE  x \in Marked(tree, changed, S)
             <=> IF x = tree[index] THEN new \in S ELSE x \in Marked(tree, root, S)
  <2>1. CASE x = tree[index]
    <3>1. x \in Marked(tree, changed, S)
            <=> index \in DOMAIN changed /\ changed[index] \in S
      BY <1>1, <1>2, <1>4, <2>1
    <3> QED
      BY <1>1, <2>1, <3>1
  <2>2. CASE x # tree[index]
    BY <1>1, <1>3, <1>4, <2>2
  <2> QED
    BY <2>1, <2>2
<1> QED
  BY <1>5, <1>6

\* The status of an unspent object was old and becomes new; a spent one shows
\* nothing.
HeldChanges(x, old, new, S) ==
  /\ x \in Held(S) <=> x \notin Spent /\ old \in S
  /\ Held(S)' = IF x \in Spent THEN Held(S)
                ELSE IF new \in S THEN Held(S) \cup {x} ELSE Held(S) \ {x}

\* A status update changes what is held by one leaf.
LEMMA UpdateHolds ==
  ASSUME StatusInv, Updated
  PROVE  \E x, old, new :
           /\ x \in Leaves
           /\ <<old, new>> \in AllowedStatus
           /\ \A S : "ACTIVE" \notin S => HeldChanges(x, old, new, S)
           /\ UNCHANGED trees
<1>0. /\ IsInjective(noteTree) /\ DOMAIN noteStatusRoot \subseteq DOMAIN noteTree
      /\ IsInjective(voucherTree) /\ DOMAIN voucherStatusRoot \subseteq DOMAIN voucherTree
      /\ Range(noteTree) \cap Range(voucherTree) = {}
      /\ \A S : Marked(noteTree, noteStatusRoot, S) \subseteq Range(noteTree)
      /\ \A S : Marked(voucherTree, voucherStatusRoot, S) \subseteq Range(voucherTree)
  <2>1. TreesOK
    BY DEF StatusInv
  <2>2. /\ IsInjective(noteTree) /\ DOMAIN noteStatusRoot \subseteq DOMAIN noteTree
        /\ IsInjective(voucherTree) /\ DOMAIN voucherStatusRoot \subseteq DOMAIN voucherTree
    BY <2>1 DEF TreesOK
  <2>3. /\ \A S : Marked(noteTree, noteStatusRoot, S) \subseteq Range(noteTree)
        /\ \A S : Marked(voucherTree, voucherStatusRoot, S) \subseteq Range(voucherTree)
    BY <2>2 DEF Marked, Range
  <2> QED
    BY <2>1, <2>2, <2>3, LeavesTyped
<1>1. ASSUME NEW index, NEW new, UpdateNoteStatus(index, new)
      PROVE  \E x, old, next :
               /\ x \in Leaves
               /\ <<old, next>> \in AllowedStatus
               /\ \A S : "ACTIVE" \notin S => HeldChanges(x, old, next, S)
               /\ UNCHANGED trees
  <2>1. PICK x, old : x = noteTree[index] /\ old = StatusAt(noteStatusRoot, index)
    OBVIOUS
  <2>2. /\ index \in DOMAIN noteTree /\ <<old, new>> \in AllowedStatus
        /\ noteStatusRoot' = WithStatus(noteStatusRoot, index, new)
        /\ UNCHANGED trees /\ UNCHANGED voucherStatusRoot
    BY <1>1, <2>1 DEF UpdateNoteStatus
  <2>3. UNCHANGED <<noteTree, voucherTree>> /\ Spent' = Spent
    BY <2>2 DEF trees, Spent
  <2>4. x \in Range(noteTree)
    BY <2>1, <2>2 DEF Range
  <2>5. ASSUME NEW S, "ACTIVE" \notin S
        PROVE  HeldChanges(x, old, new, S)
    <3>1. PICK A, B, C :
            /\ A = Marked(noteTree, noteStatusRoot, S)
            /\ B = Marked(voucherTree, voucherStatusRoot, S)
            /\ C = Marked(noteTree, noteStatusRoot', S)
      OBVIOUS
    <3>2. /\ x \in A <=> old \in S
          /\ C = IF new \in S THEN A \cup {x} ELSE A \ {x}
      <4>1. PICK changed : changed = noteStatusRoot'
        OBVIOUS
      <4>2. changed = WithStatus(noteStatusRoot, index, new)
        BY <2>2, <4>1
      <4>3. /\ noteTree[index] \in Marked(noteTree, noteStatusRoot, S)
               <=> StatusAt(noteStatusRoot, index) \in S
            /\ Marked(noteTree, changed, S)
                 = IF new \in S
                   THEN Marked(noteTree, noteStatusRoot, S) \cup {noteTree[index]}
                   ELSE Marked(noteTree, noteStatusRoot, S) \ {noteTree[index]}
        BY <1>0, <2>2, <2>5, <4>2, RootUpdated
      <4> QED
        BY <2>1, <3>1, <4>1, <4>3
    <3>3. Held(S) = (A \cup B) \ Spent
      BY <3>1 DEF Held
    <3>4. Held(S)' = (C \cup B) \ Spent
      BY <2>2, <2>3, <3>1 DEF Held
    <3>5. x \notin B
      BY <1>0, <2>4, <3>1
    <3> QED
      BY <3>2, <3>3, <3>4, <3>5 DEF HeldChanges
  <2> QED
    BY <2>2, <2>4, <2>5 DEF Leaves
<1>2. ASSUME NEW index, NEW new, UpdateVoucherStatus(index, new)
      PROVE  \E x, old, next :
               /\ x \in Leaves
               /\ <<old, next>> \in AllowedStatus
               /\ \A S : "ACTIVE" \notin S => HeldChanges(x, old, next, S)
               /\ UNCHANGED trees
  <2>1. PICK x, old : x = voucherTree[index] /\ old = StatusAt(voucherStatusRoot, index)
    OBVIOUS
  <2>2. /\ index \in DOMAIN voucherTree /\ <<old, new>> \in AllowedStatus
        /\ voucherStatusRoot' = WithStatus(voucherStatusRoot, index, new)
        /\ UNCHANGED trees /\ UNCHANGED noteStatusRoot
    BY <1>2, <2>1 DEF UpdateVoucherStatus
  <2>3. UNCHANGED <<noteTree, voucherTree>> /\ Spent' = Spent
    BY <2>2 DEF trees, Spent
  <2>4. x \in Range(voucherTree)
    BY <2>1, <2>2 DEF Range
  <2>5. ASSUME NEW S, "ACTIVE" \notin S
        PROVE  HeldChanges(x, old, new, S)
    <3>1. PICK A, B, C :
            /\ A = Marked(noteTree, noteStatusRoot, S)
            /\ B = Marked(voucherTree, voucherStatusRoot, S)
            /\ C = Marked(voucherTree, voucherStatusRoot', S)
      OBVIOUS
    <3>2. /\ x \in B <=> old \in S
          /\ C = IF new \in S THEN B \cup {x} ELSE B \ {x}
      <4>1. PICK changed : changed = voucherStatusRoot'
        OBVIOUS
      <4>2. changed = WithStatus(voucherStatusRoot, index, new)
        BY <2>2, <4>1
      <4>3. /\ voucherTree[index] \in Marked(voucherTree, voucherStatusRoot, S)
               <=> StatusAt(voucherStatusRoot, index) \in S
            /\ Marked(voucherTree, changed, S)
                 = IF new \in S
                   THEN Marked(voucherTree, voucherStatusRoot, S) \cup {voucherTree[index]}
                   ELSE Marked(voucherTree, voucherStatusRoot, S) \ {voucherTree[index]}
        BY <1>0, <2>2, <2>5, <4>2, RootUpdated
      <4> QED
        BY <2>1, <3>1, <4>1, <4>3
    <3>3. Held(S) = (A \cup B) \ Spent
      BY <3>1 DEF Held
    <3>4. Held(S)' = (A \cup C) \ Spent
      BY <2>2, <2>3, <3>1 DEF Held
    <3>5. x \notin A
      BY <1>0, <2>4, <3>1
    <3> QED
      BY <3>2, <3>3, <3>4, <3>5 DEF HeldChanges
  <2> QED
    BY <2>2, <2>4, <2>5 DEF Leaves
<1> QED
  BY <1>1, <1>2 DEF Updated

\* The state of AssetFlow that StatusFlow reads off the ledger.
Blocked == Held({"FROZEN", "REVOKED"})
Revoked == Held({"REVOKED"})

\* The mapped history created the leaves, and consumed only what is spent.
LEMMA StatusHistory ==
  ASSUME HistoryOK
  PROVE  /\ StatusFlow!Created(Events) = Leaves
         /\ StatusFlow!Consumed(Events) \subseteq Spent
<1>1. /\ DOMAIN Events = Steps
      /\ \A i \in Steps : /\ Events[i].inputs = transactions[i].inputs
                          /\ Events[i].outputs = transactions[i].outputs
  BY DEF Events, Steps
<1>2. StatusFlow!Created(Events) = Leaves
  BY <1>1 DEF StatusFlow!Created, HistoryOK
<1>3. StatusFlow!Consumed(Events) \subseteq Spent
  BY <1>1 DEF StatusFlow!Consumed, HistoryOK
<1> QED
  BY <1>2, <1>3

\* A move is recorded by AssetFlow.
LEMMA MoveRecords ==
  ASSUME StatusInv, NEW kind, NEW ns, NEW vs, NEW outNotes, NEW outVouchers,
         Moves(kind, ns, vs, outNotes, outVouchers)
  PROVE  StatusFlow!Next
<1>1. PICK n, event, notesIn, vouchersIn :
        /\ n = Len(transactions) + 1
        /\ event = EventOf(ns, vs, outNotes, outVouchers)
        /\ notesIn = NotesAt(ns) /\ vouchersIn = VouchersAt(vs)
  OBVIOUS
<1>2. TreesOK /\ HistoryOK
  BY DEF StatusInv
<1>3. /\ event.inputs = notesIn \cup vouchersIn
      /\ event.outputs = Range(outNotes) \cup Range(outVouchers)
      /\ event = [inputs |-> event.inputs, outputs |-> event.outputs]
  BY <1>1 DEF EventOf
<1>4. /\ notesIn \subseteq Range(noteTree) /\ vouchersIn \subseteq Range(voucherTree)
      /\ Range(noteTree) \cap Range(outNotes) = {}
      /\ Range(voucherTree) \cap Range(outVouchers) = {}
      /\ Range(outNotes) \subseteq Notes /\ Range(outVouchers) \subseteq Vouchers
  BY <1>1, <1>2, MoveTrees
<1>5. (notesIn \cup vouchersIn) \cap Spent = {}
  BY <1>1, <1>2, MoveSpends
<1>6. /\ (notesIn \cup vouchersIn) \cap Blocked = {}
      /\ Blocked' = Blocked /\ Revoked' = Revoked
  BY <1>1, <1>2, MoveHolds DEF Blocked, Revoked
<1>7. /\ Range(noteTree) \subseteq Notes /\ Range(voucherTree) \subseteq Vouchers
      /\ Notes \cap Vouchers = {}
  BY <1>2, LeavesTyped, KindsDiffer
<1>8. event.inputs \subseteq (StatusFlow!LiveIn(Events) \cap Objects) \ Blocked
  BY <1>2, <1>3, <1>4, <1>5, <1>6, <1>7, StatusHistory
     DEF StatusFlow!LiveIn, Leaves, Objects
<1>9. event.outputs \subseteq Objects \ StatusFlow!Created(Events)
  BY <1>2, <1>3, <1>4, <1>7, StatusHistory DEF Leaves, Objects
<1>10. StatusFlow!Acceptable(Events, Blocked, event)
  BY <1>8, <1>9 DEF StatusFlow!Acceptable
<1>11. /\ n \in Nat \ {0} /\ Steps = 1..(n - 1) /\ Steps' = 1..n
       /\ transactions' = [i \in Steps' |-> transactions'[i]]
       /\ transactions'[n].inputs = event.inputs
       /\ transactions'[n].outputs = event.outputs
       /\ \A i \in Steps : transactions'[i] = transactions[i]
  BY <1>1, <1>2, MoveAppended
<1>12. n \in Steps' /\ \A i \in Steps : i \in Steps'
  BY <1>11
<1>13. Events'[n] = event /\ \A i \in Steps : Events'[i] = Events[i]
  <2>1. Events'[n] = event
    BY <1>3, <1>11, <1>12 DEF Events, Steps
  <2>2. \A i \in Steps : Events'[i] = Events[i]
    BY <1>11, <1>12 DEF Events, Steps
  <2> QED
    BY <2>1, <2>2
<1>14. Events' = [i \in 1..n |-> Events'[i]] /\ Events = [i \in 1..(n - 1) |-> Events[i]]
  BY <1>11 DEF Events, Steps
<1>15. n - 1 \in Nat /\ (n - 1) + 1 = n
  BY <1>11
<1>16. Events' = Append(Events, event) /\ Events' # <<>> /\ Len(Events') = n
  BY <1>11, <1>13, <1>14, <1>15, ExtendedIsAppended
<1>17. StatusFlow!Last(Events') = event
  BY <1>13, <1>16 DEF StatusFlow!Last
<1>18. StatusFlow!Record(event)
  BY <1>6, <1>10, <1>16 DEF StatusFlow!Record, Blocked, Revoked
<1> QED
  BY <1>16, <1>17, <1>18 DEF StatusFlow!Next

\* A status update blocks, releases or revokes an object of AssetFlow, or it was
\* spent and nothing changes there.
LEMMA UpdateFlows ==
  ASSUME StatusInv, Updated
  PROVE  StatusFlow!Next \/ UNCHANGED StatusFlow!flowVars
<1>1. PICK x, old, new :
        /\ x \in Leaves
        /\ <<old, new>> \in AllowedStatus
        /\ \A S : "ACTIVE" \notin S => HeldChanges(x, old, new, S)
        /\ UNCHANGED trees
  BY UpdateHolds
<1>2. Events' = Events
  BY <1>1 DEF Events, trees
<1>3. /\ x \in Blocked <=> x \notin Spent /\ old \in {"FROZEN", "REVOKED"}
      /\ Blocked' = IF x \in Spent THEN Blocked
                    ELSE IF new \in {"FROZEN", "REVOKED"} THEN Blocked \cup {x}
                                                          ELSE Blocked \ {x}
  BY <1>1 DEF HeldChanges, Blocked
<1>4. /\ x \in Revoked <=> x \notin Spent /\ old \in {"REVOKED"}
      /\ Revoked' = IF x \in Spent THEN Revoked
                    ELSE IF new \in {"REVOKED"} THEN Revoked \cup {x} ELSE Revoked \ {x}
  BY <1>1 DEF HeldChanges, Revoked
<1>5. x \in Objects
  BY <1>1, LeavesTyped DEF StatusInv, Leaves, Objects
<1>6. CASE x \in Spent
  BY <1>2, <1>3, <1>4, <1>6 DEF StatusFlow!flowVars, Blocked, Revoked
<1>7. CASE x \notin Spent /\ old = "ACTIVE" /\ new = "FROZEN"
  <2>1. x \notin Blocked /\ Blocked' = Blocked \cup {x} /\ Revoked' = Revoked
    BY <1>3, <1>4, <1>7
  <2>2. x \notin StatusFlow!Consumed(Events)
    BY <1>7, StatusHistory DEF StatusInv
  <2>3. StatusFlow!Block(x)
    BY <1>2, <2>1, <2>2 DEF StatusFlow!Block, Blocked, Revoked
  <2>4. x \in (Blocked' \ Blocked) \cap Objects
    BY <1>5, <2>1
  <2> QED
    BY <2>3, <2>4 DEF StatusFlow!Next, Blocked
<1>8. CASE x \notin Spent /\ old = "FROZEN" /\ new = "ACTIVE"
  <2>1. x \in Blocked \ Revoked /\ Blocked' = Blocked \ {x} /\ Revoked' = Revoked
    BY <1>3, <1>4, <1>8
  <2>2. StatusFlow!Release(x)
    BY <1>2, <2>1 DEF StatusFlow!Release, Blocked, Revoked
  <2>3. x \in Blocked \ Blocked'
    BY <2>1
  <2> QED
    BY <2>2, <2>3 DEF StatusFlow!Next, Blocked
<1>9. CASE x \notin Spent /\ old = "FROZEN" /\ new = "REVOKED"
  <2>1. x \in Blocked \ Revoked /\ Blocked' = Blocked /\ Revoked' = Revoked \cup {x}
    BY <1>3, <1>4, <1>9
  <2>2. StatusFlow!Revoke(x)
    BY <1>2, <2>1 DEF StatusFlow!Revoke, Blocked, Revoked
  <2>3. x \in Revoked' \ Revoked
    BY <2>1
  <2> QED
    BY <2>2, <2>3 DEF StatusFlow!Next, Revoked
<1> QED
  BY <1>1, <1>6, <1>7, <1>8, <1>9 DEF AllowedStatus

\* The ledger with private status implements AssetFlow: one status root per tree,
\* proved against at the index of the leaf that is spent, does what a status per
\* object would.
THEOREM StatusImplements == StatusSpec => StatusImplementsFlow
<1>1. StatusInit => StatusFlow!Init
  <2> SUFFICES ASSUME StatusInit PROVE StatusFlow!Init
    OBVIOUS
  <2>1. Events = <<>>
    BY DEF StatusInit, Events
  <2>2. Blocked = {} /\ Revoked = {}
    BY DEF StatusInit, Blocked, Revoked, Held, Marked
  <2> QED
    BY <2>1, <2>2 DEF StatusFlow!Init, Blocked, Revoked
<1>2. ASSUME StatusInv, [StatusNext]_statusVars
      PROVE  [StatusFlow!Next]_StatusFlow!flowVars
  <2>1. CASE Moved
    BY <1>2, <2>1, MoveRecords DEF Moved
  <2>2. CASE Updated
    BY <1>2, <2>2, UpdateFlows
  <2>3. CASE Untouched
    <3>1. Events' = Events /\ Blocked' = Blocked /\ Revoked' = Revoked
      BY <2>3 DEF Untouched, trees, statuses, Events, Blocked, Revoked, Held, Marked, Spent
    <3> QED
      BY <3>1 DEF StatusFlow!flowVars, Blocked, Revoked
  <2> QED
    BY <1>2, <2>1, <2>2, <2>3, StatusSteps
<1> QED
  BY <1>1, <1>2, StatusInvariant, PTL DEF StatusSpec, StatusImplementsFlow, StatusFlow!Spec
=============================================================================
