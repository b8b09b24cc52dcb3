----------------------------- MODULE ClaimProofs -----------------------------
(***************************************************************************)
(* The claim ledger implements AssetFlow and its claims stand, for any     *)
(* users, openings, grades, policies and bounds.  Its audits are those of  *)
(* one snapshot, for any number of objects and DPPs, any recorded history, *)
(* and whatever the chain does meanwhile.                                  *)
(***************************************************************************)
EXTENDS ClaimLedger, ClaimAudit, FlowHistory

-----------------------------------------------------------------------------
(* The ledger. *)

Ids == DOMAIN records

\* The mappings have the keys the contract writes, and no zero among the ids.
MappingsOK ==
  /\ DOMAIN producerOf \subseteq Objects
  /\ \A x \in DOMAIN producerOf : /\ producerOf[x] \in Ids
                                  /\ x \in records[producerOf[x]].outputs
  /\ \A nf \in DOMAIN spentIn : spentIn[nf] \in Nat \ {0}
  /\ DOMAIN statusByNf \subseteq {NullifierOf(x) : x \in Spendable}

\* The records created what has a producer, and consumed what is spent; what an
\* exit creates has the grade of a note it consumes.
HistoryOK ==
  /\ Len(records) \in Nat /\ Ids = 1..Len(records)
  /\ records = [i \in Ids |-> records[i]]
  /\ UNION {records[i].outputs : i \in Ids} = DOMAIN producerOf
  /\ \A i \in Ids : \A x \in records[i].inputs :
       x \in Spendable /\ At(spentIn, NullifierOf(x)) # 0
  /\ \A i \in Ids : records[i].kind = "exit" =>
       \A d \in records[i].outputs : \E n \in records[i].inputs : n.grade = d.grade

\* The record of a claim has an id, not zero, and is no record without a claim.
ClaimIdsOK ==
  \A claim \in DOMAIN claimRecordOf : claim # <<>> /\ claimRecordOf[claim] \in Ids

ClaimInv == MappingsOK /\ HistoryOK /\ ClaimIdsOK /\ ClaimsStand

\* What every event but issue does.
Moves(kind, inputs, outputs) ==
  /\ inputs \subseteq DOMAIN producerOf \cap Spendable
  /\ outputs \in Seq(Objects)
  /\ kind = "exit" => \A d \in Range(outputs) : \E n \in inputs : n.grade = d.grade
  /\ Complete(kind, inputs, outputs)

Moved == \E kind, inputs, outputs : Moves(kind, inputs, outputs)

Issued == \E dpp \in DPPs, policy \in Policies : Issue(dpp, policy)

StatusSet == \E x, new : x \in Spendable /\ SetStatus(NullifierOf(x), new)

\* What the other steps leave alone.
Elsewhere ==
  /\ UNCHANGED <<records, producerOf, spentIn, statusByNf, claimRecordOf>>
  /\ DOMAIN claimStatus' \subseteq DOMAIN claimStatus \cup DOMAIN claimRecordOf

-----------------------------------------------------------------------------
\* Notes, vouchers and DPPs have different fields.
LEMMA KindsDiffer ==
  Notes \cap Vouchers = {} /\ Notes \cap DPPs = {} /\ Vouchers \cap DPPs = {}
<1>1. \A n \in Notes : "owner" \in DOMAIN n /\ "dpp" \notin DOMAIN n
  BY DEF Notes
<1>2. \A v \in Vouchers : "owner" \notin DOMAIN v /\ "dpp" \notin DOMAIN v
  BY DEF Vouchers
<1>3. \A d \in DPPs : "dpp" \in DOMAIN d
  BY DEF DPPs
<1> QED
  BY <1>1, <1>2, <1>3

\* A nullifier tells what it spends.
LEMMA NullifiersInjective ==
  /\ \A x : SpentBy(NullifierOf(x)) = x
  /\ \A x, y : NullifierOf(x) = NullifierOf(y) => x = y
<1>1. \A x : "cm" \in DOMAIN Nullifier(x) /\ Nullifier(x).cm = x
  BY DEF Nullifier
<1>2. \A x : "cm" \notin DOMAIN VoucherNullifier(x) /\ VoucherNullifier(x).rv = x
  BY DEF VoucherNullifier
<1>3. \A x : SpentBy(NullifierOf(x)) = x
  BY <1>1, <1>2 DEF SpentBy, NullifierOf
<1> QED
  BY <1>3

LEMMA OutputsTyped ==
  ASSUME NEW opening \in Openings
  PROVE  /\ \A v \in Vouchers : /\ Note(v.grade, v.sender, opening) \in Notes
                                /\ Note(v.grade, v.receiver, opening) \in Notes
         /\ \A n \in Notes : [grade |-> n.grade, dpp |-> opening] \in DPPs
  BY DEF Note, Notes, Vouchers, DPPs

LEMMA ClaimSteps ==
  ASSUME [ClaimNext]_claimVars
  PROVE  Moved \/ Issued \/ StatusSet \/ Elsewhere
<1> USE DEF Spendable, Objects
<1>1. ASSUME NEW n \in Notes, Entry(n)
      PROVE  Moved
  <2>1. Moves("entry", {}, <<n>>)
    BY <1>1 DEF Entry, Moves
  <2> QED
    BY <2>1 DEF Moved
<1>2. ASSUME NEW n \in NotesHeld, NEW v \in Vouchers, NEW change \in Notes,
             Transfer(n, v, change)
      PROVE  Moved
  <2>1. Moves("transfer", {n}, <<v, change>>)
    BY <1>2 DEF Transfer, Moves, NotesHeld
  <2> QED
    BY <2>1 DEF Moved
<1>3. ASSUME NEW v \in VouchersHeld, NEW opening \in Openings, Proceed(v, opening)
      PROVE  Moved
  <2>1. Moves("proceed", {v}, <<Note(v.grade, v.receiver, opening)>>)
    BY <1>3, OutputsTyped DEF Proceed, Moves, VouchersHeld
  <2> QED
    BY <2>1 DEF Moved
<1>4. ASSUME NEW v \in VouchersHeld, NEW opening \in Openings, Recall(v, opening)
      PROVE  Moved
  <2>1. Moves("recall", {v}, <<Note(v.grade, v.sender, opening)>>)
    BY <1>4, OutputsTyped DEF Recall, Moves, VouchersHeld
  <2> QED
    BY <2>1 DEF Moved
<1>5. ASSUME NEW n \in NotesHeld, NEW n2 \in NotesHeld, NEW out \in Notes, Merge(n, n2, out)
      PROVE  Moved
  <2>1. Moves("merge", {n, n2}, <<out>>)
    BY <1>5 DEF Merge, Moves, NotesHeld
  <2> QED
    BY <2>1 DEF Moved
<1>6. ASSUME NEW n \in NotesHeld, NEW out1 \in Notes, NEW out2 \in Notes,
             Split(n, out1, out2)
      PROVE  Moved
  <2>1. Moves("split", {n}, <<out1, out2>>)
    BY <1>6 DEF Split, Moves, NotesHeld
  <2> QED
    BY <2>1 DEF Moved
<1>7. ASSUME NEW ins \in SUBSET NotesHeld, NEW out \in Notes, NEW waste \in Notes,
             Process(ins, out, waste)
      PROVE  Moved
  <2>1. Moves("process", ins, <<out, waste>>)
    BY <1>7 DEF Process, Moves, NotesHeld
  <2> QED
    BY <2>1 DEF Moved
<1>8. ASSUME NEW n \in NotesHeld, NEW opening \in Openings, Exit(n, opening)
      PROVE  Moved
  <2>1. PICK d : d = [grade |-> n.grade, dpp |-> opening]
    OBVIOUS
  <2>2. d \in DPPs /\ d.grade = n.grade
    BY <2>1, OutputsTyped DEF NotesHeld
  <2>3. Moves("exit", {n}, <<d>>)
    BY <1>8, <2>1, <2>2, RangeOfOne DEF Exit, Moves, NotesHeld
  <2> QED
    BY <2>3 DEF Moved
<1>9. ASSUME NEW x \in Spendable, NEW new, SetStatus(NullifierOf(x), new)
      PROVE  StatusSet
  BY <1>9 DEF StatusSet
<1>10. ASSUME NEW claim, NEW new, SetClaimStatus(claim, new)
       PROVE  Elsewhere
  <2>1. claim \in DOMAIN claimRecordOf
    BY <1>10 DEF SetClaimStatus, At
  <2> QED
    BY <1>10, <2>1 DEF SetClaimStatus, Put, Elsewhere
<1>11. ASSUME NEW policy, SetEnabled(policy)
       PROVE  Elsewhere
  BY <1>11 DEF SetEnabled, Elsewhere
<1>12. CASE UNCHANGED claimVars
  BY <1>12 DEF claimVars, Elsewhere
<1>13. CASE ClaimNext
  BY <1>1, <1>2, <1>3, <1>4, <1>5, <1>6, <1>7, <1>8, <1>9, <1>10, <1>11, <1>13
     DEF ClaimNext, Issued
<1> QED
  BY <1>12, <1>13

-----------------------------------------------------------------------------
\* A step appends a record.
LEMMA RecordAppended ==
  ASSUME HistoryOK, NEW n, n = Len(records) + 1, NEW r, records' = Append(records, r)
  PROVE  /\ n \in Nat \ {0} /\ Ids = 1..(n - 1) /\ Ids' = 1..n
         /\ Len(records') = n
         /\ records' = [i \in Ids' |-> records'[i]]
         /\ records'[n] = r
         /\ \A i \in Ids : records'[i] = records[i]
<1>1. n - 1 \in Nat /\ (n - 1) + 1 = n /\ n \in Nat \ {0} /\ Len(records) = n - 1
      /\ Ids = 1..(n - 1) /\ records = [i \in 1..(n - 1) |-> records[i]]
  <2>1. Len(records) \in Nat /\ Ids = 1..Len(records) /\ records = [i \in Ids |-> records[i]]
    BY DEF HistoryOK
  <2>2. n - 1 = Len(records)
    BY <2>1
  <2> QED
    BY <2>1, <2>2
<1>2. PICK T : T = {records[i] : i \in 1..(n - 1)} \cup {r}
  OBVIOUS
<1>3. records \in Seq(T) /\ r \in T
  <2>1. \A i \in 1..(n - 1) : records[i] \in T
    BY <1>2
  <2> QED
    BY <1>1, <1>2, <2>1, FunctionIsSequence
<1>4. /\ records' \in Seq(T) /\ Len(records') = n
      /\ \A i \in 1..(n - 1) : records'[i] = records[i]
      /\ records'[n] = r
  BY <1>1, <1>3, AppendProperties
<1>5. Ids' = 1..n /\ records' = [i \in 1..n |-> records'[i]]
  BY <1>1, <1>4 DEF Ids
<1> QED
  BY <1>1, <1>4, <1>5

\* The nullifiers of a set of inputs.
NullifiersOf(inputs) == {NullifierOf(x) : x \in inputs}

\* A move appends its record.
LEMMA MoveRecorded ==
  ASSUME ClaimInv, NEW kind, NEW inputs, NEW outputs, Moves(kind, inputs, outputs),
         NEW n, n = Len(records) + 1
  PROVE  /\ n \in Nat \ {0} /\ Ids = 1..(n - 1) /\ Ids' = 1..n
         /\ Len(records') = n
         /\ records' = [i \in Ids' |-> records'[i]]
         /\ records'[n].kind = kind
         /\ records'[n].inputs = inputs
         /\ records'[n].outputs = Range(outputs)
         /\ records'[n].claim = <<>>
         /\ \A i \in Ids : records'[i] = records[i]
<1>1. PICK r : /\ r = [kind |-> kind, inputs |-> inputs, outputs |-> Range(outputs),
                       claim |-> <<>>]
               /\ records' = Append(records, r)
  BY DEF Moves, Complete
<1>2. /\ r.kind = kind /\ r.inputs = inputs /\ r.outputs = Range(outputs)
      /\ r.claim = <<>>
  BY <1>1
<1>3. HistoryOK
  BY DEF ClaimInv
<1>4. /\ n \in Nat \ {0} /\ Ids = 1..(n - 1) /\ Ids' = 1..n
      /\ Len(records') = n
      /\ records' = [i \in Ids' |-> records'[i]]
      /\ records'[n] = r
      /\ \A i \in Ids : records'[i] = records[i]
  BY <1>1, <1>3, RecordAppended
<1> QED
  BY <1>2, <1>4

\* A move consumes active inputs and produces new outputs.
LEMMA MoveEffect ==
  ASSUME ClaimInv, NEW kind, NEW inputs, NEW outputs, Moves(kind, inputs, outputs),
         NEW n, n = Len(records) + 1
  PROVE  /\ \A x \in inputs : /\ At(spentIn, NullifierOf(x)) = 0
                              /\ At(statusByNf, NullifierOf(x)) = ACTIVE
         /\ \A x \in inputs : At(spentIn', NullifierOf(x)) = n
         /\ \A x : x \notin inputs => At(spentIn', NullifierOf(x)) = At(spentIn, NullifierOf(x))
         /\ \A nf \in DOMAIN spentIn' : spentIn'[nf] \in Nat \ {0}
         /\ DOMAIN producerOf' = DOMAIN producerOf \cup Range(outputs)
         /\ DOMAIN producerOf \cap Range(outputs) = {}
         /\ \A x \in DOMAIN producerOf : producerOf'[x] = producerOf[x]
         /\ \A x \in Range(outputs) : producerOf'[x] = n
         /\ Range(outputs) \subseteq Objects
<1>1. MappingsOK /\ n \in Nat \ {0}
  BY MoveRecorded DEF ClaimInv
<1>2. /\ spentIn' = Put(spentIn, NullifiersOf(inputs), n)
      /\ producerOf' = Put(producerOf, Range(outputs), n)
      /\ \A x \in inputs : Active(x)
      /\ Range(outputs) \cap DOMAIN producerOf = {}
      /\ outputs \in Seq(Objects)
  BY DEF Moves, Complete, NullifiersOf
<1>3. \A x : NullifierOf(x) \in NullifiersOf(inputs) <=> x \in inputs
  BY NullifiersInjective DEF NullifiersOf
<1>4. /\ \A nf : nf \in DOMAIN spentIn' <=> nf \in DOMAIN spentIn \/ nf \in NullifiersOf(inputs)
      /\ \A nf \in DOMAIN spentIn' :
           spentIn'[nf] = IF nf \in NullifiersOf(inputs) THEN n ELSE spentIn[nf]
  BY <1>2 DEF Put
<1>5. /\ \A x \in inputs : At(spentIn', NullifierOf(x)) = n
      /\ \A x : x \notin inputs => At(spentIn', NullifierOf(x)) = At(spentIn, NullifierOf(x))
  BY <1>3, <1>4 DEF At
<1>6. \A nf \in DOMAIN spentIn' : spentIn'[nf] \in Nat \ {0}
  BY <1>1, <1>4 DEF MappingsOK
<1>7. /\ DOMAIN producerOf' = DOMAIN producerOf \cup Range(outputs)
      /\ \A x \in DOMAIN producerOf : producerOf'[x] = producerOf[x]
      /\ \A x \in Range(outputs) : producerOf'[x] = n
  BY <1>2 DEF Put
<1>8. Range(outputs) \subseteq Objects
  BY <1>2, RangeOfSeq
<1>9. \A x \in inputs : /\ At(spentIn, NullifierOf(x)) = 0
                        /\ At(statusByNf, NullifierOf(x)) = ACTIVE
  BY <1>2 DEF Active
<1> QED
  BY <1>2, <1>5, <1>6, <1>7, <1>8, <1>9

\* A claim stands as long as its record and the exit of its DPP stay, and no
\* record is added for it.
LEMMA ClaimsKept ==
  ASSUME ClaimInv,
         Ids \subseteq Ids', \A i \in Ids : records'[i] = records[i],
         \A x \in DOMAIN producerOf : x \in DOMAIN producerOf' /\ producerOf'[x] = producerOf[x],
         NEW claim \in DOMAIN claimRecordOf,
         claim \in DOMAIN claimRecordOf', claimRecordOf'[claim] = claimRecordOf[claim],
         \A i \in Ids' \ Ids : records'[i].claim # claim
  PROVE  LET id   == claimRecordOf'[claim]
             exit == At(producerOf', claim[1])
         IN  /\ {i \in Ids' : records'[i].claim = claim} = {id}
             /\ exit \in 1..id - 1
             /\ \E m \in records'[exit].inputs :
                  m.grade = claim[1].grade /\ m.grade \in Accepted[claim[2]]
<1>1. PICK id, exit : id = claimRecordOf[claim] /\ exit = At(producerOf, claim[1])
  OBVIOUS
<1>2. /\ {i \in Ids : records[i].claim = claim} = {id}
      /\ exit \in 1..id - 1
      /\ \E m \in records[exit].inputs :
           m.grade = claim[1].grade /\ m.grade \in Accepted[claim[2]]
  BY <1>1 DEF ClaimInv, ClaimsStand, Ids
<1>3. claim[1] \in DOMAIN producerOf /\ exit \in Ids
  <2>1. exit # 0
    BY <1>2
  <2>2. claim[1] \in DOMAIN producerOf /\ exit = producerOf[claim[1]]
    BY <1>1, <2>1 DEF At
  <2> QED
    BY <2>2 DEF ClaimInv, MappingsOK
<1>4. At(producerOf', claim[1]) = exit
  BY <1>1, <1>3 DEF At
<1>5. {i \in Ids' : records'[i].claim = claim} = {id}
  BY <1>2
<1> QED
  BY <1>1, <1>2, <1>3, <1>4, <1>5

\* A move keeps the invariant.
LEMMA MoveInductive ==
  ASSUME ClaimInv, NEW kind, NEW inputs, NEW outputs, Moves(kind, inputs, outputs)
  PROVE  ClaimInv'
<1>1. PICK n : n = Len(records) + 1
  OBVIOUS
<1>2. /\ n \in Nat \ {0} /\ Ids = 1..(n - 1) /\ Ids' = 1..n
      /\ Len(records') = n
      /\ records' = [i \in Ids' |-> records'[i]]
      /\ records'[n].kind = kind
      /\ records'[n].inputs = inputs
      /\ records'[n].outputs = Range(outputs)
      /\ records'[n].claim = <<>>
      /\ \A i \in Ids : records'[i] = records[i]
      /\ \A x \in inputs : At(spentIn', NullifierOf(x)) = n
      /\ \A x : x \notin inputs => At(spentIn', NullifierOf(x)) = At(spentIn, NullifierOf(x))
      /\ \A nf \in DOMAIN spentIn' : spentIn'[nf] \in Nat \ {0}
      /\ DOMAIN producerOf' = DOMAIN producerOf \cup Range(outputs)
      /\ \A x \in DOMAIN producerOf : producerOf'[x] = producerOf[x]
      /\ \A x \in Range(outputs) : producerOf'[x] = n
      /\ Range(outputs) \subseteq Objects
      /\ UNCHANGED <<enabled, statusByNf, claimRecordOf, claimStatus>>
  <2>1. UNCHANGED <<enabled, statusByNf, claimRecordOf, claimStatus>>
    BY DEF Moves, Complete
  <2>2. /\ n \in Nat \ {0} /\ Ids = 1..(n - 1) /\ Ids' = 1..n
        /\ Len(records') = n
        /\ records' = [i \in Ids' |-> records'[i]]
        /\ records'[n].kind = kind
        /\ records'[n].inputs = inputs
        /\ records'[n].outputs = Range(outputs)
        /\ records'[n].claim = <<>>
        /\ \A i \in Ids : records'[i] = records[i]
    BY <1>1, MoveRecorded
  <2>3. /\ \A x \in inputs : At(spentIn', NullifierOf(x)) = n
        /\ \A x : x \notin inputs => At(spentIn', NullifierOf(x)) = At(spentIn, NullifierOf(x))
        /\ \A nf \in DOMAIN spentIn' : spentIn'[nf] \in Nat \ {0}
    BY <1>1, MoveEffect
  <2>4. /\ DOMAIN producerOf' = DOMAIN producerOf \cup Range(outputs)
        /\ \A x \in DOMAIN producerOf : producerOf'[x] = producerOf[x]
        /\ \A x \in Range(outputs) : producerOf'[x] = n
        /\ Range(outputs) \subseteq Objects
    BY <1>1, MoveEffect
  <2> QED
    BY <2>1, <2>2, <2>3, <2>4
<1>3. /\ inputs \subseteq Spendable
      /\ kind = "exit" => \A d \in Range(outputs) : \E m \in inputs : m.grade = d.grade
  BY DEF Moves
<1>4. n \in Ids' /\ n \notin Ids /\ Ids \subseteq Ids' /\ \A i \in Ids' : i \in Ids \/ i = n
  BY <1>2
<1>5. MappingsOK /\ HistoryOK /\ ClaimIdsOK /\ ClaimsStand
  BY DEF ClaimInv
<1>6. MappingsOK'
  <2>1. /\ DOMAIN producerOf' \subseteq Objects
        /\ DOMAIN statusByNf' \subseteq {NullifierOf(x) : x \in Spendable}
    BY <1>2, <1>5 DEF MappingsOK
  <2>2. ASSUME NEW x \in DOMAIN producerOf'
        PROVE  /\ producerOf'[x] \in Ids'
               /\ x \in records'[producerOf'[x]].outputs
    <3>1. CASE x \in DOMAIN producerOf
      BY <1>2, <1>4, <1>5, <3>1 DEF MappingsOK
    <3>2. CASE x \in Range(outputs)
      BY <1>2, <1>4, <3>2
    <3> QED
      BY <1>2, <3>1, <3>2
  <2> QED
    BY <1>2, <2>1, <2>2 DEF MappingsOK
<1>7. HistoryOK'
  <2>1. ASSUME NEW x
        PROVE  (\E i \in Ids' : x \in records'[i].outputs) <=> x \in DOMAIN producerOf'
    <3>1. (\E i \in Ids' : x \in records'[i].outputs)
            <=> (\E i \in Ids : x \in records[i].outputs) \/ x \in Range(outputs)
      BY <1>2, <1>4
    <3>2. (\E i \in Ids : x \in records[i].outputs) <=> x \in DOMAIN producerOf
      BY <1>5 DEF HistoryOK
    <3> QED
      BY <1>2, <3>1, <3>2
  <2>2. UNION {records'[i].outputs : i \in Ids'} = DOMAIN producerOf'
    BY <2>1
  <2>3. ASSUME NEW i \in Ids', NEW x \in records'[i].inputs
        PROVE  x \in Spendable /\ At(spentIn', NullifierOf(x)) # 0
    <3>1. CASE i \in Ids
      <4>1. x \in Spendable /\ At(spentIn, NullifierOf(x)) # 0
        BY <1>2, <1>5, <3>1 DEF HistoryOK
      <4> QED
        BY <1>2, <4>1
    <3>2. CASE i = n
      BY <1>2, <1>3, <3>2
    <3> QED
      BY <1>4, <3>1, <3>2
  <2>4. ASSUME NEW i \in Ids', records'[i].kind = "exit"
        PROVE  \A d \in records'[i].outputs : \E m \in records'[i].inputs : m.grade = d.grade
    <3>1. CASE i \in Ids
      <4>1. records'[i] = records[i] /\ records[i].kind = "exit"
        BY <1>2, <2>4, <3>1
      <4>2. \A d \in records[i].outputs : \E m \in records[i].inputs : m.grade = d.grade
        BY <1>5, <3>1, <4>1 DEF HistoryOK
      <4> QED
        BY <4>1, <4>2
    <3>2. CASE i = n
      BY <1>2, <1>3, <2>4, <3>2
    <3> QED
      BY <1>4, <3>1, <3>2
  <2>5. \A i \in Ids' : \A x \in records'[i].inputs :
           x \in Spendable' /\ At(spentIn', NullifierOf(x)) # 0
    BY <2>3 DEF Spendable, Notes, Vouchers
  <2> QED
    BY <1>2, <2>2, <2>4, <2>5 DEF HistoryOK
<1>8. ClaimIdsOK'
  BY <1>2, <1>4, <1>5 DEF ClaimIdsOK
<1>9. ClaimsStand'
  <2>1. ASSUME NEW claim \in DOMAIN claimRecordOf'
        PROVE  LET id   == claimRecordOf'[claim]
                   exit == At(producerOf', claim[1])
               IN  /\ {i \in Ids' : records'[i].claim = claim} = {id}
                   /\ exit \in 1..id - 1
                   /\ \E m \in records'[exit].inputs :
                        m.grade = claim[1].grade /\ m.grade \in Accepted[claim[2]]
    <3>1. claim \in DOMAIN claimRecordOf /\ claim # <<>>
      BY <1>2, <1>5 DEF ClaimIdsOK
    <3>2. \A i \in Ids' \ Ids : records'[i].claim # claim
      BY <1>2, <1>4, <3>1
    <3> QED
      BY <1>2, <1>4, <3>1, <3>2, ClaimsKept
  <2>2. ASSUME NEW i \in Ids', records'[i].claim # <<>>
        PROVE  At(claimRecordOf', records'[i].claim) = i
    <3>1. i \in Ids /\ records'[i] = records[i]
      BY <1>2, <1>4, <2>2
    <3>2. At(claimRecordOf, records[i].claim) = i
      BY <1>5, <2>2, <3>1 DEF ClaimsStand, Ids
    <3> QED
      BY <1>2, <3>1, <3>2
  <2>3. DOMAIN claimStatus' \subseteq DOMAIN claimRecordOf'
    BY <1>2, <1>5 DEF ClaimsStand
  <2> QED
    BY <2>1, <2>2, <2>3 DEF ClaimsStand, Ids
<1> QED
  BY <1>6, <1>7, <1>8, <1>9 DEF ClaimInv

\* So does an issue: the claim is new, and its DPP is of an earlier exit.
LEMMA IssueInductive ==
  ASSUME ClaimInv, NEW dpp \in DPPs, NEW policy \in Policies, Issue(dpp, policy)
  PROVE  ClaimInv'
<1>1. PICK n, claimed, exit, r :
        /\ n = Len(records) + 1 /\ claimed = <<dpp, policy>>
        /\ exit = At(producerOf, dpp)
        /\ r = [kind |-> "issue", inputs |-> {}, outputs |-> {}, claim |-> <<dpp, policy>>]
  OBVIOUS
<1>2. /\ exit # 0 /\ records[exit].kind = "exit"
      /\ At(claimRecordOf, claimed) = 0
      /\ dpp.grade \in Accepted[policy]
      /\ records' = Append(records, r)
      /\ claimRecordOf' = Put(claimRecordOf, {claimed}, n)
      /\ UNCHANGED <<producerOf, spentIn, statusByNf, claimStatus>>
  BY <1>1 DEF Issue, Issuable
<1>3. MappingsOK /\ HistoryOK /\ ClaimIdsOK /\ ClaimsStand
  BY DEF ClaimInv
<1>4. /\ n \in Nat \ {0} /\ Ids = 1..(n - 1) /\ Ids' = 1..n
      /\ Len(records') = n
      /\ records' = [i \in Ids' |-> records'[i]]
      /\ records'[n] = r
      /\ \A i \in Ids : records'[i] = records[i]
  BY <1>1, <1>2, <1>3, RecordAppended
<1>5. r.kind = "issue" /\ r.inputs = {} /\ r.outputs = {} /\ r.claim = claimed
      /\ claimed # <<>> /\ claimed[1] = dpp /\ claimed[2] = policy
  BY <1>1
<1>6. n \in Ids' /\ n \notin Ids /\ Ids \subseteq Ids' /\ \A i \in Ids' : i \in Ids \/ i = n
  BY <1>4
<1>7. claimed \notin DOMAIN claimRecordOf
  BY <1>2, <1>3, <1>4 DEF At, ClaimIdsOK
<1>8. /\ DOMAIN claimRecordOf' = DOMAIN claimRecordOf \cup {claimed}
      /\ claimRecordOf'[claimed] = n
      /\ \A c \in DOMAIN claimRecordOf : claimRecordOf'[c] = claimRecordOf[c]
  BY <1>2, <1>7 DEF Put
<1>9. /\ dpp \in DOMAIN producerOf /\ exit = producerOf[dpp] /\ exit \in Ids
      /\ dpp \in records[exit].outputs
  BY <1>1, <1>2, <1>3 DEF At, MappingsOK
<1>10. PICK m \in records[exit].inputs : m.grade = dpp.grade
  BY <1>2, <1>3, <1>9 DEF HistoryOK
<1>11. MappingsOK'
  BY <1>2, <1>3, <1>4, <1>6 DEF MappingsOK
<1>12. HistoryOK'
  <2>1. ASSUME NEW x
        PROVE  (\E i \in Ids' : x \in records'[i].outputs) <=> x \in DOMAIN producerOf'
    <3>1. (\E i \in Ids' : x \in records'[i].outputs)
            <=> (\E i \in Ids : x \in records[i].outputs)
      BY <1>4, <1>5, <1>6
    <3>2. (\E i \in Ids : x \in records[i].outputs) <=> x \in DOMAIN producerOf
      BY <1>3 DEF HistoryOK
    <3> QED
      BY <1>2, <3>1, <3>2
  <2>2. UNION {records'[i].outputs : i \in Ids'} = DOMAIN producerOf'
    BY <2>1
  <2>3. ASSUME NEW i \in Ids', NEW x \in records'[i].inputs
        PROVE  x \in Spendable /\ At(spentIn', NullifierOf(x)) # 0
    <3>1. i \in Ids /\ records'[i] = records[i]
      BY <1>4, <1>5, <1>6
    <3> QED
      BY <1>2, <1>3, <3>1 DEF HistoryOK
  <2>4. ASSUME NEW i \in Ids', records'[i].kind = "exit"
        PROVE  \A d \in records'[i].outputs : \E k \in records'[i].inputs : k.grade = d.grade
    <3>1. i \in Ids /\ records'[i] = records[i]
      BY <1>4, <1>5, <1>6, <2>4
    <3> QED
      BY <1>3, <2>4, <3>1 DEF HistoryOK
  <2> QED
    BY <1>4, <2>2, <2>3, <2>4 DEF HistoryOK
<1>13. ClaimIdsOK'
  BY <1>3, <1>4, <1>5, <1>6, <1>8 DEF ClaimIdsOK
<1>14. ClaimsStand'
  <2>1. ASSUME NEW claim \in DOMAIN claimRecordOf'
        PROVE  LET id   == claimRecordOf'[claim]
                   made == At(producerOf', claim[1])
               IN  /\ {i \in Ids' : records'[i].claim = claim} = {id}
                   /\ made \in 1..id - 1
                   /\ \E k \in records'[made].inputs :
                        k.grade = claim[1].grade /\ k.grade \in Accepted[claim[2]]
    <3>1. CASE claim \in DOMAIN claimRecordOf
      <4>1. \A i \in Ids' \ Ids : records'[i].claim # claim
        BY <1>4, <1>5, <1>6, <1>7, <3>1
      <4> QED
        BY <1>2, <1>4, <1>6, <1>8, <3>1, <4>1, ClaimsKept
    <3>2. CASE claim = claimed
      <4>1. ASSUME NEW i \in Ids PROVE records'[i].claim # claimed
        <5>1. records[i].claim # claimed
          <6> SUFFICES ASSUME records[i].claim = claimed PROVE FALSE
            OBVIOUS
          <6>1. At(claimRecordOf, claimed) = i
            BY <1>3, <1>5 DEF ClaimsStand, Ids
          <6> QED
            BY <1>2, <1>4, <6>1
        <5> QED
          BY <1>4, <5>1
      <4>2. {i \in Ids' : records'[i].claim = claimed} = {n}
        BY <1>4, <1>5, <1>6, <4>1
      <4>3. At(producerOf', dpp) = exit /\ exit \in 1..n - 1
        BY <1>1, <1>2, <1>4, <1>9
      <4>4. m \in records'[exit].inputs /\ m.grade = dpp.grade /\ m.grade \in Accepted[policy]
        BY <1>2, <1>4, <1>9, <1>10
      <4> QED
        BY <1>5, <1>8, <3>2, <4>2, <4>3, <4>4
    <3> QED
      BY <1>8, <3>1, <3>2
  <2>2. ASSUME NEW i \in Ids', records'[i].claim # <<>>
        PROVE  At(claimRecordOf', records'[i].claim) = i
    <3>1. CASE i \in Ids
      <4>1. At(claimRecordOf, records[i].claim) = i /\ records'[i] = records[i]
        BY <1>3, <1>4, <2>2, <3>1 DEF ClaimsStand, Ids
      <4>2. records[i].claim \in DOMAIN claimRecordOf
            /\ claimRecordOf[records[i].claim] = i
        BY <1>4, <3>1, <4>1 DEF At
      <4> QED
        BY <1>8, <4>1, <4>2 DEF At
    <3>2. CASE i = n
      BY <1>4, <1>5, <1>8, <3>2 DEF At
    <3> QED
      BY <1>6, <3>1, <3>2
  <2>3. DOMAIN claimStatus' \subseteq DOMAIN claimRecordOf'
    BY <1>2, <1>3, <1>8 DEF ClaimsStand
  <2> QED
    BY <2>1, <2>2, <2>3 DEF ClaimsStand, Ids
<1> QED
  BY <1>11, <1>12, <1>13, <1>14 DEF ClaimInv

LEMMA ClaimInductive ==
  ASSUME ClaimInv, [ClaimNext]_claimVars
  PROVE  ClaimInv'
<1>1. CASE Moved
  BY <1>1, MoveInductive DEF Moved
<1>2. CASE Issued
  BY <1>2, IssueInductive DEF Issued
<1>3. ASSUME UNCHANGED <<records, producerOf, spentIn, claimRecordOf>>,
             DOMAIN statusByNf' \subseteq {NullifierOf(x) : x \in Spendable},
             DOMAIN claimStatus' \subseteq DOMAIN claimStatus \cup DOMAIN claimRecordOf
      PROVE  ClaimInv'
  <2>1. MappingsOK' /\ HistoryOK' /\ ClaimIdsOK'
    BY <1>3 DEF ClaimInv, MappingsOK, HistoryOK, ClaimIdsOK, Ids
  <2>2. ClaimsStand'
    BY <1>3 DEF ClaimInv, ClaimsStand
  <2> QED
    BY <2>1, <2>2 DEF ClaimInv
<1>4. CASE StatusSet
  <2>1. PICK x, new : x \in Spendable /\ SetStatus(NullifierOf(x), new)
    BY <1>4 DEF StatusSet
  <2>2. DOMAIN statusByNf' \subseteq {NullifierOf(y) : y \in Spendable}
    BY <2>1 DEF SetStatus, Put, ClaimInv, MappingsOK
  <2> QED
    BY <1>3, <2>1, <2>2 DEF SetStatus
<1>5. CASE Elsewhere
  BY <1>3, <1>5 DEF Elsewhere, ClaimInv, MappingsOK
<1> QED
  BY <1>1, <1>2, <1>4, <1>5, ClaimSteps

LEMMA ClaimInvariant == ClaimSpec => []ClaimInv
<1>1. ClaimInit => ClaimInv
  <2> SUFFICES ASSUME ClaimInit PROVE ClaimInv
    OBVIOUS
  <2>1. Ids = {} /\ Len(records) = 0
    BY DEF ClaimInit, Ids
  <2>2. /\ DOMAIN producerOf = {} /\ DOMAIN spentIn = {} /\ DOMAIN statusByNf = {}
        /\ DOMAIN claimRecordOf = {} /\ DOMAIN claimStatus = {}
    BY DEF ClaimInit, EmptyMapping
  <2>3. MappingsOK /\ ClaimIdsOK
    BY <2>1, <2>2 DEF MappingsOK, ClaimIdsOK
  <2>4. HistoryOK
    BY <2>1, <2>2 DEF ClaimInit, HistoryOK
  <2>5. ClaimsStand
    BY <2>1, <2>2 DEF ClaimsStand, Ids
  <2> QED
    BY <2>3, <2>4, <2>5 DEF ClaimInv
<1> QED
  BY <1>1, ClaimInductive, PTL DEF ClaimSpec

\* Claims stand whatever was disabled, frozen or revoked since: each has one
\* record, after the exit whose note had the grade that met the policy.
THEOREM ClaimsHaveGround == ClaimSpec => []ClaimsStand
<1>1. ClaimInv => ClaimsStand
  BY DEF ClaimInv
<1> QED
  BY <1>1, ClaimInvariant, PTL

-----------------------------------------------------------------------------
\* The state of AssetFlow that ClaimFlow reads off the ledger.
Blocked == Held({FROZEN, REVOKED})
Revoked == Held({REVOKED})

\* An object is held if the nullifier that spends it has the status.
LEMMA HeldByNullifier ==
  ASSUME MappingsOK, NEW S, ACTIVE \notin S, NEW x
  PROVE  x \in Held(S) <=> At(statusByNf, NullifierOf(x)) \in S
<1>1. \A nf \in DOMAIN statusByNf : \E y : nf = NullifierOf(y)
  BY DEF MappingsOK
<1>2. x \in Held(S) <=> \E nf \in DOMAIN statusByNf : statusByNf[nf] \in S /\ x = SpentBy(nf)
  BY DEF Held
<1>3. \A nf \in DOMAIN statusByNf : x = SpentBy(nf) <=> nf = NullifierOf(x)
  BY <1>1, NullifiersInjective
<1>4. x \in Held(S)
        <=> NullifierOf(x) \in DOMAIN statusByNf /\ statusByNf[NullifierOf(x)] \in S
  BY <1>2, <1>3
<1> QED
  BY <1>4 DEF At, ACTIVE

\* The mapped history created what has a producer, and consumed only what is
\* spent.
LEMMA ClaimHistory ==
  ASSUME HistoryOK
  PROVE  /\ ClaimFlow!Created(Events) = DOMAIN producerOf
         /\ \A x \in ClaimFlow!Consumed(Events) : At(spentIn, NullifierOf(x)) # 0
<1>1. /\ DOMAIN Events = Ids
      /\ \A i \in Ids : /\ Events[i].inputs = records[i].inputs
                        /\ Events[i].outputs = records[i].outputs
  BY DEF Events, Ids
<1>2. ClaimFlow!Created(Events) = DOMAIN producerOf
  <2>1. ASSUME NEW x
        PROVE  x \in ClaimFlow!Created(Events) <=> \E i \in Ids : x \in records[i].outputs
    BY <1>1 DEF ClaimFlow!Created
  <2>2. ASSUME NEW x
        PROVE  x \in DOMAIN producerOf <=> \E i \in Ids : x \in records[i].outputs
    BY DEF HistoryOK
  <2> QED
    BY <2>1, <2>2
<1>3. \A x \in ClaimFlow!Consumed(Events) : At(spentIn, NullifierOf(x)) # 0
  BY <1>1 DEF ClaimFlow!Consumed, HistoryOK
<1> QED
  BY <1>2, <1>3

\* A record appends its event.
LEMMA EventAppended ==
  ASSUME HistoryOK, NEW r, records' = Append(records, r),
         NEW event, event = [inputs |-> r.inputs, outputs |-> r.outputs]
  PROVE  Events' = Append(Events, event) /\ Events' # <<>> /\ ClaimFlow!Last(Events') = event
<1>1. PICK n : n = Len(records) + 1
  OBVIOUS
<1>2. /\ n \in Nat \ {0} /\ Ids = 1..(n - 1) /\ Ids' = 1..n
      /\ records'[n] = r
      /\ \A i \in Ids : records'[i] = records[i]
  BY <1>1, RecordAppended
<1>3. n \in Ids' /\ \A i \in Ids : i \in Ids'
  BY <1>2
<1>4. Events'[n] = event /\ \A i \in Ids : Events'[i] = Events[i]
  BY <1>2, <1>3 DEF Events, Ids
<1>5. Events' = [i \in 1..n |-> Events'[i]] /\ Events = [i \in 1..(n - 1) |-> Events[i]]
  BY <1>2 DEF Events, Ids
<1>6. n - 1 \in Nat /\ (n - 1) + 1 = n
  BY <1>2
<1>7. Events' = Append(Events, event) /\ Events' # <<>> /\ Len(Events') = n
  BY <1>2, <1>4, <1>5, <1>6, ExtendedIsAppended
<1>8. ClaimFlow!Last(Events') = event
  BY <1>4, <1>7 DEF ClaimFlow!Last
<1> QED
  BY <1>7, <1>8

\* A move is recorded by AssetFlow.
LEMMA MoveRecords ==
  ASSUME ClaimInv, NEW kind, NEW inputs, NEW outputs, Moves(kind, inputs, outputs)
  PROVE  ClaimFlow!Next
<1>1. PICK r : /\ r = [kind |-> kind, inputs |-> inputs, outputs |-> Range(outputs),
                       claim |-> <<>>]
               /\ records' = Append(records, r)
  BY DEF Moves, Complete
<1>2. PICK event : event = [inputs |-> r.inputs, outputs |-> r.outputs]
  OBVIOUS
<1>3. event.inputs = inputs /\ event.outputs = Range(outputs)
  BY <1>1, <1>2
<1>4. MappingsOK /\ HistoryOK
  BY DEF ClaimInv
<1>5. /\ inputs \subseteq DOMAIN producerOf \cap Spendable
      /\ UNCHANGED statusByNf
  BY DEF Moves, Complete
<1>6. PICK n : n = Len(records) + 1
  OBVIOUS
<1>7. \A x \in inputs : /\ At(spentIn, NullifierOf(x)) = 0
                        /\ At(statusByNf, NullifierOf(x)) = ACTIVE
  BY <1>6, MoveEffect
<1>8. DOMAIN producerOf \cap Range(outputs) = {} /\ Range(outputs) \subseteq Objects
  BY <1>6, MoveEffect
<1>9. ACTIVE \notin {FROZEN, REVOKED}
  BY DEF ACTIVE, FROZEN, REVOKED
<1>10. \A x \in inputs : x \notin Blocked
  BY <1>4, <1>7, <1>9, HeldByNullifier DEF Blocked
<1>11. event.inputs \subseteq (ClaimFlow!LiveIn(Events) \cap Spendable) \ Blocked
  BY <1>3, <1>4, <1>5, <1>7, <1>10, ClaimHistory DEF ClaimFlow!LiveIn
<1>12. event.outputs \subseteq Objects \ ClaimFlow!Created(Events)
  BY <1>3, <1>4, <1>8, ClaimHistory
<1>13. ClaimFlow!Acceptable(Events, Blocked, event)
  BY <1>11, <1>12 DEF ClaimFlow!Acceptable
<1>14. Events' = Append(Events, event) /\ Events' # <<>> /\ ClaimFlow!Last(Events') = event
  BY <1>1, <1>2, <1>4, EventAppended
<1>15. Blocked' = Blocked /\ Revoked' = Revoked
  BY <1>5 DEF Blocked, Revoked, Held
<1>16. ClaimFlow!Record(event)
  BY <1>13, <1>14, <1>15 DEF ClaimFlow!Record, Blocked, Revoked
<1> QED
  BY <1>14, <1>16 DEF ClaimFlow!Next

\* An issue is recorded as an event that moves nothing.
LEMMA IssueRecords ==
  ASSUME ClaimInv, NEW dpp, NEW policy, Issue(dpp, policy)
  PROVE  ClaimFlow!Next
<1>1. PICK r : /\ r = [kind |-> "issue", inputs |-> {}, outputs |-> {},
                       claim |-> <<dpp, policy>>]
               /\ records' = Append(records, r)
               /\ UNCHANGED statusByNf
  BY DEF Issue
<1>2. PICK event : event = [inputs |-> r.inputs, outputs |-> r.outputs]
  OBVIOUS
<1>3. event.inputs = {} /\ event.outputs = {}
  BY <1>1, <1>2
<1>4. Events' = Append(Events, event) /\ Events' # <<>> /\ ClaimFlow!Last(Events') = event
  BY <1>1, <1>2, EventAppended DEF ClaimInv
<1>5. Blocked' = Blocked /\ Revoked' = Revoked
  BY <1>1 DEF Blocked, Revoked, Held
<1>6. ClaimFlow!Acceptable(Events, Blocked, event)
  BY <1>3 DEF ClaimFlow!Acceptable
<1>7. ClaimFlow!Record(event)
  BY <1>4, <1>5, <1>6 DEF ClaimFlow!Record, Blocked, Revoked
<1> QED
  BY <1>4, <1>7 DEF ClaimFlow!Next

\* A status change blocks, releases or revokes an object of AssetFlow.
LEMMA StatusFlows ==
  ASSUME ClaimInv, NEW x \in Spendable, NEW new, SetStatus(NullifierOf(x), new)
  PROVE  ClaimFlow!Next
<1>1. PICK old : old = At(statusByNf, NullifierOf(x))
  OBVIOUS
<1>2. /\ At(spentIn, NullifierOf(x)) = 0
      /\ StatusChange(old, new)
      /\ statusByNf' = Put(statusByNf, {NullifierOf(x)}, new)
      /\ UNCHANGED <<records, producerOf, spentIn, claimRecordOf>>
  BY <1>1 DEF SetStatus
<1>3. MappingsOK /\ MappingsOK' /\ HistoryOK
  <2>1. StatusSet
    BY DEF StatusSet
  <2>2. DOMAIN statusByNf' \subseteq {NullifierOf(y) : y \in Spendable}
    BY <1>2 DEF Put, ClaimInv, MappingsOK
  <2> QED
    BY <1>2, <2>2 DEF ClaimInv, MappingsOK, Ids
<1>4. \A y : At(statusByNf', NullifierOf(y)) = IF y = x THEN new
                                               ELSE At(statusByNf, NullifierOf(y))
  BY <1>2, NullifiersInjective DEF Put, At
<1>5. /\ ACTIVE \notin {FROZEN, REVOKED} /\ ACTIVE \notin {REVOKED}
      /\ ACTIVE # FROZEN /\ FROZEN # REVOKED /\ ACTIVE # REVOKED
  BY DEF ACTIVE, FROZEN, REVOKED
<1>6. ASSUME NEW S, ACTIVE \notin S
      PROVE  /\ x \in Held(S) <=> old \in S
             /\ Held(S)' = IF new \in S THEN Held(S) \cup {x} ELSE Held(S) \ {x}
  <2>1. \A y : y \in Held(S) <=> At(statusByNf, NullifierOf(y)) \in S
    BY <1>3, <1>6, HeldByNullifier
  <2>2. \A y : y \in Held(S)' <=> At(statusByNf', NullifierOf(y)) \in S
    <3>1. \A nf \in DOMAIN statusByNf' : \E y : nf = NullifierOf(y)
      BY <1>3 DEF MappingsOK
    <3> SUFFICES ASSUME NEW y
                 PROVE  y \in Held(S)' <=> At(statusByNf', NullifierOf(y)) \in S
      OBVIOUS
    <3>2. y \in Held(S)' <=> \E nf \in DOMAIN statusByNf' : statusByNf'[nf] \in S /\ y = SpentBy(nf)
      BY DEF Held
    <3>3. \A nf \in DOMAIN statusByNf' : y = SpentBy(nf) <=> nf = NullifierOf(y)
      BY <3>1, NullifiersInjective
    <3>4. y \in Held(S)'
            <=> NullifierOf(y) \in DOMAIN statusByNf' /\ statusByNf'[NullifierOf(y)] \in S
      BY <3>2, <3>3
    <3> QED
      BY <1>6, <3>4 DEF At, ACTIVE
  <2> QED
    BY <1>1, <1>4, <2>1, <2>2
<1>7. Events' = Events
  BY <1>2 DEF Events
<1>8. /\ x \in Blocked <=> old \in {FROZEN, REVOKED}
      /\ Blocked' = IF new \in {FROZEN, REVOKED} THEN Blocked \cup {x} ELSE Blocked \ {x}
  BY <1>5, <1>6 DEF Blocked
<1>9. /\ x \in Revoked <=> old \in {REVOKED}
      /\ Revoked' = IF new \in {REVOKED} THEN Revoked \cup {x} ELSE Revoked \ {x}
  BY <1>5, <1>6 DEF Revoked
<1>10. CASE old = ACTIVE /\ new = FROZEN
  <2>1. x \notin Blocked /\ Blocked' = Blocked \cup {x} /\ Revoked' = Revoked
    BY <1>5, <1>8, <1>9, <1>10
  <2>2. x \notin ClaimFlow!Consumed(Events)
    BY <1>2, <1>3, ClaimHistory
  <2>3. ClaimFlow!Block(x)
    BY <1>7, <2>1, <2>2 DEF ClaimFlow!Block, Blocked, Revoked
  <2>4. x \in (Blocked' \ Blocked) \cap Spendable
    BY <2>1
  <2> QED
    BY <2>3, <2>4 DEF ClaimFlow!Next, Blocked
<1>11. CASE old = FROZEN /\ new = ACTIVE
  <2>1. x \in Blocked \ Revoked /\ Blocked' = Blocked \ {x} /\ Revoked' = Revoked
    BY <1>5, <1>8, <1>9, <1>11
  <2>2. ClaimFlow!Release(x)
    BY <1>7, <2>1 DEF ClaimFlow!Release, Blocked, Revoked
  <2>3. x \in Blocked \ Blocked'
    BY <2>1
  <2> QED
    BY <2>2, <2>3 DEF ClaimFlow!Next, Blocked
<1>12. CASE old = FROZEN /\ new = REVOKED
  <2>1. x \in Blocked \ Revoked /\ Blocked' = Blocked /\ Revoked' = Revoked \cup {x}
    BY <1>5, <1>8, <1>9, <1>12
  <2>2. ClaimFlow!Revoke(x)
    BY <1>7, <2>1 DEF ClaimFlow!Revoke, Blocked, Revoked
  <2>3. x \in Revoked' \ Revoked
    BY <2>1
  <2> QED
    BY <2>2, <2>3 DEF ClaimFlow!Next, Revoked
<1> QED
  BY <1>2, <1>10, <1>11, <1>12 DEF StatusChange

\* The claim ledger implements AssetFlow, by nullifiers alone: what has a status
\* is not an object but the nullifier that will spend it.
THEOREM ClaimImplements == ClaimSpec => ClaimImplementsFlow
<1>1. ClaimInit => ClaimFlow!Init
  <2> SUFFICES ASSUME ClaimInit PROVE ClaimFlow!Init
    OBVIOUS
  <2>1. Events = <<>>
    BY DEF ClaimInit, Events
  <2>2. Blocked = {} /\ Revoked = {}
    BY DEF ClaimInit, Blocked, Revoked, Held, EmptyMapping
  <2> QED
    BY <2>1, <2>2 DEF ClaimFlow!Init, Blocked, Revoked
<1>2. ASSUME ClaimInv, [ClaimNext]_claimVars
      PROVE  [ClaimFlow!Next]_ClaimFlow!flowVars
  <2>1. CASE Moved
    BY <1>2, <2>1, MoveRecords DEF Moved
  <2>2. CASE Issued
    BY <1>2, <2>2, IssueRecords DEF Issued
  <2>3. CASE StatusSet
    BY <1>2, <2>3, StatusFlows DEF StatusSet
  <2>4. CASE Elsewhere
    <3>1. Events' = Events /\ Blocked' = Blocked /\ Revoked' = Revoked
      BY <2>4 DEF Elsewhere, Events, Blocked, Revoked, Held
    <3> QED
      BY <3>1 DEF ClaimFlow!flowVars, Blocked, Revoked
  <2> QED
    BY <1>2, <2>1, <2>2, <2>3, <2>4, ClaimSteps
<1> QED
  BY <1>1, <1>2, ClaimInvariant, PTL DEF ClaimSpec, ClaimImplementsFlow, ClaimFlow!Spec

-----------------------------------------------------------------------------
(* Its audits. *)

Items == Goods \cup DPPIds
BlockRecords == [inputs : SUBSET Goods, outputs : SUBSET Items, issued : SUBSET DPPIds]
Blocks == [hash : Nat, history : Seq(BlockRecords)]

\* Every fork, and every block of one.
Chains   == forks \cup {chain}
Branches == UNION {{f[k] : k \in DOMAIN f} : f \in Chains}

\* Every fork has a block, every block the records of a ledger and a hash that was
\* given out, and no two blocks have one hash.
ChainInv ==
  /\ hashes \in Nat /\ reorgs \in Nat
  /\ \A f \in Chains : f \in Seq(Blocks) /\ f # <<>>
  /\ \A x \in Branches : RecordedHistory(x.history) /\ x.hash <= hashes
  /\ \A x, y \in Branches : x.hash = y.hash => x = y

\* The snapshot's block has been on the chain since the audit began.
Standing == Check /\ ~cameBack

\* Where the audit is.  While the snapshot stands, what is read is what there was
\* when the audit began.
PhaseInv ==
  /\ pc \in {"idle", "claim", "exit", "trace", "traced", "forward", "forwarded", "failed"}
  /\ snap \in [number : Nat, hash : Nat] /\ snap.hash <= hashes
  /\ pc # "idle" /\ Standing => View = snapHistory
  /\ pc \in {"idle", "claim", "exit"} => seen = {} /\ expanded = {} /\ ends = {}
  /\ pc = "idle" => claimIds = <<>>
  /\ pc \in {"claim", "exit", "trace", "traced"} => start \in DPPIds
  /\ pc \in {"forward", "forwarded"} => start \in Goods
  /\ pc \in {"traced", "forwarded"} => queue = <<>>
  /\ queue \in Seq(Goods) /\ seen \in SUBSET Goods

\* The record of the exit, found with that of the issue.
ExitId == Producer(snapHistory, start)

\* Backward, while the snapshot stands: the DPP descends from whatever was
\* reached, what was seen has its record expanded, and the parents of a record
\* that was expanded were reached.
TraceInv ==
  LET reached == seen \cup ToSet(queue) IN
    /\ pc = "exit" /\ Standing => claimIds = <<IssueOf(snapHistory, start)>>
    /\ (pc = "trace" /\ Standing) \/ (pc = "traced" /\ ~cameBack) =>
         /\ RecordedHistory(snapHistory)
         /\ claimIds = <<IssueOf(snapHistory, start), ExitId>>
         /\ ExitId # 0 /\ snapHistory[ExitId].inputs \subseteq reached
         /\ \A x \in reached : start \in Descendants(snapHistory, x)
         /\ seen \subseteq Created(snapHistory)
         /\ expanded = {Producer(snapHistory, x) : x \in seen}
         /\ \A id \in expanded : snapHistory[id].inputs \subseteq reached
         /\ ends = {x \in seen : snapHistory[Producer(snapHistory, x)].inputs = {}}

\* What the event that consumed an object created.
Consequences(history, x) ==
  IF SpentIn(history, x) = 0 THEN {} ELSE history[SpentIn(history, x)].outputs

\* Forward, while the snapshot stands: whatever was reached came out of the
\* object, what came out of what was seen was reached, or is a DPP and an end.
ForwardInv ==
  LET reached == seen \cup ToSet(queue) IN
    pc \in {"forward", "forwarded"} /\ Standing =>
      /\ RecordedHistory(snapHistory)
      /\ start \in reached /\ reached \subseteq Outcomes(start)
      /\ \A x \in seen : Consequences(snapHistory, x) \ DPPIds \subseteq reached
      /\ ends = UNION {ForwardEnds(x, Consequences(snapHistory, x)) : x \in seen}

\* The inductive invariant.
AuditInv == ChainInv /\ PhaseInv /\ TraceInv /\ ForwardInv

-----------------------------------------------------------------------------
LEMMA GoodsAreNumbers ==
  /\ Goods \subseteq Nat /\ DPPIds \subseteq Nat
  /\ IsFiniteSet(Goods) /\ IsFiniteSet(Items)
  /\ Goods \subseteq Items /\ DPPIds \subseteq Items /\ Goods \cap DPPIds = {}
<1>1. /\ MaxGoods \in Nat /\ MaxDPPs \in Nat
      /\ 1 \in Int /\ MaxGoods \in Int /\ MaxGoods + 1 \in Int /\ MaxGoods + MaxDPPs \in Int
  BY GoodsAssumption
<1>2. IsFiniteSet(Goods) /\ IsFiniteSet(DPPIds)
  BY <1>1, FS_Interval DEF Goods, DPPIds
<1>3. IsFiniteSet(Items)
  BY <1>2, FS_Union DEF Items
<1> QED
  BY <1>1, <1>2, <1>3 DEF Goods, DPPIds, Items

\* Where an object was created and consumed.
LEMMA RecordsFound ==
  ASSUME NEW history, RecordedHistory(history), NEW ref
  PROVE  /\ DOMAIN history = 1..Len(history) /\ Len(history) \in Nat
         /\ \A i \in DOMAIN history : history[i] \in BlockRecords
         /\ Producer(history, ref) \in Nat /\ SpentIn(history, ref) \in Nat
         /\ Producer(history, ref) = 0 <=> ref \notin Created(history)
         /\ SpentIn(history, ref) = 0 <=> ref \notin Consumed(history)
         /\ Producer(history, ref) # 0 =>
              /\ Producer(history, ref) \in DOMAIN history
              /\ ref \in history[Producer(history, ref)].outputs
         /\ SpentIn(history, ref) # 0 =>
              /\ SpentIn(history, ref) \in DOMAIN history
              /\ ref \in history[SpentIn(history, ref)].inputs
         /\ \A i \in DOMAIN history : ref \in history[i].outputs => Producer(history, ref) = i
         /\ \A i \in DOMAIN history : ref \in history[i].inputs => SpentIn(history, ref) = i
<1>1. history \in Seq(BlockRecords) /\ Causal(history)
  BY DEF RecordedHistory, BlockRecords, Items
<1> QED
  BY <1>1, EventsFound DEF Producer, SpentIn

\* What is queued next, as a sequence.
LEMMA GoodsInSequence ==
  ASSUME NEW set \in SUBSET Goods
  PROVE  SetToSeq(set) \in Seq(Goods) /\ ToSet(SetToSeq(set)) = set
<1>1. IsFiniteSet(set)
  BY GoodsAreNumbers, FS_Subset
<1>2. SetToSeq(set) \in Seq(set) /\ ToSet(SetToSeq(set)) = set
  BY <1>1, SequenceOfSet
<1> QED
  BY <1>2, SeqMonotonic

-----------------------------------------------------------------------------
(* The chain. *)

LEMMA TipIsBlock ==
  ASSUME ChainInv
  PROVE  /\ Len(chain) \in Nat \ {0} /\ DOMAIN chain = 1..Len(chain)
         /\ Len(chain) \in DOMAIN chain
         /\ chain \in Seq(Blocks)
         /\ \A k \in DOMAIN chain : /\ chain[k] \in Branches /\ chain[k] \in Blocks
                                   /\ RecordedHistory(chain[k].history)
         /\ Tip \in Branches /\ Tip \in Blocks /\ RecordedHistory(Tip.history)
<1>1. /\ Len(chain) \in Nat \ {0} /\ DOMAIN chain = 1..Len(chain)
      /\ \A k \in DOMAIN chain : chain[k] \in Blocks
  BY EmptySeq, LenProperties, ElementOfSeq DEF ChainInv, Chains
<1>2. Len(chain) \in DOMAIN chain /\ chain \in Seq(Blocks)
  BY <1>1 DEF ChainInv, Chains
<1>3. \A k \in DOMAIN chain : chain[k] \in Branches
  BY DEF Branches, Chains
<1>4. \A k \in DOMAIN chain : RecordedHistory(chain[k].history)
  BY <1>3 DEF ChainInv
<1> QED
  BY <1>1, <1>2, <1>3, <1>4 DEF Tip

\* A record the ledger may add makes a history of a ledger.
LEMMA RecordsAreRecorded ==
  ASSUME NEW history, RecordedHistory(history), NEW record \in Records(history)
  PROVE  Append(history, record) \in Seq(BlockRecords) /\ RecordedHistory(Append(history, record))
<1> DEFINE new == Items \ Created(history)
<1>1. history \in Seq(BlockRecords) /\ Causal(history)
  BY DEF RecordedHistory, BlockRecords, Items
<1>0. PICK i, s, d :
        /\ record = [inputs |-> i, outputs |-> s, issued |-> d]
        /\ \/ /\ i = {} /\ d = {} /\ s \subseteq Goods \ Created(history)
              /\ Cardinality(s) = 1
           \/ /\ i \subseteq LiveIn(history) \cap Goods /\ Cardinality(i) \in {1, 2}
              /\ d = {} /\ s \subseteq new /\ Cardinality(s) \in {1, 2}
           \/ i = {} /\ s = {} /\ d \subseteq DPPIds
  BY DEF Records, Items
<1>2. /\ record = [inputs |-> i, outputs |-> s, issued |-> d]
      /\ i \subseteq LiveIn(history) \cap Goods /\ s \subseteq new /\ d \subseteq DPPIds
      /\ i = {} => s = {} \/ (s \subseteq Goods /\ Cardinality(s) = 1)
      /\ i # {} => Cardinality(s) \in {1, 2}
  <2>1. Cardinality({}) = 0 /\ Goods \subseteq Items
    BY FS_EmptySet, GoodsAreNumbers
  <2>2. i = {} => Cardinality(i) \notin {1, 2}
    BY <2>1
  <2> QED
    BY <1>0, <2>1, <2>2
<1>3. /\ record \in BlockRecords
      /\ record.inputs = i /\ record.outputs = s /\ record.issued = d
  BY <1>2 DEF BlockRecords
<1>4. IF record.inputs = {}
      THEN record.outputs = {} \/ \E o \in Goods : record.outputs = {o}
      ELSE record.outputs # {}
  <2>1. ASSUME s \subseteq Goods, Cardinality(s) = 1
        PROVE  \E o \in Goods : s = {o}
    <3>1. IsFiniteSet(s)
      BY <2>1, GoodsAreNumbers, FS_Subset
    <3> QED
      BY <2>1, <3>1, FS_Singleton
  <2>2. Cardinality(s) \in {1, 2} => s # {}
    BY FS_EmptySet
  <2> QED
    BY <1>2, <1>3, <2>1, <2>2
<1>5. /\ record.inputs \subseteq LiveIn(history)
      /\ record.outputs \cap Created(history) = {}
  BY <1>2, <1>3
<1> DEFINE long == Append(history, record)
<1>6. long \in Seq(BlockRecords) /\ Causal(long)
  BY <1>1, <1>3, <1>5, CausalAppend
<1>7. /\ Len(history) \in Nat /\ DOMAIN history = 1..Len(history)
      /\ DOMAIN long = 1..(Len(history) + 1)
      /\ \A k \in 1..Len(history) : long[k] = history[k]
      /\ long[Len(history) + 1] = record
  BY <1>1, <1>3, AppendProperties
<1> HIDE DEF long
<1>8. ASSUME NEW k \in DOMAIN long
      PROVE  IF long[k].inputs = {}
             THEN long[k].outputs = {} \/ \E o \in Goods : long[k].outputs = {o}
             ELSE long[k].outputs # {}
  <2>1. CASE k \in 1..Len(history)
    BY <1>7, <2>1 DEF RecordedHistory
  <2>2. CASE k = Len(history) + 1
    BY <1>4, <1>7, <2>2
  <2> QED
    BY <1>7, <2>1, <2>2
<1>9. RecordedHistory(long)
  BY <1>6, <1>8 DEF RecordedHistory, BlockRecords, Items
<1> QED
  BY <1>6, <1>9 DEF long

\* The first m blocks stay, and b with a new hash follows them; what was left is a
\* fork.
Grown(m, b) ==
  /\ m \in Nat /\ m <= Len(chain)
  /\ b \in Blocks /\ RecordedHistory(b.history) /\ b.hash = hashes + 1
  /\ chain' \in Seq(Blocks) /\ Len(chain') = m + 1
  /\ \A i \in 1..m : chain'[i] = chain[i]
  /\ chain'[m + 1] = b
  /\ forks' \subseteq Chains
  /\ hashes' = hashes + 1 /\ reorgs' \in Nat /\ cameBack' = cameBack

LEMMA MineGrows ==
  ASSUME ChainInv, Mine
  PROVE  (\E m, b : Grown(m, b)) /\ UNCHANGED auditVars
<1>1. PICK record \in Records(Tip.history) :
        chain' = Append(chain, [hash |-> hashes + 1, history |-> Append(Tip.history, record)])
  BY DEF Mine
<1> DEFINE b == [hash |-> hashes + 1, history |-> Append(Tip.history, record)]
<1>2. /\ Append(Tip.history, record) \in Seq(BlockRecords)
      /\ RecordedHistory(Append(Tip.history, record))
  BY TipIsBlock, RecordsAreRecorded
<1>3. /\ b \in Blocks /\ b.hash = hashes + 1
      /\ b.history = Append(Tip.history, record)
  <2>1. hashes + 1 \in Nat
    BY DEF ChainInv
  <2> QED
    BY <1>2, <2>1 DEF Blocks
<1>4. /\ chain' = Append(chain, b) /\ hashes' = hashes + 1 /\ UNCHANGED auditVars
      /\ forks' \subseteq Chains /\ reorgs' \in Nat /\ cameBack' = cameBack
  BY <1>1 DEF Mine, Chains, ChainInv
<1> HIDE DEF b
<1>5. /\ chain' \in Seq(Blocks) /\ Len(chain') = Len(chain) + 1
      /\ \A i \in 1..Len(chain) : chain'[i] = chain[i]
      /\ chain'[Len(chain) + 1] = b
  BY <1>3, <1>4, TipIsBlock, AppendProperties
<1>6. Grown(Len(chain), b)
  BY <1>2, <1>3, <1>4, <1>5, TipIsBlock DEF Grown
<1> QED
  BY <1>4, <1>6

LEMMA ReorgGrows ==
  ASSUME ChainInv, NEW k \in 2..Len(chain), Reorg(k)
  PROVE  (\E m, b : Grown(m, b)) /\ UNCHANGED auditVars
<1> DEFINE below == chain[k - 1].history
<1>0. PICK history \in {below} \cup {Append(below, record) : record \in Records(below)} :
        chain' = Append(SubSeq(chain, 1, k - 1), [hash |-> hashes + 1, history |-> history])
  BY DEF Reorg
<1> DEFINE b == [hash |-> hashes + 1, history |-> history]
<1>1. /\ Len(chain) \in Nat \ {0} /\ DOMAIN chain = 1..Len(chain)
      /\ k - 1 \in DOMAIN chain /\ k \in Nat /\ k - 1 \in Nat
  BY TipIsBlock
<1>2. history \in Seq(BlockRecords) /\ RecordedHistory(history)
  <2>1. RecordedHistory(below) /\ below \in Seq(BlockRecords)
    BY <1>1, TipIsBlock DEF Blocks
  <2>2. CASE history = below
    BY <2>1, <2>2
  <2>3. CASE \E record \in Records(below) : history = Append(below, record)
    BY <2>1, <2>3, RecordsAreRecorded
  <2> QED
    BY <2>2, <2>3
<1>3. /\ b \in Blocks /\ b.hash = hashes + 1
      /\ b.history = history
  <2>1. hashes + 1 \in Nat
    BY DEF ChainInv
  <2> QED
    BY <1>2, <2>1 DEF Blocks
<1>4. /\ chain' = Append(SubSeq(chain, 1, k - 1), b)
      /\ hashes' = hashes + 1 /\ UNCHANGED auditVars
      /\ forks' \subseteq Chains /\ reorgs' \in Nat /\ cameBack' = cameBack
  BY <1>0 DEF Reorg, Chains, ChainInv
<1> HIDE DEF b
<1>5. /\ SubSeq(chain, 1, k - 1) \in Seq(Blocks)
      /\ Len(SubSeq(chain, 1, k - 1)) = k - 1
      /\ \A i \in 1..(k - 1) : SubSeq(chain, 1, k - 1)[i] = chain[i]
  <2>1. \A i \in 1..(k - 1) : chain[i] \in Blocks
    BY <1>1, TipIsBlock
  <2>2. /\ 1 \in Int /\ k - 1 \in Int /\ 1 <= k - 1 /\ (k - 1) - 1 + 1 = k - 1
        /\ \A i \in 1..(k - 1) : 1 + i - 1 = i
    BY <1>1
  <2> QED
    BY <2>1, <2>2, SubSeqProperties
<1>6. /\ chain' \in Seq(Blocks) /\ Len(chain') = (k - 1) + 1
      /\ \A i \in 1..(k - 1) : chain'[i] = chain[i]
      /\ chain'[(k - 1) + 1] = b
  BY <1>3, <1>4, <1>5, AppendProperties
<1>7. Grown(k - 1, b)
  BY <1>1, <1>2, <1>3, <1>4, <1>6 DEF Grown
<1> QED
  BY <1>4, <1>7

\* A new block has a new hash: a snapshot that is on the chain after a step was
\* there before, with the same records.
LEMMA GrownKeeps ==
  ASSUME ChainInv, NEW m, NEW b, Grown(m, b), UNCHANGED auditVars,
         snap \in [number : Nat, hash : Nat], snap.hash <= hashes
  PROVE  /\ ChainInv' /\ hashes <= hashes'
         /\ Standing' => Standing /\ View' = View
<1>1. /\ hashes \in Nat /\ m \in Nat /\ m <= Len(chain) /\ hashes' = hashes + 1
      /\ DOMAIN chain = 1..Len(chain) /\ Len(chain) \in Nat
      /\ Len(chain') = m + 1 /\ DOMAIN chain' = 1..(m + 1)
      /\ \A i \in 1..m : chain'[i] = chain[i]
      /\ chain'[m + 1] = b /\ b \in Blocks /\ b.hash = hashes + 1
      /\ snap' = snap /\ snap.hash \in Nat /\ cameBack' = cameBack
  BY TipIsBlock, LenProperties DEF Grown, ChainInv, auditVars
<1>2. \A i \in 1..(m + 1) : i \in 1..m \/ i = m + 1
  BY <1>1
<1>3. 1..m \subseteq DOMAIN chain
  BY <1>1
<1>4. ChainInv'
  <2>1. \A f \in Chains' : f \in Chains \/ f = chain'
    BY DEF Chains, Grown
  <2>2. \A k \in DOMAIN chain' : chain'[k] \in Branches \/ chain'[k] = b
    BY <1>1, <1>2, <1>3, TipIsBlock
  <2>3. \A x \in Branches' : x \in Branches \/ x = b
    <3>1. \A x \in Branches' : \E f \in Chains' : \E k \in DOMAIN f : x = f[k]
      BY DEF Branches
    <3>2. \A f \in Chains : \A k \in DOMAIN f : f[k] \in Branches
      BY DEF Branches
    <3> QED
      BY <2>1, <2>2, <3>1, <3>2
  <2>4. \A x \in Branches : /\ RecordedHistory(x.history) /\ x.hash \in Nat
                            /\ x.hash <= hashes
    <3>1. \A x \in Branches : x \in Blocks
      <4>1. \A f \in Chains : \A k \in DOMAIN f : f[k] \in Blocks
        BY ElementOfSeq, LenProperties DEF ChainInv
      <4> QED
        BY <4>1 DEF Branches
    <3> QED
      BY <3>1 DEF ChainInv, Blocks
  <2>5. \A x \in Branches' : RecordedHistory(x.history) /\ x.hash <= hashes'
    BY <1>1, <2>3, <2>4 DEF Grown
  <2>6. \A x, y \in Branches' : x.hash = y.hash => x = y
    <3>1. \A x \in Branches : x.hash # b.hash
      BY <1>1, <2>4
    <3> QED
      BY <2>3, <3>1 DEF ChainInv
  <2>7. \A f \in Chains' : f \in Seq(Blocks) /\ f # <<>>
    <3>1. chain' \in Seq(Blocks) /\ chain' # <<>>
      BY <1>1, EmptySeq DEF Grown
    <3> QED
      BY <2>1, <3>1 DEF ChainInv
  <2>8. hashes' \in Nat /\ reorgs' \in Nat
    BY <1>1 DEF Grown
  <2> QED
    BY <2>5, <2>6, <2>7, <2>8 DEF ChainInv
<1>5. ASSUME Check'
      PROVE  Check /\ View' = View
  <2>1. snap.number \in 1..(m + 1) /\ chain'[snap.number].hash = snap.hash
    BY <1>1, <1>5 DEF Check, Holds
  <2>2. snap.number # m + 1
    BY <1>1, <2>1
  <2>3. snap.number \in 1..m
    BY <1>2, <2>1, <2>2
  <2> QED
    BY <1>1, <1>3, <2>1, <2>3 DEF Check, Holds, View
<1> QED
  BY <1>1, <1>4, <1>5 DEF Standing

\* A fork that becomes the chain again brings a snapshot that was on the chain all
\* the time, with the same records, or one that came back.
LEMMA RestoreKeeps ==
  ASSUME ChainInv, NEW fork \in forks, Restore(fork)
  PROVE  /\ ChainInv' /\ hashes' = hashes /\ UNCHANGED auditVars
         /\ Standing' => Standing /\ View' = View
<1>1. /\ chain' = fork /\ forks' \subseteq Chains /\ fork \in Chains
      /\ hashes' = hashes /\ reorgs' = reorgs + 1 /\ UNCHANGED auditVars
      /\ cameBack' = (cameBack \/ (Holds(fork) /\ ~Holds(chain)))
  BY DEF Restore, Chains
<1>2. Chains' \subseteq Chains
  BY <1>1 DEF Chains
<1>3. Branches' \subseteq Branches
  BY <1>2 DEF Branches
<1>4. ChainInv'
  <2>1. reorgs' \in Nat
    BY <1>1 DEF ChainInv
  <2> QED
    BY <1>1, <1>2, <1>3, <2>1 DEF ChainInv
<1>5. ASSUME Standing'
      PROVE  Standing /\ View' = View
  <2>1. snap' = snap
    BY <1>1 DEF auditVars
  <2>2. /\ snap.number \in DOMAIN fork /\ fork[snap.number].hash = snap.hash
        /\ ~cameBack'
    BY <1>1, <1>5, <2>1 DEF Standing, Check, Holds
  <2>3. Holds(fork)
    BY <2>2 DEF Holds
  <2>4. ~cameBack /\ Holds(chain)
    BY <1>1, <2>2, <2>3
  <2>5. snap.number \in DOMAIN chain /\ chain[snap.number].hash = snap.hash
    BY <2>4 DEF Holds
  <2>6. fork[snap.number] \in Branches /\ chain[snap.number] \in Branches
    BY <1>1, <2>2, <2>5 DEF Branches, Chains
  <2>7. fork[snap.number] = chain[snap.number]
    BY <2>2, <2>5, <2>6 DEF ChainInv
  <2> QED
    BY <1>1, <2>1, <2>4, <2>7 DEF Standing, Check, View
<1> QED
  BY <1>1, <1>4, <1>5

\* Whatever leaves the chain alone.
LEMMA ChainStays ==
  ASSUME ChainInv, UNCHANGED chainVars
  PROVE  /\ ChainInv' /\ UNCHANGED <<chain, hashes, cameBack>>
         /\ snap' = snap => Check' = Check /\ Standing' = Standing /\ View' = View
<1>1. UNCHANGED <<chain, forks, hashes, reorgs, cameBack>>
  BY DEF chainVars
<1>2. Chains' = Chains /\ Branches' = Branches
  BY <1>1 DEF Chains, Branches
<1> QED
  BY <1>1, <1>2 DEF ChainInv, Standing, Check, Holds, View

-----------------------------------------------------------------------------
(* Every step keeps the invariant. *)

LEMMA AuditInvInit == Init => AuditInv
<1> SUFFICES ASSUME Init PROVE AuditInv
  OBVIOUS
<1>1. PICK first \in Starts :
        chain = [k \in DOMAIN first |-> [hash |-> k, history |-> first[k]]]
  BY DEF Init
<1>2. /\ first \in Seq(Range(first)) /\ first # <<>>
      /\ \A k \in DOMAIN first : RecordedHistory(first[k])
  BY StartsAssumption DEF RecordedChain
<1>3. /\ Len(first) \in Nat \ {0} /\ DOMAIN first = 1..Len(first)
      /\ \A k \in DOMAIN first : first[k] \in Seq(BlockRecords)
  BY <1>2, EmptySeq, LenProperties DEF RecordedHistory, BlockRecords, Items
<1>4. ChainInv
  <2> DEFINE block(k) == [hash |-> k, history |-> first[k]]
  <2>1. \A k \in 1..Len(first) : block(k) \in Blocks
    BY <1>3 DEF Blocks
  <2>2. /\ chain = [k \in 1..Len(first) |-> block(k)]
        /\ \A k \in 1..Len(first) : block(k).hash = k /\ block(k).history = first[k]
    BY <1>1, <1>3
  <2> HIDE DEF block
  <2>3. /\ chain \in Seq(Blocks) /\ Len(chain) = Len(first) /\ chain # <<>>
        /\ DOMAIN chain = 1..Len(first)
    BY <1>3, <2>1, <2>2
  <2>4. Chains = {chain} /\ hashes = Len(first) /\ reorgs = 0
    BY <2>3 DEF Init, Chains
  <2>5. \A x \in Branches : \E k \in 1..Len(first) : x = block(k)
    BY <2>2, <2>3, <2>4 DEF Branches
  <2>6. \A x \in Branches : RecordedHistory(x.history) /\ x.hash <= hashes
    BY <1>2, <1>3, <2>2, <2>4, <2>5
  <2>7. \A x, y \in Branches : x.hash = y.hash => x = y
    BY <2>2, <2>5
  <2>8. hashes \in Nat /\ reorgs \in Nat
    BY <1>3, <2>4
  <2> QED
    BY <2>3, <2>4, <2>6, <2>7, <2>8 DEF ChainInv
<1>5. PhaseInv
  BY DEF Init, PhaseInv
<1> QED
  BY <1>4, <1>5 DEF Init, AuditInv, TraceInv, ForwardInv

LEMMA ChainStepKeeps ==
  ASSUME AuditInv,
         \/ Mine \/ \E k \in 2..Len(chain) : Reorg(k)
         \/ \E fork \in forks : Restore(fork)
  PROVE  AuditInv'
<1>1. ChainInv /\ PhaseInv /\ TraceInv /\ ForwardInv
  BY DEF AuditInv
<1>2. snap \in [number : Nat, hash : Nat] /\ snap.hash <= hashes /\ hashes \in Nat
  BY <1>1 DEF PhaseInv, ChainInv
<1>3. /\ ChainInv' /\ hashes <= hashes' /\ UNCHANGED auditVars
      /\ Standing' => Standing /\ View' = View
  <2>1. CASE \E fork \in forks : Restore(fork)
    BY <1>1, <1>2, <2>1, RestoreKeeps
  <2>2. CASE Mine \/ \E k \in 2..Len(chain) : Reorg(k)
    <3>1. (\E m, b : Grown(m, b)) /\ UNCHANGED auditVars
      BY <1>1, <2>2, MineGrows, ReorgGrows
    <3> QED
      BY <1>1, <1>2, <3>1, GrownKeeps
  <2> QED
    BY <2>1, <2>2
<1>4. cameBack => cameBack'
  <2>1. \A k : Reorg(k) => cameBack' = cameBack
    BY DEF Reorg
  <2>2. \A fork : Restore(fork) => cameBack' = (cameBack \/ (Holds(fork) /\ ~Holds(chain)))
    BY DEF Restore
  <2>3. Mine => cameBack' = cameBack
    BY DEF Mine
  <2> QED
    BY <2>1, <2>2, <2>3
<1>5. UNCHANGED <<pc, snap, start, claimIds, queue, seen, expanded, ends, snapHistory>>
  BY <1>3 DEF auditVars, searchVars
<1>6. PhaseInv'
  <2>1. snap.hash \in Nat /\ snap.hash <= hashes'
    BY <1>2, <1>3 DEF ChainInv
  <2> QED
    BY <1>1, <1>3, <1>5, <2>1 DEF PhaseInv
<1>7. TraceInv'
  BY <1>1, <1>3, <1>4, <1>5 DEF TraceInv, ExitId
<1>8. ForwardInv'
  BY <1>1, <1>3, <1>5 DEF ForwardInv, Outcomes
<1> QED
  BY <1>3, <1>6, <1>7, <1>8 DEF AuditInv

\* The latest block is the snapshot.
LEMMA BeginKeeps ==
  ASSUME AuditInv, NEW object, NEW first, Begin(object, first),
         \/ object \in DPPIds /\ first = "claim" /\ queue' = queue
         \/ object \in Goods /\ first = "forward" /\ queue' = <<object>>
  PROVE  AuditInv'
<1>1. ChainInv /\ PhaseInv /\ pc = "idle"
  BY DEF AuditInv, Begin
<1>2. /\ pc' = first /\ start' = object /\ snapHistory' = Tip.history
      /\ snap' = [number |-> Len(chain), hash |-> Tip.hash]
      /\ UNCHANGED <<chainVars, claimIds, seen, expanded, ends>>
      /\ seen = {} /\ expanded = {} /\ ends = {}
  BY <1>1 DEF Begin, PhaseInv
<1>3. /\ Tip = chain[Len(chain)] /\ Len(chain) \in DOMAIN chain /\ Len(chain) \in Nat
      /\ Tip.hash \in Nat /\ Tip.hash <= hashes /\ RecordedHistory(Tip.history)
  BY <1>1, TipIsBlock DEF Tip, Blocks, ChainInv
<1>4. ChainInv' /\ UNCHANGED <<chain, hashes, cameBack>>
  BY <1>1, <1>2, ChainStays
<1>5. /\ snap'.number = Len(chain) /\ snap'.hash = Tip.hash
      /\ snap' \in [number : Nat, hash : Nat]
  BY <1>2, <1>3
<1>6. View' = snapHistory'
  BY <1>2, <1>3, <1>4, <1>5 DEF View
<1>7. /\ queue' \in Seq(Goods) /\ seen' \in SUBSET Goods
      /\ ToSet(<<object>>) = {object}
  <2>1. queue \in Seq(Goods) /\ seen \in SUBSET Goods
    BY <1>1 DEF PhaseInv
  <2>2. object \in Goods => <<object>> \in Seq(Goods)
    OBVIOUS
  <2>3. ToSet(<<object>>) = {object}
    BY RangeOfOne DEF ToSet, Range
  <2> QED
    BY <1>2, <2>1, <2>2, <2>3
<1>8. PhaseInv'
  BY <1>1, <1>2, <1>3, <1>4, <1>5, <1>6, <1>7 DEF PhaseInv
<1>9. TraceInv'
  BY <1>2 DEF TraceInv
<1>10. ForwardInv'
  <2>1. object \in Descendants(snapHistory', object)
    BY DescendantsClosed
  <2> QED
    BY <1>2, <1>3, <1>7, <2>1 DEF ForwardInv, Outcomes
<1> QED
  BY <1>4, <1>8, <1>9, <1>10 DEF AuditInv

\* An error ends the audit.
LEMMA FailKeeps ==
  ASSUME AuditInv, Fail
  PROVE  AuditInv'
<1>1. /\ ChainInv /\ PhaseInv /\ pc # "idle" /\ pc' = "failed"
      /\ UNCHANGED <<chainVars, snap, start, claimIds, queue, seen, expanded, ends,
                     snapHistory>>
  BY DEF AuditInv, Fail, Return, searchVars
<1>2. PhaseInv' /\ ChainInv'
  BY <1>1, ChainStays DEF PhaseInv
<1> QED
  BY <1>1, <1>2 DEF AuditInv, TraceInv, ForwardInv

-----------------------------------------------------------------------------
(* TraceClaim. *)

LEMMA ReadClaimKeeps ==
  ASSUME AuditInv, ReadClaim
  PROVE  AuditInv'
<1>1. /\ ChainInv /\ PhaseInv /\ pc = "claim" /\ pc' = "exit"
      /\ claimIds' = <<IssueOf(View, start)>>
      /\ UNCHANGED <<snap, start, queue, seen, expanded, ends, snapHistory>>
      /\ UNCHANGED chainVars
  BY DEF AuditInv, ReadClaim, searchVars
<1>2. PhaseInv' /\ ChainInv'
  BY <1>1, ChainStays DEF PhaseInv
<1>3. TraceInv'
  BY <1>1, ChainStays DEF TraceInv, PhaseInv
<1> QED
  BY <1>1, <1>2, <1>3 DEF AuditInv, ForwardInv

LEMMA ReadExitKeeps ==
  ASSUME AuditInv, ReadExit
  PROVE  AuditInv'
<1> DEFINE inputs == View[Producer(View, start)].inputs
<1>1. /\ ChainInv /\ PhaseInv /\ TraceInv /\ pc = "exit" /\ pc' = "trace"
      /\ Producer(View, start) # 0 /\ Check
      /\ claimIds' = Append(claimIds, Producer(View, start))
      /\ queue' = SetToSeq(inputs)
      /\ UNCHANGED <<chainVars, snap, start, seen, expanded, ends, snapHistory>>
  BY DEF AuditInv, ReadExit
<1>2. /\ RecordedHistory(View)
      /\ seen = {} /\ expanded = {} /\ ends = {}
  BY <1>1, TipIsBlock DEF PhaseInv, Check, Holds, View
<1>3. inputs \subseteq Goods
  BY <1>1, <1>2, RecordsFound DEF BlockRecords
<1>4. ChainInv' /\ Standing' = Standing /\ View' = View
  BY <1>1, ChainStays
<1> HIDE DEF inputs
<1>5. queue' \in Seq(Goods) /\ ToSet(queue') = inputs
  BY <1>1, <1>3, GoodsInSequence
<1>6. PhaseInv'
  BY <1>1, <1>4, <1>5, ChainStays DEF PhaseInv
<1>7. ASSUME Standing
      PROVE  TraceInv'
  <2>1. View = snapHistory /\ claimIds = <<IssueOf(snapHistory, start)>>
    BY <1>1, <1>7 DEF PhaseInv, TraceInv
  <2>2. /\ ExitId # 0 /\ start \in snapHistory[ExitId].outputs
        /\ ExitId \in DOMAIN snapHistory
        /\ inputs = snapHistory[ExitId].inputs
    BY <1>1, <1>2, <2>1, RecordsFound DEF ExitId, inputs
  <2>3. claimIds' = <<IssueOf(snapHistory, start), ExitId>>
    BY <1>1, <2>1, AppendToOne DEF ExitId
  <2>4. \A x \in inputs : start \in Descendants(snapHistory, x)
    <3>1. start \in Descendants(snapHistory, start)
      BY DescendantsClosed
    <3> QED
      BY <2>2, <3>1, ParentsAreAncestors
  <2>5. ExitId' = ExitId
    BY <1>1 DEF ExitId
  <2>6. seen' \cup ToSet(queue)' = inputs
    BY <1>1, <1>2, <1>5
  <2> QED
    BY <1>1, <1>2, <2>1, <2>2, <2>3, <2>4, <2>5, <2>6 DEF TraceInv
<1>8. ASSUME ~Standing
      PROVE  TraceInv'
  BY <1>1, <1>4, <1>8 DEF TraceInv
<1> QED
  BY <1>1, <1>4, <1>6, <1>7, <1>8 DEF AuditInv, ForwardInv

LEMMA VisitParentKeeps ==
  ASSUME AuditInv, VisitParent
  PROVE  AuditInv'
<1> DEFINE ref     == Head(queue)
           id      == Producer(View, ref)
           parents == IF id \in expanded THEN {} ELSE View[id].inputs
<1>1. /\ ChainInv /\ PhaseInv /\ TraceInv /\ pc = "trace" /\ pc' = "trace" /\ queue # <<>>
      /\ UNCHANGED <<chainVars, snap, start, claimIds, snapHistory>>
      /\ queue \in Seq(Goods) /\ seen \in SUBSET Goods
  BY DEF AuditInv, VisitParent, PhaseInv
<1>2. /\ ref \in Goods /\ Tail(queue) \in Seq(Goods)
      /\ ToSet(queue) = {ref} \cup ToSet(Tail(queue))
      /\ \A t \in Seq(Goods) : /\ Tail(queue) \o t \in Seq(Goods)
                               /\ ToSet(Tail(queue) \o t) = ToSet(Tail(queue)) \cup ToSet(t)
  <2>1. <<>> \in Seq(Goods)
    OBVIOUS
  <2> QED
    BY <1>1, <2>1, QueueStep
<1>3. ChainInv' /\ Standing' = Standing /\ View' = View
  BY <1>1, ChainStays
<1>4. ASSUME queue' \in Seq(Goods), seen' \in SUBSET Goods, TraceInv'
      PROVE  AuditInv'
  <2>1. PhaseInv'
    BY <1>1, <1>3, <1>4, ChainStays DEF PhaseInv
  <2> QED
    BY <1>1, <1>3, <1>4, <2>1 DEF AuditInv, ForwardInv
<1>5. Standing' = Standing /\ ExitId' = ExitId
  BY <1>1, <1>3 DEF ExitId
\* An object seen before.
<1>6. CASE ref \in seen /\ queue' = Tail(queue) /\ UNCHANGED <<seen, expanded, ends>>
  <2>1. seen' \cup ToSet(queue)' = seen \cup ToSet(queue)
    BY <1>2, <1>6
  <2>2. TraceInv'
    BY <1>1, <1>5, <1>6, <2>1 DEF TraceInv
  <2> QED
    BY <1>1, <1>2, <1>4, <1>6, <2>2
\* A new one, of a record that was expanded or is now.
<1>7. CASE /\ ref \notin seen /\ Answers /\ id # 0
           /\ seen' = seen \cup {ref} /\ expanded' = expanded \cup {id}
           /\ queue' = Tail(queue) \o SetToSeq(parents)
           /\ ends' = IF id \notin expanded /\ View[id].inputs = {}
                      THEN ends \cup {ref} ELSE ends
  <2>1. RecordedHistory(View)
    BY <1>1, <1>7, TipIsBlock DEF Answers, View
  <2>2. /\ id \in DOMAIN View /\ ref \in View[id].outputs /\ ref \in Created(View)
        /\ View[id].inputs \subseteq Goods
    BY <1>7, <2>1, RecordsFound DEF BlockRecords
  <2>3. parents \subseteq Goods
    BY <2>2
  <2> HIDE DEF ref, id, parents
  <2>4. /\ queue' \in Seq(Goods) /\ seen' \in SUBSET Goods
        /\ ToSet(queue') = ToSet(Tail(queue)) \cup parents
    BY <1>1, <1>2, <1>7, <2>3, GoodsInSequence
  <2>5. ASSUME Standing
        PROVE  TraceInv'
    <3> DEFINE reached == seen \cup ToSet(queue)
    <3>1. /\ View = snapHistory /\ RecordedHistory(snapHistory)
          /\ claimIds = <<IssueOf(snapHistory, start), ExitId>>
          /\ ExitId # 0 /\ snapHistory[ExitId].inputs \subseteq reached
          /\ \A x \in reached : start \in Descendants(snapHistory, x)
          /\ seen \subseteq Created(snapHistory)
          /\ expanded = {Producer(snapHistory, x) : x \in seen}
          /\ \A i \in expanded : snapHistory[i].inputs \subseteq reached
          /\ ends = {x \in seen : snapHistory[Producer(snapHistory, x)].inputs = {}}
      BY <1>1, <2>5 DEF PhaseInv, TraceInv
    <3>2. /\ seen' \cup ToSet(queue)' = reached \cup parents
          /\ id = Producer(snapHistory, ref)
      BY <1>2, <1>7, <2>4, <3>1 DEF id
    <3>3. \A p \in parents : start \in Descendants(snapHistory, p)
      <4>1. start \in Descendants(snapHistory, ref)
        BY <1>2, <3>1
      <4> QED
        BY <2>2, <3>1, <4>1, ParentsAreAncestors DEF parents
    <3>4. seen' \subseteq Created(snapHistory)
      BY <1>7, <2>2, <3>1
    <3>5. expanded' = {Producer(snapHistory, x) : x \in seen'}
      BY <1>7, <3>1, <3>2
    <3>6. \A i \in expanded' : snapHistory[i].inputs \subseteq reached \cup parents
      BY <1>7, <3>1 DEF parents
    \* An entry has no other output whose visit expanded its record.
    <3>7. ends' = {x \in seen' : snapHistory[Producer(snapHistory, x)].inputs = {}}
      <4>1. ASSUME id \in expanded
            PROVE  snapHistory[id].inputs # {}
        <5>1. PICK x \in seen : Producer(snapHistory, x) = id
          BY <3>1, <4>1
        <5>2. x \in snapHistory[id].outputs
          BY <3>1, <5>1, RecordsFound
        <5> QED
          BY <1>7, <2>2, <3>1, <5>1, <5>2 DEF RecordedHistory
      <4>2. ends' = IF snapHistory[id].inputs = {} THEN ends \cup {ref} ELSE ends
        BY <1>7, <3>1, <4>1
      <4> QED
        BY <1>7, <3>1, <3>2, <4>2
    <3> HIDE DEF reached
    <3> QED
      BY <1>1, <1>5, <3>1, <3>2, <3>3, <3>4, <3>5, <3>6, <3>7 DEF TraceInv
  <2>6. ASSUME ~Standing
        PROVE  TraceInv'
    BY <1>1, <1>5, <2>6 DEF TraceInv
  <2> QED
    BY <1>4, <2>4, <2>5, <2>6
<1> QED
  BY <1>6, <1>7 DEF VisitParent

LEMMA TraceReturnKeeps ==
  ASSUME AuditInv, TraceReturn
  PROVE  AuditInv'
<1>1. /\ ChainInv /\ PhaseInv /\ TraceInv /\ pc = "trace" /\ pc' = "traced" /\ queue = <<>>
      /\ Check
      /\ UNCHANGED <<chainVars, snap, start, claimIds, queue, seen, expanded, ends,
                     snapHistory>>
  BY DEF AuditInv, TraceReturn, Return, searchVars
<1>2. PhaseInv' /\ ChainInv' /\ cameBack' = cameBack
  BY <1>1, ChainStays DEF PhaseInv
<1>3. TraceInv'
  BY <1>1, <1>2 DEF TraceInv, ExitId, Standing
<1> QED
  BY <1>1, <1>2, <1>3 DEF AuditInv, ForwardInv

-----------------------------------------------------------------------------
(* Forward. *)

LEMMA VisitChildKeeps ==
  ASSUME AuditInv, VisitChild
  PROVE  AuditInv'
<1> DEFINE ref     == Head(queue)
           outputs == Consequences(View, ref)
<1>1. /\ ChainInv /\ PhaseInv /\ ForwardInv /\ pc = "forward" /\ pc' = "forward"
      /\ queue # <<>>
      /\ UNCHANGED <<chainVars, snap, start, claimIds, expanded, snapHistory>>
      /\ queue \in Seq(Goods) /\ seen \in SUBSET Goods
  BY DEF AuditInv, VisitChild, PhaseInv
<1>2. /\ ref \in Goods /\ Tail(queue) \in Seq(Goods)
      /\ ToSet(queue) = {ref} \cup ToSet(Tail(queue))
      /\ \A t \in Seq(Goods) : /\ Tail(queue) \o t \in Seq(Goods)
                               /\ ToSet(Tail(queue) \o t) = ToSet(Tail(queue)) \cup ToSet(t)
  <2>1. <<>> \in Seq(Goods)
    OBVIOUS
  <2> QED
    BY <1>1, <2>1, QueueStep
<1>3. ChainInv' /\ Standing' = Standing /\ View' = View
  BY <1>1, ChainStays
<1>4. ASSUME queue' \in Seq(Goods), seen' \in SUBSET Goods, ForwardInv'
      PROVE  AuditInv'
  <2>1. PhaseInv'
    BY <1>1, <1>3, <1>4, ChainStays DEF PhaseInv
  <2> QED
    BY <1>1, <1>3, <1>4, <2>1 DEF AuditInv, TraceInv
<1>5. Standing' = Standing
  BY <1>3
\* An object seen before.
<1>6. CASE ref \in seen /\ queue' = Tail(queue) /\ UNCHANGED <<seen, ends>>
  <2>1. seen' \cup ToSet(queue)' = seen \cup ToSet(queue)
    BY <1>2, <1>6
  <2>2. ForwardInv'
    BY <1>1, <1>5, <1>6, <2>1 DEF ForwardInv, Outcomes
  <2> QED
    BY <1>1, <1>2, <1>4, <1>6, <2>2
\* A new one: its consumer's notes and vouchers are next.
<1>7. CASE /\ ref \notin seen /\ Answers /\ Producer(View, ref) # 0
           /\ seen' = seen \cup {ref}
           /\ ends' = ends \cup ForwardEnds(ref, outputs)
           /\ queue' = Tail(queue) \o SetToSeq(outputs \ DPPIds)
  <2>1. RecordedHistory(View)
    BY <1>1, <1>7, TipIsBlock DEF Answers, View
  <2>2. outputs \ DPPIds \subseteq Goods
    BY <2>1, RecordsFound DEF Consequences, BlockRecords, Items
  <2> HIDE DEF ref, outputs
  <2>3. /\ queue' \in Seq(Goods) /\ seen' \in SUBSET Goods
        /\ ToSet(queue') = ToSet(Tail(queue)) \cup (outputs \ DPPIds)
    BY <1>1, <1>2, <1>7, <2>2, GoodsInSequence
  <2>4. ASSUME Standing
        PROVE  ForwardInv'
    <3> DEFINE reached == seen \cup ToSet(queue)
               made(x) == Consequences(snapHistory, x)
    <3>1. /\ View = snapHistory /\ RecordedHistory(snapHistory)
          /\ start \in reached /\ reached \subseteq Outcomes(start)
          /\ \A x \in seen : made(x) \ DPPIds \subseteq reached
          /\ ends = UNION {ForwardEnds(x, made(x)) : x \in seen}
      BY <1>1, <2>4 DEF PhaseInv, ForwardInv
    <3>2. /\ seen' \cup ToSet(queue)' = reached \cup (outputs \ DPPIds)
          /\ outputs = made(ref)
      BY <1>2, <1>7, <2>3, <3>1 DEF outputs
    <3>3. outputs \subseteq Outcomes(start)
      <4>1. ref \in Outcomes(start)
        BY <1>2, <3>1
      <4>2. Closed(snapHistory, Outcomes(start))
        BY DescendantsClosed DEF Outcomes
      <4>3. SpentIn(snapHistory, ref) # 0 =>
              /\ SpentIn(snapHistory, ref) \in DOMAIN snapHistory
              /\ ref \in snapHistory[SpentIn(snapHistory, ref)].inputs
        BY <3>1, RecordsFound
      <4> QED
        BY <3>2, <4>1, <4>2, <4>3 DEF Consequences, Closed
    <3> HIDE DEF made, reached
    <3>4. ends' = UNION {ForwardEnds(x, made(x)) : x \in seen'}
      BY <1>7, <3>1, <3>2
    <3>5. \A x \in seen' : made(x) \ DPPIds \subseteq reached \cup (outputs \ DPPIds)
      BY <1>7, <3>1, <3>2
    <3>6. /\ start \in reached \cup (outputs \ DPPIds)
          /\ reached \cup (outputs \ DPPIds) \subseteq Outcomes(start)
      BY <3>1, <3>3
    <3>7. Outcomes(start)' = Outcomes(start) /\ \A x : Consequences(snapHistory, x)' = made(x)
      BY <1>1 DEF Outcomes, made
    <3> QED
      BY <1>1, <3>1, <3>2, <3>4, <3>5, <3>6, <3>7 DEF ForwardInv, made
  <2>5. ASSUME ~Standing
        PROVE  ForwardInv'
    BY <1>5, <2>5 DEF ForwardInv
  <2> QED
    BY <1>4, <2>3, <2>4, <2>5
<1> QED
  BY <1>6, <1>7 DEF VisitChild, Consequences

LEMMA ForwardReturnKeeps ==
  ASSUME AuditInv, ForwardReturn
  PROVE  AuditInv'
<1>1. /\ ChainInv /\ PhaseInv /\ ForwardInv /\ pc = "forward" /\ pc' = "forwarded"
      /\ queue = <<>>
      /\ UNCHANGED <<chainVars, snap, start, claimIds, queue, seen, expanded, ends,
                     snapHistory>>
  BY DEF AuditInv, ForwardReturn, Return, searchVars
<1>2. PhaseInv' /\ ChainInv' /\ Standing' = Standing
  BY <1>1, ChainStays DEF PhaseInv
<1>3. ForwardInv'
  BY <1>1, <1>2 DEF ForwardInv, Outcomes
<1> QED
  BY <1>1, <1>2, <1>3 DEF AuditInv, TraceInv

-----------------------------------------------------------------------------
LEMMA AuditInvariant == Spec => []AuditInv
<1>1. AuditInv /\ [Next]_vars => AuditInv'
  <2> SUFFICES ASSUME AuditInv, [Next]_vars PROVE AuditInv'
    OBVIOUS
  <2>1. CASE \/ Mine \/ \E k \in 2..Len(chain) : Reorg(k)
             \/ \E fork \in forks : Restore(fork)
    BY <2>1, ChainStepKeeps
  <2>2. CASE \E dpp \in DPPIds : BeginClaim(dpp)
    BY <2>2, BeginKeeps DEF BeginClaim
  <2>3. CASE \E object \in Goods : BeginForward(object)
    BY <2>3, BeginKeeps DEF BeginForward
  <2>4. CASE Fail \/ ReadClaim \/ ReadExit \/ VisitParent \/ TraceReturn
    BY <2>4, FailKeeps, ReadClaimKeeps, ReadExitKeeps, VisitParentKeeps, TraceReturnKeeps
  <2>5. CASE VisitChild \/ ForwardReturn
    BY <2>5, VisitChildKeeps, ForwardReturnKeeps
  <2>6. CASE UNCHANGED vars
    <3>1. UNCHANGED <<chainVars, pc, snap, start, claimIds, queue, seen, expanded,
                      ends, snapHistory>>
      BY <2>6 DEF vars, auditVars, searchVars
    <3>2. /\ ChainInv' /\ Standing' = Standing /\ View' = View
          /\ UNCHANGED <<hashes, cameBack>>
      BY <3>1, ChainStays DEF AuditInv
    <3> QED
      BY <3>1, <3>2 DEF AuditInv, PhaseInv, TraceInv, ForwardInv, ExitId, Outcomes
  <2> QED
    BY <2>1, <2>2, <2>3, <2>4, <2>5, <2>6 DEF Next
<1> QED
  BY <1>1, AuditInvInit, PTL DEF Spec

\* A claim that was traced is traced at its snapshot, for every history and every
\* order of forks in which the snapshot's block does not leave the chain and come
\* back, although each record was read by number: if it left, the check after the
\* last read notices, and if it did not, every read was of its records.
THEOREM ClaimTraceIsExact == Spec => []ClaimTraceExact
<1>1. AuditInv => ClaimTraceExact
  <2> SUFFICES ASSUME AuditInv, pc = "traced", ~cameBack
               PROVE  ClaimTraceExact
    BY DEF ClaimTraceExact
  <2> DEFINE lineage == Origins(start) \ {start}
  <2>1. ToSet(queue) = {} /\ start \in DPPIds /\ seen \subseteq Goods
    BY RangeOfNone DEF AuditInv, PhaseInv, ToSet, Range
  <2>2. /\ RecordedHistory(snapHistory)
        /\ claimIds = <<IssueOf(snapHistory, start), ExitId>>
        /\ ExitId # 0 /\ snapHistory[ExitId].inputs \subseteq seen
        /\ \A x \in seen : start \in Descendants(snapHistory, x)
        /\ seen \subseteq Created(snapHistory)
        /\ expanded = {Producer(snapHistory, x) : x \in seen}
        /\ \A id \in expanded : snapHistory[id].inputs \subseteq seen
        /\ ends = {x \in seen : snapHistory[Producer(snapHistory, x)].inputs = {}}
    BY <2>1 DEF AuditInv, TraceInv
  <2>3. ASSUME NEW i \in DOMAIN snapHistory,
               NEW x \in snapHistory[i].outputs, x \in seen \cup {start}
        PROVE  snapHistory[i].inputs \subseteq seen
    <3>1. Producer(snapHistory, x) = i
      BY <2>2, RecordsFound
    <3> QED
      BY <2>2, <2>3, <3>1 DEF ExitId
  <2>4. \A x : start \in Descendants(snapHistory, x) => x \in seen \cup {start}
    <3>1. \A i \in DOMAIN snapHistory :
            snapHistory[i].outputs \cap (seen \cup {start}) # {} =>
              snapHistory[i].inputs \subseteq seen \cup {start}
      BY <2>3
    <3> QED
      BY <3>1, AncestorsReached
  <2>5. seen = lineage
    BY <2>1, <2>2, <2>4, GoodsAreNumbers DEF Origins
  <2> QED
    BY <2>2, <2>5 DEF ClaimTraceExact, ExitId
<1> QED
  BY <1>1, AuditInvariant, PTL

\* If the snapshot's block has stayed on the chain, the ends of Forward are those
\* of the object, each lineage to its live object or its DPP, for every history.
THEOREM ForwardIsExact == Spec => []ForwardExact
<1>1. AuditInv => ForwardExact
  <2> SUFFICES ASSUME AuditInv, pc = "forwarded", Standing
               PROVE  ForwardFound
    BY DEF ForwardExact, Standing
  <2> DEFINE made(x)  == Consequences(snapHistory, x)
             passports == UNION {made(x) \cap DPPIds : x \in seen}
  <2>1. ToSet(queue) = {} /\ start \in Goods /\ seen \subseteq Goods
    BY RangeOfNone DEF AuditInv, PhaseInv, ToSet, Range
  <2>2. /\ RecordedHistory(snapHistory)
        /\ start \in seen /\ seen \subseteq Outcomes(start)
        /\ \A x \in seen : made(x) \ DPPIds \subseteq seen
        /\ ends = UNION {ForwardEnds(x, made(x)) : x \in seen}
    BY <2>1 DEF AuditInv, ForwardInv
  <2>3. \A x \in seen :
          /\ SpentIn(snapHistory, x) = 0 <=> x \notin Consumed(snapHistory)
          /\ SpentIn(snapHistory, x) # 0 =>
               /\ SpentIn(snapHistory, x) \in DOMAIN snapHistory
               /\ x \in snapHistory[SpentIn(snapHistory, x)].inputs
          /\ \A i \in DOMAIN snapHistory :
               x \in snapHistory[i].inputs => SpentIn(snapHistory, x) = i /\ i # 0
    BY <2>2, RecordsFound
  <2>4. \A x \in seen : made(x) = {} <=> x \notin Consumed(snapHistory)
    BY <2>2, <2>3 DEF Consequences, RecordedHistory
  <2>5. \A i \in DOMAIN snapHistory : /\ snapHistory[i].inputs \subseteq Goods
                                      /\ snapHistory[i].outputs \subseteq Items
    BY <2>2, RecordsFound DEF BlockRecords
  <2>6. Closed(snapHistory, seen \cup passports)
    <3> SUFFICES ASSUME NEW i \in DOMAIN snapHistory,
                        NEW x \in snapHistory[i].inputs, x \in seen \cup passports,
                        NEW y \in snapHistory[i].outputs
                 PROVE  y \in seen \cup passports
      BY DEF Closed
    <3>1. x \in seen
      BY <2>5, GoodsAreNumbers
    <3>2. y \in made(x)
      BY <2>3, <3>1 DEF Consequences
    <3> QED
      BY <2>2, <3>1, <3>2
  <2>7. passports \subseteq Outcomes(start)
    <3>1. Closed(snapHistory, Outcomes(start))
      BY DescendantsClosed DEF Outcomes
    <3> QED
      BY <2>2, <2>3, <3>1 DEF Consequences, Closed
  <2>8. Outcomes(start) = seen \cup passports
    BY <2>2, <2>6, <2>7, DescendantsLeast DEF Outcomes
  <2>9. passports \cap Consumed(snapHistory) = {}
    BY <2>5, GoodsAreNumbers DEF Consumed
  <2>10. ends = (seen \ Consumed(snapHistory)) \cup passports
    <3> HIDE DEF made
    <3>1. \A x \in seen : ForwardEnds(x, made(x)) = IF x \notin Consumed(snapHistory)
                                                   THEN {x} ELSE made(x) \cap DPPIds
      BY <2>4 DEF ForwardEnds
    <3>2. \A x \in seen : x \notin Consumed(snapHistory) => made(x) \cap DPPIds = {}
      BY <2>4
    <3> QED
      BY <2>2, <3>1, <3>2
  <2>11. seen = Outcomes(start) \cap Goods
    BY <2>1, <2>8, GoodsAreNumbers
  <2> HIDE DEF passports
  <2> QED
    BY <2>8, <2>9, <2>10, <2>11 DEF ForwardFound
<1> QED
  BY <1>1, AuditInvariant, PTL

\* Without a change of fork the snapshot's block stays.
Stays == forks = {} /\ ~cameBack /\ (pc # "idle" => Check)

LEMMA SnapshotStays ==
  ASSUME MaxReorgs = 0
  PROVE  Spec => []Stays
<1>1. Init => Stays
  BY DEF Init, Stays
<1>2. ASSUME AuditInv, Stays, [Next]_vars
      PROVE  Stays'
  <2>1. /\ ChainInv /\ reorgs \in Nat
        /\ Len(chain) \in Nat \ {0} /\ DOMAIN chain = 1..Len(chain)
    BY <1>2, TipIsBlock DEF AuditInv, ChainInv
  <2>2. CASE Mine
    <3>1. PICK b : /\ chain' = Append(chain, b)
                   /\ UNCHANGED <<forks, cameBack, pc, snap>>
      BY <2>2 DEF Mine, auditVars
    <3>2. /\ Len(chain') = Len(chain) + 1 /\ DOMAIN chain' = 1..(Len(chain) + 1)
          /\ \A k \in DOMAIN chain : k \in DOMAIN chain' /\ chain'[k] = chain[k]
      <4>1. chain \in Seq(Blocks \cup {b})
        BY <2>1, TipIsBlock, SeqMonotonic
      <4> QED
        BY <2>1, <3>1, <4>1, AppendProperties
    <3> QED
      BY <1>2, <2>1, <3>1, <3>2 DEF Stays, Check, Holds
  <2>3. ASSUME NEW k, Reorg(k)
        PROVE  FALSE
    BY <2>1, <2>3 DEF Reorg
  <2>4. ASSUME NEW object, NEW first, Begin(object, first)
        PROVE  Stays'
    <3>1. /\ UNCHANGED <<chain, forks, cameBack>>
          /\ snap' = [number |-> Len(chain), hash |-> Tip.hash]
      BY <2>4 DEF Begin, chainVars
    <3>2. snap'.number = Len(chain) /\ snap'.hash = chain[Len(chain)].hash
      BY <3>1 DEF Tip
    <3> QED
      BY <1>2, <2>1, <3>1, <3>2 DEF Stays, Check, Holds
  <2>5. CASE UNCHANGED <<chainVars, snap>> /\ (pc = "idle" => pc' = "idle")
    BY <1>2, <2>5 DEF Stays, Check, Holds, chainVars
  <2>6. CASE \/ Fail \/ ReadClaim \/ ReadExit \/ VisitParent \/ TraceReturn
             \/ VisitChild \/ ForwardReturn \/ UNCHANGED vars
    <3>1. UNCHANGED <<chainVars, snap>> /\ (pc = "idle" => pc' = "idle")
      BY <2>6 DEF Fail, ReadClaim, ReadExit, VisitParent, TraceReturn, VisitChild,
                  ForwardReturn, vars, auditVars
    <3> QED
      BY <2>5, <3>1
  <2> QED
    BY <1>2, <2>2, <2>3, <2>4, <2>6 DEF Next, BeginClaim, BeginForward, Stays
<1> QED
  BY <1>1, <1>2, AuditInvariant, PTL DEF Spec

\* What Forward returns is of its snapshot if the chain never changes its
\* fork; MCForwardSnapshot shows that one replacement breaks it.
THEOREM ForwardOnFinalSnapshot ==
  ASSUME MaxReorgs = 0
  PROVE  Spec => []ForwardOnSnapshot
<1>1. Stays /\ ForwardExact => ForwardOnSnapshot
  BY DEF Stays, ForwardExact, ForwardOnSnapshot
<1> QED
  BY <1>1, SnapshotStays, ForwardIsExact, PTL
=============================================================================
