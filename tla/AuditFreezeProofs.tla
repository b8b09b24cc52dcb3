-------------------------- MODULE AuditFreezeProofs --------------------------
(***************************************************************************)
(* The forward audit and the backward trace, for any number of objects,    *)
(* any recorded history, and whatever the chain does meanwhile.            *)
(***************************************************************************)
EXTENDS BackwardTrace, FlowHistory

Events == [inputs : SUBSET Goods, outputs : SUBSET Objects]
Blocks == [hash : Nat, history : Seq(Events),
           status : [Goods -> {ACTIVE, FROZEN, REVOKED}], tx : Goods \cup {NoTarget}]

LEMMA GoodsAreNumbers ==
  /\ Goods \subseteq Nat /\ Objects \subseteq Nat
  /\ IsFiniteSet(Goods) /\ IsFiniteSet(Objects)
  /\ Goods \subseteq Objects /\ Goods \cap Claims = {}
<1>1. /\ MaxGoods \in Nat /\ MaxClaims \in Nat
      /\ 1 \in Int /\ MaxGoods \in Int /\ MaxGoods + 1 \in Int /\ MaxGoods + MaxClaims \in Int
  BY GoodsAssumption
<1>2. IsFiniteSet(Goods) /\ IsFiniteSet(Claims)
  BY <1>1, FS_Interval DEF Goods, Claims
<1>3. IsFiniteSet(Objects)
  BY <1>2, FS_Union DEF Objects
<1> QED
  BY <1>1, <1>2, <1>3 DEF Goods, Claims, Objects

-----------------------------------------------------------------------------
(* The order of the targets. *)

\* The ranks of the elements of a sequence are the numbers below its length,
\* each once.
LEMMA RanksAreDistinct ==
  ASSUME NEW s \in Seq(Nat)
  PROVE  /\ \A j, k \in DOMAIN s : Rank(s, j) = Rank(s, k) => j = k
         /\ \A i \in DOMAIN s : \E k \in DOMAIN s : Rank(s, k) = i - 1
<1> DEFINE n         == Len(s)
           before(k) == {j \in DOMAIN s : s[j] < s[k] \/ (s[j] = s[k] /\ j < k)}
           rank      == [k \in 1..n |-> Rank(s, k)]
<1>1. n \in Nat /\ DOMAIN s = 1..n /\ \A k \in 1..n : s[k] \in Nat
  BY ElementOfSeq
<1>2. IsFiniteSet(1..n) /\ Cardinality(1..n) = n
  BY <1>1, FS_Interval
<1> HIDE DEF n
<1>3. \A k \in 1..n : IsFiniteSet(before(k)) /\ Rank(s, k) = Cardinality(before(k))
  BY <1>1, <1>2, FS_Subset DEF Rank
<1>4. ASSUME NEW j \in 1..n, NEW k \in 1..n, j \in before(k)
      PROVE  Rank(s, j) < Rank(s, k)
  <2>1. before(j) \subseteq before(k) /\ j \notin before(j)
    BY <1>1, <1>4
  <2>2. before(j) # before(k)
    BY <1>4, <2>1
  <2> HIDE DEF before
  <2>3. /\ Cardinality(before(j)) <= Cardinality(before(k))
        /\ Cardinality(before(j)) # Cardinality(before(k))
        /\ Cardinality(before(j)) \in Nat /\ Cardinality(before(k)) \in Nat
    BY <1>3, <2>1, <2>2, FS_Subset, FS_CardinalityType
  <2> QED
    BY <1>3, <2>3
<1>5. \A j, k \in 1..n : j # k => j \in before(k) \/ k \in before(j)
  BY <1>1
<1>6. \A k \in 1..n : Rank(s, k) \in Nat
  BY <1>3, FS_CardinalityType
<1> HIDE DEF before
<1>7. \A j, k \in 1..n : Rank(s, j) = Rank(s, k) => j = k
  BY <1>4, <1>5, <1>6
<1>8. \A k \in 1..n : Rank(s, k) \in 0..(n - 1)
  <2> SUFFICES ASSUME NEW k \in 1..n PROVE Rank(s, k) \in 0..(n - 1)
    OBVIOUS
  <2>1. before(k) \subseteq (1..n) \ {k}
    BY <1>1 DEF before
  <2>2. IsFiniteSet((1..n) \ {k}) /\ Cardinality((1..n) \ {k}) = n - 1
    BY <1>2, FS_RemoveElement
  <2>3. Cardinality(before(k)) <= n - 1
    BY <2>1, <2>2, FS_Subset
  <2> QED
    BY <1>1, <1>3, <1>6, <2>3
<1>9. rank \in Injection(1..n, 0..(n - 1))
  BY <1>7, <1>8 DEF Injection, IsInjective
<1>10. IsFiniteSet(0..(n - 1)) /\ Cardinality(0..(n - 1)) = n
  BY <1>1, FS_Interval
<1>11. rank \in Surjection(1..n, 0..(n - 1))
  BY <1>2, <1>9, <1>10, FS_Injection
<1>12. \A i \in 1..n : \E k \in 1..n : Rank(s, k) = i - 1
  <2> SUFFICES ASSUME NEW i \in 1..n PROVE \E k \in 1..n : Rank(s, k) = i - 1
    OBVIOUS
  <2>1. i - 1 \in 0..(n - 1)
    BY <1>1
  <2> QED
    BY <1>11, <2>1 DEF Surjection
<1> QED
  BY <1>1, <1>7, <1>12

\* Sorting keeps the elements, and their number.
LEMMA SortedIsPermutation ==
  ASSUME NEW S \in SUBSET Nat, NEW s \in Seq(S), IsInjective(s)
  PROVE  /\ Sorted(s) \in Seq(S)
         /\ Len(Sorted(s)) = Len(s)
         /\ ToSet(Sorted(s)) = ToSet(s)
         /\ IsInjective(Sorted(s))
<1> DEFINE n     == Len(s)
           at(i) == CHOOSE k \in DOMAIN s : Rank(s, k) = i - 1
<1>1. n \in Nat /\ DOMAIN s = 1..n /\ \A k \in 1..n : s[k] \in S
  BY ElementOfSeq
<1>2. s \in Seq(Nat)
  BY SeqMonotonic
<1>3. \A i \in 1..n : at(i) \in 1..n /\ Rank(s, at(i)) = i - 1
  BY <1>1, <1>2, RanksAreDistinct
<1>4. Sorted(s) = [i \in 1..n |-> s[at(i)]]
  BY <1>1 DEF Sorted
<1> HIDE DEF at
<1>5. \A k \in 1..n : \E i \in 1..n : at(i) = k
  <2> SUFFICES ASSUME NEW k \in 1..n PROVE \E i \in 1..n : at(i) = k
    OBVIOUS
  <2> DEFINE f == [i \in 1..n |-> at(i)]
  <2>1. f \in Injection(1..n, 1..n)
    BY <1>1, <1>3 DEF Injection, IsInjective
  <2>2. IsFiniteSet(1..n)
    BY <1>1, FS_Interval
  <2>3. f \in Surjection(1..n, 1..n)
    BY <2>1, <2>2, FS_Injection
  <2> QED
    BY <2>3 DEF Surjection
<1>6. Sorted(s) \in [1..n -> S]
  BY <1>1, <1>3, <1>4
<1>7. ToSet(Sorted(s)) = ToSet(s)
  BY <1>1, <1>3, <1>4, <1>5 DEF ToSet
<1>8. IsInjective(Sorted(s))
  <2> SUFFICES ASSUME NEW i \in 1..n, NEW j \in 1..n, s[at(i)] = s[at(j)]
               PROVE  i = j
    BY <1>4 DEF IsInjective
  <2>1. at(i) = at(j)
    BY <1>1, <1>3 DEF IsInjective
  <2>2. i - 1 = j - 1
    BY <1>3, <2>1
  <2> QED
    BY <2>2
<1> QED
  BY <1>1, <1>6, <1>7, <1>8

-----------------------------------------------------------------------------
(* The chain. *)

\* The blocks are recorded histories, each a continuation of the ones before it,
\* and hashes are given out once.
ChainInv ==
  /\ hashes \in Nat /\ reorgs \in Nat
  /\ chain \in Seq(Blocks) /\ chain # <<>>
  /\ \A i \in DOMAIN chain : chain[i].hash \in 1..hashes /\ RecordedHistory(chain[i].history)
  /\ \A i, j \in DOMAIN chain : i <= j => Continues(chain[j].history, chain[i].history)

\* The first m blocks are kept and followed by the block b.
Grown(m, b) ==
  /\ m \in DOMAIN chain
  /\ chain' \in Seq(Blocks) /\ Len(chain') = m + 1
  /\ \A i \in 1..m : chain'[i] = chain[i]
  /\ chain'[m + 1] = b
  /\ b.hash = hashes + 1
  /\ RecordedHistory(b.history)
  /\ Continues(b.history, chain[m].history)
  /\ hashes' = hashes + 1
  /\ reorgs' \in {reorgs, reorgs + 1}

LEMMA TipIsBlock ==
  ASSUME ChainInv
  PROVE  /\ Len(chain) \in Nat \ {0} /\ DOMAIN chain = 1..Len(chain)
         /\ Len(chain) \in DOMAIN chain
         /\ Tip \in Blocks /\ RecordedHistory(Tip.history)
         /\ \A i \in DOMAIN chain :
              chain[i] \in Blocks /\ Continues(Tip.history, chain[i].history)
<1>1. Len(chain) \in Nat \ {0} /\ DOMAIN chain = 1..Len(chain)
  BY EmptySeq, LenProperties DEF ChainInv
<1>2. Len(chain) \in DOMAIN chain /\ \A i \in DOMAIN chain : i <= Len(chain)
  BY <1>1
<1>3. \A i \in DOMAIN chain : chain[i] \in Blocks
  BY <1>1, ElementOfSeq DEF ChainInv
<1> QED
  BY <1>1, <1>2, <1>3 DEF ChainInv, Tip

\* A mined block is appended.
LEMMA ExtendGrows ==
  ASSUME ChainInv, NEW history, NEW status, NEW tx, Extend(history, status, tx),
         RecordedHistory(history), Continues(history, Tip.history),
         status \in [Goods -> {ACTIVE, FROZEN, REVOKED}], tx \in Goods \cup {NoTarget}
  PROVE  /\ \E b : Grown(Len(chain), b)
         /\ UNCHANGED <<reorgs, auditVars>>
         /\ Tip'.history = history /\ Tip'.status = status
         /\ Len(chain') = Len(chain) + 1
         /\ chain'[Len(chain) + 1].tx = tx
         /\ \A i \in DOMAIN chain : i \in DOMAIN chain' /\ chain'[i] = chain[i]
<1> DEFINE m == Len(chain)
           b == [hash |-> hashes + 1, history |-> history, status |-> status, tx |-> tx]
<1>1. m \in DOMAIN chain /\ DOMAIN chain = 1..m /\ m \in Nat
  BY TipIsBlock
<1>2. history \in Seq(Events)
  BY DEF RecordedHistory, Events
<1>3. b \in Blocks
  BY <1>2 DEF Blocks, ChainInv
<1>4. chain' = Append(chain, b) /\ hashes' = hashes + 1 /\ UNCHANGED <<reorgs, auditVars>>
  BY DEF Extend
<1>5. /\ chain' \in Seq(Blocks) /\ Len(chain') = m + 1
      /\ \A i \in 1..m : chain'[i] = chain[i]
      /\ chain'[m + 1] = b
  BY <1>3, <1>4, AppendProperties DEF ChainInv
<1>6. b.hash = hashes + 1 /\ b.history = history /\ b.status = status /\ b.tx = tx
  OBVIOUS
<1> HIDE DEF b
<1>7. Grown(m, b)
  BY <1>1, <1>4, <1>5, <1>6 DEF Grown, Tip
<1>8. Tip' = b
  BY <1>5 DEF Tip
<1>9. DOMAIN chain' = 1..(m + 1)
  BY <1>5, LenProperties
<1> QED
  BY <1>1, <1>4, <1>5, <1>6, <1>7, <1>8, <1>9

\* An event of the ledger continues a recorded history.
LEMMA EventContinues ==
  ASSUME NEW history, RecordedHistory(history), NEW event \in Events,
         event.inputs \subseteq LiveIn(history),
         event.outputs \cap Created(history) = {},
         event.inputs = {} => \E o \in Goods : event.outputs = {o}
  PROVE  /\ RecordedHistory(Append(history, event))
         /\ Continues(Append(history, event), history)
         /\ Consumed(Append(history, event)) = Consumed(history) \cup event.inputs
         /\ Created(Append(history, event)) = Created(history) \cup event.outputs
<1> DEFINE long == Append(history, event)
<1>1. history \in Seq(Events) /\ Causal(history)
  BY DEF RecordedHistory, Events
<1>2. /\ long \in Seq(Events) /\ Causal(long) /\ Continues(long, history)
      /\ Consumed(long) = Consumed(history) \cup event.inputs
      /\ Created(long) = Created(history) \cup event.outputs
  BY <1>1, CausalAppend
<1>3. /\ DOMAIN history = 1..Len(history) /\ Len(history) \in Nat
      /\ DOMAIN long = 1..(Len(history) + 1)
      /\ \A i \in 1..Len(history) : long[i] = history[i]
      /\ long[Len(history) + 1] = event
  BY <1>1, AppendProperties
<1>4. \A i \in DOMAIN long : i \in DOMAIN history \/ i = Len(history) + 1
  BY <1>3
<1>5. \A i \in DOMAIN long :
        long[i].inputs = {} => \E o \in Goods : long[i].outputs = {o}
  BY <1>3, <1>4 DEF RecordedHistory
<1> QED
  BY <1>2, <1>5 DEF RecordedHistory, Events

\* What a ledger event does: one event, consuming what is live and not held.
LEMMA LedgerEventMined ==
  ASSUME ChainInv, LedgerEvent
  PROVE  \E event \in Events :
           LET long == Append(Tip.history, event) IN
             /\ event.inputs \subseteq LiveIn(Tip.history) \cap Goods
             /\ event.inputs \cap Held(Tip) = {}
             /\ Flow!Acceptable(Tip.history, Held(Tip), event)
             /\ Extend(long, Tip.status, NoTarget)
             /\ RecordedHistory(long) /\ Continues(long, Tip.history)
             /\ Consumed(long) = Consumed(Tip.history) \cup event.inputs
<1>1. PICK inputs \in SUBSET LiveIn(Tip.history),
           outputs \in Fresh(1, Goods) \cup Fresh(2, Goods) \cup Fresh(1, Claims) \cup {{}} :
        LET event == [inputs |-> inputs, outputs |-> outputs] IN
        /\ inputs = {} => outputs \in Fresh(1, Goods)
        /\ Flow!Acceptable(Tip.history, Held(Tip), event)
        /\ Extend(Append(Tip.history, event), Tip.status, NoTarget)
  BY DEF LedgerEvent
<1> DEFINE event == [inputs |-> inputs, outputs |-> outputs]
<1>2. /\ inputs \subseteq (LiveIn(Tip.history) \cap Goods) \ Held(Tip)
      /\ outputs \subseteq Objects \ Created(Tip.history)
  <2>1. /\ event.inputs \subseteq (LiveIn(Tip.history) \cap Goods) \ Held(Tip)
        /\ event.outputs \subseteq Objects \ Created(Tip.history)
    BY <1>1 DEF Flow!Acceptable, Flow!LiveIn, Flow!Created, Flow!Consumed,
                LiveIn, Created, Consumed
  <2> QED
    BY <2>1
<1>3. inputs = {} => \E o \in Goods : outputs = {o}
  <2> SUFFICES ASSUME inputs = {} PROVE \E o \in Goods : outputs = {o}
    OBVIOUS
  <2>1. outputs \subseteq Goods /\ Cardinality(outputs) = 1
    BY <1>1 DEF Fresh
  <2>2. IsFiniteSet(outputs)
    BY <2>1, GoodsAreNumbers, FS_Subset
  <2> QED
    BY <2>1, <2>2, FS_Singleton
<1>4. RecordedHistory(Tip.history)
  BY TipIsBlock
<1>5. event \in Events /\ event.inputs = inputs /\ event.outputs = outputs
  BY <1>2 DEF Events
<1>6. /\ Flow!Acceptable(Tip.history, Held(Tip), event)
      /\ Extend(Append(Tip.history, event), Tip.status, NoTarget)
  BY <1>1
<1> HIDE DEF event
<1>7. /\ event.inputs \subseteq LiveIn(Tip.history) \cap Goods
      /\ event.inputs \cap Held(Tip) = {}
      /\ event.outputs \cap Created(Tip.history) = {}
      /\ event.inputs = {} => \E o \in Goods : event.outputs = {o}
  BY <1>2, <1>3, <1>5
<1>8. /\ RecordedHistory(Append(Tip.history, event))
      /\ Continues(Append(Tip.history, event), Tip.history)
      /\ Consumed(Append(Tip.history, event)) = Consumed(Tip.history) \cup event.inputs
  BY <1>4, <1>5, <1>7, EventContinues
<1> QED
  BY <1>5, <1>6, <1>7, <1>8

LEMMA ContinuesItself == \A history : Continues(history, history)
BY DEF Continues

\* A status change, by an operator or by a freeze that is mined, is a block with
\* the same history.
LEMMA StatusMined ==
  ASSUME ChainInv, NEW o \in Goods, NEW new \in {ACTIVE, FROZEN, REVOKED},
         NEW tx \in Goods \cup {NoTarget},
         Extend(Tip.history, [Tip.status EXCEPT ![o] = new], tx)
           \/ Extend(Tip.history, Tip.status, tx)
  PROVE  /\ \E b : Grown(Len(chain), b)
         /\ UNCHANGED <<reorgs, auditVars>>
         /\ Tip'.history = Tip.history
         /\ \/ Tip'.status = [Tip.status EXCEPT ![o] = new]
            \/ Tip'.status = Tip.status
         /\ Len(chain') = Len(chain) + 1
         /\ chain'[Len(chain) + 1].tx = tx
         /\ \A i \in DOMAIN chain : i \in DOMAIN chain' /\ chain'[i] = chain[i]
<1>1. RecordedHistory(Tip.history) /\ Tip \in Blocks
  BY TipIsBlock
<1>2. Tip.status \in [Goods -> {ACTIVE, FROZEN, REVOKED}]
  BY <1>1 DEF Blocks
<1>3. [Tip.status EXCEPT ![o] = new] \in [Goods -> {ACTIVE, FROZEN, REVOKED}]
  BY <1>2
<1>4. CASE Extend(Tip.history, [Tip.status EXCEPT ![o] = new], tx)
  BY <1>1, <1>3, <1>4, ContinuesItself, ExtendGrows
<1>5. CASE Extend(Tip.history, Tip.status, tx)
  BY <1>1, <1>2, <1>5, ContinuesItself, ExtendGrows
<1> QED
  BY <1>4, <1>5

\* A replacement keeps the blocks before it, the snapshot's among them when
\* that one is final.
LEMMA ReorgGrows ==
  ASSUME ChainInv, NEW k \in 2..Len(chain), Reorg(k)
  PROVE  /\ \E b : Grown(k - 1, b)
         /\ UNCHANGED auditVars
         /\ FinalSnapshot /\ pc # "idle" => snap.number < k
         /\ MaxReorgs # 0
<1> DEFINE b == [chain[k - 1] EXCEPT !.hash = hashes + 1, !.tx = NoTarget]
<1>1. /\ Len(chain) \in Nat \ {0} /\ DOMAIN chain = 1..Len(chain)
      /\ k - 1 \in DOMAIN chain /\ k \in Nat /\ k - 1 \in Nat
  BY TipIsBlock
<1>2. chain[k - 1] \in Blocks /\ RecordedHistory(chain[k - 1].history)
  BY <1>1, TipIsBlock DEF ChainInv
<1>3. /\ b \in Blocks /\ b.hash = hashes + 1
      /\ b.history = chain[k - 1].history
  <2>1. hashes + 1 \in Nat
    BY DEF ChainInv
  <2> QED
    BY <1>2, <2>1 DEF Blocks
<1>4. chain' = Append(SubSeq(chain, 1, k - 1), b) /\ hashes' = hashes + 1
      /\ reorgs' = reorgs + 1 /\ UNCHANGED auditVars
  BY DEF Reorg
<1> HIDE DEF b
<1>5. /\ SubSeq(chain, 1, k - 1) \in Seq(Blocks)
      /\ Len(SubSeq(chain, 1, k - 1)) = k - 1
      /\ \A i \in 1..(k - 1) : SubSeq(chain, 1, k - 1)[i] = chain[i]
  <2>1. \A i \in 1..(k - 1) : chain[i] \in Blocks
    BY <1>1, TipIsBlock
  <2>2. /\ 1 \in Int /\ k - 1 \in Int /\ 1 <= k - 1 /\ (k - 1) - 1 + 1 = k - 1
        /\ \A i \in 1..(k - 1) : 1 + i - 1 = i
    BY <1>1
  <2> QED
    BY <2>1, <2>2, SubSeqProperties
<1>6. /\ chain' \in Seq(Blocks) /\ Len(chain') = (k - 1) + 1
      /\ \A i \in 1..(k - 1) : chain'[i] = chain[i]
      /\ chain'[(k - 1) + 1] = b
  BY <1>3, <1>4, <1>5, AppendProperties
<1>7. Grown(k - 1, b)
  BY <1>1, <1>2, <1>3, <1>4, <1>6, ContinuesItself DEF Grown
<1>8. FinalSnapshot /\ pc # "idle" => snap.number < k
  BY DEF Reorg
<1>9. MaxReorgs # 0
  BY DEF Reorg, ChainInv
<1> QED
  BY <1>4, <1>7, <1>8, <1>9

\* A prefix with the snapshot's block in it, if that is never replaced; the whole
\* chain, if nothing is.
Kept(m) ==
  /\ (FinalSnapshot \/ MaxReorgs = 0) /\ pc # "idle" /\ snap.number \in DOMAIN chain =>
       snap.number <= m
  /\ MaxReorgs = 0 => m = Len(chain)

\* Every step of the chain keeps a prefix of it, which holds the snapshot's block
\* when that one is final.
LEMMA ChainStepGrows ==
  ASSUME ChainInv, ChainStep
  PROVE  /\ UNCHANGED auditVars
         /\ \E m, b : Grown(m, b) /\ Kept(m)
<1>1. Kept(Len(chain))
  BY TipIsBlock DEF Kept
<1>2. CASE LedgerEvent
  <2>1. PICK event \in Events :
          LET long == Append(Tip.history, event) IN
            /\ Extend(long, Tip.status, NoTarget)
            /\ RecordedHistory(long) /\ Continues(long, Tip.history)
    BY <1>2, LedgerEventMined
  <2>2. Tip.status \in [Goods -> {ACTIVE, FROZEN, REVOKED}]
    BY TipIsBlock DEF Blocks
  <2>3. (\E b : Grown(Len(chain), b)) /\ UNCHANGED auditVars
    BY <2>1, <2>2, ExtendGrows
  <2> QED
    BY <1>1, <2>3
<1>3. CASE \E o \in Goods, new \in {ACTIVE, FROZEN, REVOKED} : OperatorStatus(o, new)
  <2>1. (\E b : Grown(Len(chain), b)) /\ UNCHANGED auditVars
    BY <1>3, StatusMined DEF OperatorStatus
  <2> QED
    BY <1>1, <2>1
<1>4. CASE \E o \in Goods : MineFreeze(o)
  <2>1. PICK o \in Goods : MineFreeze(o)
    BY <1>4
  <2>2. \/ Extend(Tip.history, [Tip.status EXCEPT ![o] = FROZEN], o)
        \/ Extend(Tip.history, Tip.status, o)
    BY <2>1 DEF MineFreeze
  <2>3. (\E b : Grown(Len(chain), b)) /\ UNCHANGED auditVars
    BY <2>2, StatusMined
  <2> QED
    BY <1>1, <2>3
<1>5. CASE \E k \in 2..Len(chain) : Reorg(k)
  <2>1. PICK k \in 2..Len(chain) : Reorg(k)
    BY <1>5
  <2>2. (\E b : Grown(k - 1, b)) /\ UNCHANGED auditVars
    BY <2>1, ReorgGrows
  <2>3. Kept(k - 1)
    BY <2>1, ReorgGrows, TipIsBlock DEF Kept
  <2> QED
    BY <2>2, <2>3
<1> QED
  BY <1>2, <1>3, <1>4, <1>5 DEF ChainStep

\* The chain stays one, and what was observed on it is on it unchanged or gone.
LEMMA GrownKeeps ==
  ASSUME ChainInv, NEW m, NEW b, Grown(m, b)
  PROVE  /\ ChainInv'
         /\ hashes <= hashes'
         /\ \A s : s.hash <= hashes /\ Canonical(s)' => Canonical(s) /\ At(s)' = At(s)
         /\ \A s : s.number <= m /\ Canonical(s) => Canonical(s)'
<1>1. /\ hashes \in Nat /\ reorgs \in Nat /\ m \in Nat \ {0} /\ m <= Len(chain)
      /\ DOMAIN chain = 1..Len(chain) /\ Len(chain) \in Nat
  BY TipIsBlock DEF Grown, ChainInv
<1>2. /\ chain' \in Seq(Blocks) /\ DOMAIN chain' = 1..(m + 1) /\ chain' # <<>>
      /\ hashes' \in Nat /\ reorgs' \in Nat /\ hashes' = hashes + 1
  <2>1. DOMAIN chain' = 1..(m + 1)
    BY LenProperties DEF Grown
  <2>2. 1 \in DOMAIN chain'
    BY <1>1, <2>1
  <2>3. chain' # <<>>
    BY <2>2
  <2> QED
    BY <1>1, <2>1, <2>3 DEF Grown
<1>3. \A i \in DOMAIN chain' : \/ /\ i \in DOMAIN chain /\ i <= m /\ chain'[i] = chain[i]
                              \/ /\ i = m + 1 /\ chain'[i] = b
  BY <1>1, <1>2 DEF Grown
<1>4. /\ b.hash = hashes + 1 /\ RecordedHistory(b.history)
      /\ \A i \in 1..m : Continues(b.history, chain[i].history)
  <2>1. \A i \in 1..m : Continues(chain[m].history, chain[i].history)
    BY <1>1 DEF ChainInv
  <2> QED
    BY <2>1, ContinuesTransitive DEF Grown
<1>5. \A i \in DOMAIN chain' :
        chain'[i].hash \in 1..hashes' /\ RecordedHistory(chain'[i].history)
  BY <1>1, <1>2, <1>3, <1>4 DEF ChainInv
<1>6. ASSUME NEW i \in DOMAIN chain', NEW j \in DOMAIN chain', i <= j
      PROVE  Continues(chain'[j].history, chain'[i].history)
  <2>1. CASE j <= m
    BY <1>1, <1>2, <1>3, <1>6, <2>1 DEF ChainInv
  <2>2. CASE j = m + 1 /\ i <= m
    BY <1>1, <1>2, <1>3, <1>4, <1>6, <2>2
  <2>3. CASE j = m + 1 /\ i = m + 1
    BY <2>3, ContinuesItself
  <2> QED
    BY <1>1, <1>2, <2>1, <2>2, <2>3
<1>7. ChainInv'
  BY <1>2, <1>5, <1>6 DEF ChainInv
<1>8. ASSUME NEW s, s.hash <= hashes, Canonical(s)'
      PROVE  Canonical(s) /\ At(s)' = At(s)
  <2>1. s.number \in DOMAIN chain' /\ chain'[s.number].hash = s.hash
    BY <1>8 DEF Canonical
  <2>2. s.number # m + 1
    BY <1>1, <1>3, <1>4, <1>8, <2>1
  <2> QED
    BY <1>3, <2>1, <2>2 DEF Canonical, At
<1>9. ASSUME NEW s, s.number <= m, Canonical(s)
      PROVE  Canonical(s)'
  BY <1>1, <1>2, <1>3, <1>9 DEF Canonical
<1> QED
  BY <1>1, <1>2, <1>7, <1>8, <1>9

-----------------------------------------------------------------------------
(* The audit. *)

\* What the auditor observed carries hashes of the past; a snapshot that cannot
\* be replaced stays on the chain.
SnapshotInv ==
  /\ \A s \in {snap, current, checkpoint} :
       s \in [number : Nat, hash : Nat] /\ s.hash <= hashes
  /\ (FinalSnapshot \/ MaxReorgs = 0) /\ pc # "idle" => Canonical(snap)

Looping == {"observe", "read", "estimate", "send", "receipt"}
Later   == Looping \cup {"checkpoint", "verify"}
Results == {TRACE_FAILED, NO_LIVE_TARGETS, COMPLETE_AT_CHECKPOINT, INCOMPLETE}

\* Where the audit is, and the target it is at.
PhaseInv ==
  /\ pc \in {"idle", "trace", "done"} \cup Later
  /\ IF pc = "done" THEN outcome \in Results ELSE outcome = "NONE"
  /\ pc = "idle" => seen = {} /\ frontier = <<>>
  /\ IF pc = "idle" THEN start = 0 ELSE start \in Objects
  /\ queue \in Seq(Objects) /\ seen \in SUBSET Objects
  /\ frontier \in Seq(Goods) /\ IsInjective(frontier)
  /\ complete \in BOOLEAN
  /\ pc \in Looping => target \in 1..Len(frontier)
  /\ pc = "checkpoint" => target = 1
  /\ pc = "verify" => target \in 1..Len(frontier) + 1
  /\ pc \in Later => lowerBound \in Nat /\ snap.number <= lowerBound

\* The search under way: what was reached came out of the object, what was seen
\* has been followed, and the targets are the unconsumed goods among it.
TraceInv ==
  pc = "trace" /\ Canonical(snap) =>
    LET history == At(snap).history
        reached == seen \cup ToSet(queue)
    IN  /\ start \in reached
        /\ reached \subseteq Descendants(history, start)
        /\ seen \subseteq Created(history)
        /\ \A i \in DOMAIN history :
             history[i].inputs \cap seen # {} => history[i].outputs \subseteq reached
        /\ ToSet(frontier) = (seen \cap Goods) \ Consumed(history)

\* The search that ended.
FoundInv ==
  Traced /\ Canonical(snap) =>
    /\ start \in Created(At(snap).history)
    /\ ToSet(frontier) = LiveDescendants(At(snap).history, start)

\* Freezes are submitted for targets only.
SubmittedInv ==
  /\ submitted \subseteq ToSet(frontier)
  /\ pc \in {"idle", "trace"} \/ outcome \in {TRACE_FAILED, NO_LIVE_TARGETS}
       => submitted = {}
  /\ outcome = NO_LIVE_TARGETS => frontier = <<>>

\* While the audit is complete so far, every target it looked at again is blocked
\* at the checkpoint, if that is still on the chain.
VerdictInv ==
  /\ pc = "verify" \/ outcome = COMPLETE_AT_CHECKPOINT =>
       snap.number <= checkpoint.number
  /\ pc = "verify" /\ complete /\ Canonical(checkpoint) =>
       \A i \in 1..(target - 1) : BlockedAt(checkpoint, frontier[i])
  /\ outcome = COMPLETE_AT_CHECKPOINT /\ Canonical(checkpoint) =>
       \A i \in DOMAIN frontier : BlockedAt(checkpoint, frontier[i])

\* Without replacements, a freeze whose receipt the audit did not wait for made
\* it incomplete.
PendingInv ==
  MaxReorgs = 0 =>
    ((pc \in Later /\ complete) \/ outcome = COMPLETE_AT_CHECKPOINT =>
       \A o \in submitted : \/ MinedAt(o) # {}
                            \/ pc = "receipt" /\ o = frontier[target])

AuditInv ==
  /\ ChainInv /\ SnapshotInv /\ PhaseInv /\ TraceInv /\ FoundInv
  /\ SubmittedInv /\ VerdictInv /\ PendingInv

LEMMA AuditInvInit == Init => AuditInv
<1> SUFFICES ASSUME Init PROVE AuditInv
  OBVIOUS
<1>1. PICK history \in Histories :
        chain = <<[hash |-> 1, history |-> history,
                   status |-> [o \in Goods |-> ACTIVE], tx |-> NoTarget]>>
  BY DEF Init
<1> DEFINE b == [hash |-> 1, history |-> history,
                 status |-> [o \in Goods |-> ACTIVE], tx |-> NoTarget]
<1>2. RecordedHistory(history) /\ history \in Seq(Events)
  BY HistoriesAssumption DEF RecordedHistory, Events
<1>3. b \in Blocks /\ b.hash = 1 /\ b.history = history
  BY <1>2 DEF Blocks
<1>4. chain = <<b>>
  BY <1>1
<1> HIDE DEF b
<1>5. /\ chain \in Seq(Blocks) /\ chain # <<>> /\ DOMAIN chain = {1}
      /\ chain[1] = b
  BY <1>3, <1>4
<1>6. hashes = 1 /\ reorgs = 0
  BY DEF Init
<1>7. ChainInv
  BY <1>2, <1>3, <1>5, <1>6, ContinuesItself DEF ChainInv
<1>8. SnapshotInv
  BY <1>6 DEF Init, SnapshotInv, NoSnapshot
<1>9. PhaseInv
  <2>1. <<>> \in Seq(Objects) /\ <<>> \in Seq(Goods) /\ IsInjective(<<>>)
    BY DEF IsInjective
  <2> QED
    BY <2>1 DEF Init, PhaseInv, Later, Looping
<1>10. TraceInv /\ FoundInv /\ SubmittedInv /\ VerdictInv /\ PendingInv
  BY DEF Init, TraceInv, FoundInv, Traced, SubmittedInv, VerdictInv, PendingInv,
         Later, Looping, TRACE_FAILED, NO_LIVE_TARGETS, COMPLETE_AT_CHECKPOINT
<1> QED
  BY <1>7, <1>8, <1>9, <1>10 DEF AuditInv

\* The variables of the audit but for what it submitted.
LEMMA ChainStepKeepsAudit ==
  ASSUME AuditInv, ChainStep
  PROVE  AuditInv'
<1>1. ChainInv /\ SnapshotInv /\ PhaseInv /\ TraceInv /\ FoundInv /\ SubmittedInv
      /\ VerdictInv /\ PendingInv
  BY DEF AuditInv
<1>2. /\ UNCHANGED auditVars
      /\ UNCHANGED <<pc, start, snap, queue, seen, frontier, target, current,
                     lowerBound, complete, txs, checkpoint, outcome, submitted>>
  BY <1>1, ChainStepGrows DEF auditVars, traceVars
<1>3. PICK m, b : Grown(m, b) /\ Kept(m)
  BY <1>1, ChainStepGrows
<1>4. /\ ChainInv' /\ hashes <= hashes' /\ hashes \in Nat /\ hashes' \in Nat
      /\ \A s : s.hash <= hashes /\ Canonical(s)' => Canonical(s) /\ At(s)' = At(s)
      /\ \A s : s.number <= m /\ Canonical(s) => Canonical(s)'
  BY <1>1, <1>3, GrownKeeps DEF ChainInv
<1>5. SnapshotInv'
  <2>1. \A s \in {snap, current, checkpoint} : s.hash <= hashes'
    BY <1>1, <1>4 DEF SnapshotInv
  <2>2. ASSUME FinalSnapshot \/ MaxReorgs = 0, pc # "idle"
        PROVE  Canonical(snap)'
    <3>1. Canonical(snap)
      BY <1>1, <2>2 DEF SnapshotInv
    <3>2. snap.number <= m
      BY <1>3, <2>2, <3>1 DEF Kept, Canonical
    <3> QED
      BY <1>2, <1>4, <3>1, <3>2 DEF Canonical
  <2> QED
    BY <1>1, <1>2, <2>1, <2>2 DEF SnapshotInv
<1>6. PhaseInv'
  BY <1>1, <1>2 DEF PhaseInv
<1>7. /\ snap.hash <= hashes /\ checkpoint.hash <= hashes
      /\ snap' = snap /\ checkpoint' = checkpoint
  BY <1>1, <1>2 DEF SnapshotInv
<1>8. /\ Canonical(snap)' => Canonical(snap) /\ At(snap)' = At(snap)
      /\ Canonical(checkpoint)' => Canonical(checkpoint) /\ At(checkpoint)' = At(checkpoint)
  BY <1>4, <1>7
<1>9. TraceInv'
  BY <1>1, <1>2, <1>8 DEF TraceInv
<1>10. FoundInv'
  BY <1>1, <1>2, <1>8 DEF FoundInv, Traced
<1>11. SubmittedInv'
  BY <1>1, <1>2 DEF SubmittedInv
<1>12. VerdictInv'
  BY <1>1, <1>2, <1>8 DEF VerdictInv, BlockedAt, UnspentAt
<1>13. PendingInv'
  <2> SUFFICES ASSUME MaxReorgs = 0, NEW o, MinedAt(o) # {}
               PROVE  MinedAt(o)' # {}
    BY <1>1, <1>2 DEF PendingInv
  <2>1. PICK k \in DOMAIN chain : chain[k].tx = o
    BY DEF MinedAt
  <2>2. k \in 1..m /\ m = Len(chain)
    BY <1>1, <1>3, TipIsBlock DEF Kept
  <2>3. k \in DOMAIN chain' /\ chain'[k] = chain[k]
    BY <1>1, <1>3, <2>2, TipIsBlock, LenProperties DEF Grown
  <2> QED
    BY <2>1, <2>3 DEF MinedAt
<1> QED
  BY <1>4, <1>5, <1>6, <1>9, <1>10, <1>11, <1>12, <1>13 DEF AuditInv

-----------------------------------------------------------------------------
(* The steps of the search. *)

LEMMA LatestIsCanonical ==
  ASSUME ChainInv
  PROVE  /\ Latest \in [number : Nat, hash : Nat] /\ Latest.hash <= hashes
         /\ Canonical(Latest) /\ At(Latest) = Tip
<1>1. Len(chain) \in Nat /\ Tip.hash \in Nat /\ Tip.hash <= hashes
  BY TipIsBlock DEF ChainInv, Tip
<1> QED
  BY <1>1, TipIsBlock DEF Latest, Canonical, At, Tip

LEMMA BeginKeeps ==
  ASSUME AuditInv, NEW object \in Objects, Begin(object)
  PROVE  AuditInv'
<1> USE DEF AuditInv
<1>1. /\ pc = "idle" /\ pc' = "trace" /\ start' = object /\ snap' = Latest
      /\ queue' = <<object>> /\ seen' = {} /\ frontier' = <<>>
      /\ UNCHANGED <<chain, hashes, reorgs, current, checkpoint, outcome, complete,
                     submitted>>
      /\ submitted = {} /\ outcome = "NONE"
  BY DEF Begin, chainVars, PhaseInv, SubmittedInv
<1>2. ChainInv'
  BY <1>1 DEF ChainInv
<1>3. SnapshotInv'
  BY <1>1, LatestIsCanonical DEF SnapshotInv, Canonical
<1>4. ToSet(<<object>>) = {object} /\ <<object>> \in Seq(Objects)
  BY RangeOfOne DEF ToSet, Range
<1>5. PhaseInv'
  <2>1. IsInjective(<<>>) /\ <<>> \in Seq(Goods)
    BY DEF IsInjective
  <2> QED
    BY <1>1, <1>4, <2>1 DEF PhaseInv, Later, Looping
<1>6. TraceInv'
  <2>1. ToSet(<<>>) = {}
    BY RangeOfNone DEF ToSet, Range
  <2>2. object \in Descendants(At(snap)'.history, object)
    BY DescendantsClosed
  <2> QED
    BY <1>1, <1>4, <2>1, <2>2 DEF TraceInv
<1>7. FoundInv' /\ SubmittedInv' /\ VerdictInv' /\ PendingInv'
  BY <1>1 DEF FoundInv, Traced, SubmittedInv, VerdictInv, PendingInv, Later, Looping,
              TRACE_FAILED, NO_LIVE_TARGETS, COMPLETE_AT_CHECKPOINT
<1> QED
  BY <1>2, <1>3, <1>5, <1>6, <1>7

LEMMA TraceFailsKeeps ==
  ASSUME AuditInv, TraceFails
  PROVE  AuditInv'
<1> USE DEF AuditInv
<1>1. /\ pc = "trace" /\ pc' = "done" /\ outcome' = TRACE_FAILED
      /\ UNCHANGED <<chain, hashes, reorgs, start, snap, queue, seen, frontier, current,
                     checkpoint, complete, submitted>>
      /\ submitted = {}
  BY DEF TraceFails, Return, TraceUnchanged, chainVars, SubmittedInv
<1>2. ChainInv'
  BY <1>1 DEF ChainInv
<1>3. SnapshotInv'
  BY <1>1 DEF SnapshotInv, Canonical
<1>4. PhaseInv'
  BY <1>1 DEF PhaseInv, Later, Looping, Results
<1>5. TraceInv' /\ FoundInv' /\ SubmittedInv' /\ VerdictInv' /\ PendingInv'
  BY <1>1 DEF TraceInv, FoundInv, Traced, SubmittedInv, VerdictInv, PendingInv, Later,
              Looping, TRACE_FAILED, NO_LIVE_TARGETS, COMPLETE_AT_CHECKPOINT
<1> QED
  BY <1>2, <1>3, <1>4, <1>5

\* Where an object was created and consumed.
LEMMA RecordsFound ==
  ASSUME NEW history, RecordedHistory(history), NEW ref
  PROVE  /\ DOMAIN history = 1..Len(history) /\ Len(history) \in Nat
         /\ \A i \in DOMAIN history : history[i] \in Events
         /\ Producer(history, ref) \in Nat /\ SpentIn(history, ref) \in Nat
         /\ Producer(history, ref) = 0 <=> ref \notin Created(history)
         /\ SpentIn(history, ref) = 0 <=> ref \notin Consumed(history)
         /\ Producer(history, ref) # 0 =>
              /\ Producer(history, ref) \in DOMAIN history
              /\ ref \in history[Producer(history, ref)].outputs
         /\ SpentIn(history, ref) # 0 =>
              /\ SpentIn(history, ref) \in DOMAIN history
              /\ ref \in history[SpentIn(history, ref)].inputs
         /\ \A i \in DOMAIN history : ref \in history[i].outputs => Producer(history, ref) = i
         /\ \A i \in DOMAIN history : ref \in history[i].inputs => SpentIn(history, ref) = i
<1>1. history \in Seq(Events) /\ Causal(history)
  BY DEF RecordedHistory, Events
<1> QED
  BY <1>1, EventsFound DEF Producer, SpentIn

\* The children of a record as a sequence.
LEMMA ObjectsInSequence ==
  ASSUME NEW set \in SUBSET Objects
  PROVE  SetToSeq(set) \in Seq(Objects) /\ ToSet(SetToSeq(set)) = set
<1>1. IsFiniteSet(set)
  BY GoodsAreNumbers, FS_Subset
<1>2. SetToSeq(set) \in Seq(set) /\ ToSet(SetToSeq(set)) = set
  BY <1>1, SequenceOfSet
<1> QED
  BY <1>2, SeqMonotonic

LEMMA TraceObjectKeeps ==
  ASSUME AuditInv, TraceObject
  PROVE  AuditInv'
<1> USE DEF AuditInv
<1> DEFINE ref      == Head(queue)
           history  == At(snap).history
           consumer == SpentIn(history, ref)
           reached  == seen \cup ToSet(queue)
           D        == Descendants(history, start)
<1>1. /\ pc = "trace" /\ pc' = "trace" /\ outcome' = outcome /\ queue # <<>>
      /\ UNCHANGED <<chain, hashes, reorgs, start, snap, current, checkpoint, complete,
                     submitted>>
      /\ submitted = {}
  BY DEF TraceObject, TraceUnchanged, chainVars, SubmittedInv
<1>2. /\ queue \in Seq(Objects) /\ seen \in SUBSET Objects
      /\ frontier \in Seq(Goods) /\ IsInjective(frontier)
  BY DEF PhaseInv
<1>3. /\ ref \in Objects /\ Tail(queue) \in Seq(Objects)
      /\ ToSet(queue) = {ref} \cup ToSet(Tail(queue))
      /\ \A t \in Seq(Objects) : /\ Tail(queue) \o t \in Seq(Objects)
                                 /\ ToSet(Tail(queue) \o t) = ToSet(Tail(queue)) \cup ToSet(t)
  <2>1. <<>> \in Seq(Objects)
    OBVIOUS
  <2> QED
    BY <1>1, <1>2, <2>1, QueueStep
<1>4. ChainInv'
  BY <1>1 DEF ChainInv
<1>5. SnapshotInv'
  BY <1>1 DEF SnapshotInv, Canonical
<1>6. FoundInv' /\ SubmittedInv' /\ VerdictInv' /\ PendingInv'
  BY <1>1 DEF FoundInv, Traced, SubmittedInv, VerdictInv, PendingInv, Later, Looping,
              PhaseInv, TRACE_FAILED, NO_LIVE_TARGETS, COMPLETE_AT_CHECKPOINT
<1>7. ASSUME queue' \in Seq(Objects), seen' \in SUBSET Objects,
             frontier' \in Seq(Goods), IsInjective(frontier')
      PROVE  PhaseInv'
  BY <1>1, <1>7 DEF PhaseInv, Later, Looping
\* An object seen before.
<1>8. CASE Seen(ref)
  <2>1. /\ queue' = Tail(queue) /\ UNCHANGED <<seen, frontier>> /\ ref \in seen
    BY <1>8 DEF TraceObject, Seen
  <2>2. PhaseInv'
    BY <1>2, <1>3, <1>7, <2>1
  <2>3. seen' \cup ToSet(queue') = seen \cup ToSet(queue)
    BY <1>3, <2>1
  <2>4. TraceInv'
    BY <1>1, <2>1, <2>3 DEF TraceInv, Canonical, At
  <2> QED
    BY <1>4, <1>5, <1>6, <2>2, <2>4
\* A new one, read at the snapshot.
<1>9. CASE ~Seen(ref)
  <2>1. /\ Canonical(snap) /\ Producer(history, ref) # 0
        /\ seen' = seen \cup {ref} /\ ref \notin seen
        /\ \/ /\ Terminal(ref)
              /\ queue' = Tail(queue)
              /\ UNCHANGED frontier
           \/ /\ ~Terminal(ref) /\ consumer = 0
              /\ queue' = Tail(queue)
              /\ frontier' = Append(frontier, ref)
           \/ /\ ~Terminal(ref) /\ consumer > Producer(history, ref)
              /\ queue' = Tail(queue) \o Children(history, consumer)
              /\ UNCHANGED frontier
    BY <1>9 DEF TraceObject, Seen
  <2>2. RecordedHistory(history) /\ snap.number \in DOMAIN chain
    BY <2>1 DEF Canonical, At, ChainInv
  <2>3. /\ start \in reached /\ reached \subseteq D
        /\ seen \subseteq Created(history)
        /\ \A i \in DOMAIN history :
             history[i].inputs \cap seen # {} => history[i].outputs \subseteq reached
        /\ ToSet(frontier) = (seen \cap Goods) \ Consumed(history)
    BY <1>1, <2>1 DEF TraceInv
  <2>4. /\ Canonical(snap)' /\ At(snap)' = At(snap)
    BY <1>1, <2>1 DEF Canonical, At
  <2> HIDE DEF ref, history, consumer, D
  <2>5. /\ DOMAIN history = 1..Len(history) /\ Len(history) \in Nat
        /\ \A i \in DOMAIN history : history[i] \in Events
        /\ ref \in Created(history)
        /\ consumer \in Nat
        /\ consumer = 0 <=> ref \notin Consumed(history)
        /\ consumer # 0 => consumer \in DOMAIN history /\ ref \in history[consumer].inputs
        /\ \A i \in DOMAIN history : ref \in history[i].inputs => consumer = i
    BY <2>1, <2>2, RecordsFound DEF consumer
  <2>6. ASSUME queue' \in Seq(Objects), frontier' \in Seq(Goods), IsInjective(frontier'),
               ToSet(queue) \ {ref} \subseteq ToSet(queue'),
               ToSet(queue') \subseteq D,
               \A i \in DOMAIN history :
                 ref \in history[i].inputs => history[i].outputs \subseteq ToSet(queue'),
               ToSet(frontier') = (seen' \cap Goods) \ Consumed(history)
        PROVE  AuditInv'
    <3>1. seen' \in SUBSET Objects
      BY <1>2, <1>3, <2>1
    <3>2. PhaseInv'
      BY <1>7, <2>6, <3>1
    <3>3. /\ seen' \cup ToSet(queue') = reached \cup ToSet(queue')
          /\ seen' \subseteq Created(history)
      BY <1>3, <2>1, <2>3, <2>5, <2>6
    <3>4. \A i \in DOMAIN history :
            history[i].inputs \cap seen' # {} =>
              history[i].outputs \subseteq reached \cup ToSet(queue')
      BY <2>1, <2>3, <2>6
    <3>5. TraceInv'
      BY <1>1, <2>3, <2>4, <2>6, <3>3, <3>4 DEF TraceInv, history, D
    <3> QED
      BY <1>4, <1>5, <1>6, <3>2, <3>5
  <2>7. CASE /\ Terminal(ref)
             /\ queue' = Tail(queue)
             /\ UNCHANGED frontier
    <3>1. ref \notin Goods
      BY <2>7, GoodsAreNumbers DEF Terminal
    <3>2. \A i \in DOMAIN history : ref \notin history[i].inputs
      BY <2>5, <3>1 DEF Events
    <3> QED
      BY <1>2, <1>3, <2>1, <2>3, <2>6, <2>7, <3>1, <3>2
  <2>8. CASE /\ ~Terminal(ref) /\ consumer = 0
             /\ queue' = Tail(queue)
             /\ frontier' = Append(frontier, ref)
    <3>1. ref \in Goods
      BY <1>3, <2>8 DEF Terminal, Objects
    <3>2. \A i \in DOMAIN history : ref \notin history[i].inputs
      BY <2>5, <2>8
    <3>3. /\ frontier' \in Seq(Goods) /\ IsInjective(frontier')
          /\ ToSet(frontier') = ToSet(frontier) \cup {ref}
      BY <1>2, <2>1, <2>3, <2>8, <3>1, SetAfterAppend
    <3>4. ToSet(frontier') = (seen' \cap Goods) \ Consumed(history)
      BY <2>1, <2>3, <2>5, <2>8, <3>1, <3>3
    <3> QED
      BY <1>3, <2>3, <2>6, <2>8, <3>2, <3>3, <3>4
  <2>9. CASE /\ ~Terminal(ref) /\ consumer > Producer(history, ref)
             /\ queue' = Tail(queue) \o Children(history, consumer)
             /\ UNCHANGED frontier
    <3>1. Producer(history, ref) \in Nat
      BY <2>2, RecordsFound
    <3>2. /\ consumer # 0 /\ consumer \in DOMAIN history
          /\ ref \in history[consumer].inputs /\ ref \in Consumed(history)
      BY <2>5, <2>9, <3>1
    <3>3. history[consumer].outputs \in SUBSET Objects
      BY <2>5, <3>2 DEF Events
    <3>4. /\ queue' \in Seq(Objects)
          /\ ToSet(queue') = ToSet(Tail(queue)) \cup history[consumer].outputs
      BY <1>3, <2>9, <3>3, ObjectsInSequence DEF Children
    <3>5. history[consumer].outputs \subseteq D
      BY <1>3, <2>3, <3>2, DescendantsClosed DEF Closed, D
    <3>6. ToSet(frontier') = (seen' \cap Goods) \ Consumed(history)
      BY <2>1, <2>3, <2>9, <3>2
    <3> QED
      BY <1>2, <1>3, <2>3, <2>5, <2>6, <2>9, <3>4, <3>5, <3>6
  <2> QED
    BY <2>1, <2>7, <2>8, <2>9
<1> QED
  BY <1>8, <1>9

\* A search with an empty queue has seen everything that came out of the object.
LEMMA SearchComplete ==
  ASSUME AuditInv, pc = "trace", Canonical(snap), queue = <<>>
  PROVE  LET history == At(snap).history IN
           /\ start \in Created(history)
           /\ seen = Descendants(history, start)
           /\ ToSet(frontier) = LiveDescendants(history, start)
<1> DEFINE history == At(snap).history
<1>1. ToSet(queue) = {}
  BY RangeOfNone DEF ToSet, Range
<1>2. /\ start \in seen /\ seen \subseteq Descendants(history, start)
      /\ seen \subseteq Created(history)
      /\ Closed(history, seen)
      /\ ToSet(frontier) = (seen \cap Goods) \ Consumed(history)
  BY <1>1 DEF AuditInv, TraceInv, Closed
<1>3. seen = Descendants(history, start)
  BY <1>2, DescendantsLeast
<1> QED
  BY <1>2, <1>3 DEF LiveDescendants, LiveIn

LEMMA TraceDoneKeeps ==
  ASSUME AuditInv, TraceDone
  PROVE  AuditInv'
<1> USE DEF AuditInv
<1>1. /\ pc = "trace" /\ queue = <<>> /\ Canonical(snap)
      /\ UNCHANGED <<chain, hashes, reorgs, start, snap, queue, seen, current,
                     checkpoint, complete, submitted>>
      /\ submitted = {} /\ frontier' = Sorted(frontier) /\ outcome = "NONE"
  BY DEF TraceDone, chainVars, SubmittedInv, PhaseInv
<1>2. \/ /\ frontier = <<>> /\ pc' = "done" /\ outcome' = NO_LIVE_TARGETS
      \/ /\ frontier # <<>> /\ pc' = "observe" /\ outcome' = "NONE"
         /\ target' = 1 /\ lowerBound' = snap.number
  BY <1>1 DEF TraceDone, Return
<1>3. frontier \in Seq(Goods) /\ IsInjective(frontier) /\ Goods \subseteq Nat
  BY GoodsAreNumbers DEF PhaseInv
<1>4. /\ frontier' \in Seq(Goods) /\ IsInjective(frontier')
      /\ ToSet(frontier') = ToSet(frontier) /\ Len(frontier') = Len(frontier)
  BY <1>1, <1>3, SortedIsPermutation
<1>5. ChainInv'
  BY <1>1 DEF ChainInv
<1>6. SnapshotInv'
  BY <1>1, <1>2 DEF SnapshotInv, Canonical
<1>7. PhaseInv'
  <2>1. snap.number \in Nat
    BY DEF SnapshotInv
  <2>2. CASE frontier = <<>> /\ pc' = "done" /\ outcome' = NO_LIVE_TARGETS
    BY <1>1, <1>4, <2>2 DEF PhaseInv, Later, Looping, Results
  <2>3. CASE /\ frontier # <<>> /\ pc' = "observe" /\ outcome' = "NONE"
             /\ target' = 1 /\ lowerBound' = snap.number
    <3>1. target' \in 1..Len(frontier')
      BY <1>3, <1>4, <2>3, EmptySeq, LenProperties
    <3> QED
      BY <1>1, <1>4, <2>1, <2>3, <3>1 DEF PhaseInv, Later, Looping, Results
  <2> QED
    BY <1>2, <2>2, <2>3
<1>8. FoundInv'
  BY <1>1, <1>4, SearchComplete DEF FoundInv, Canonical, At
<1>9. TraceInv' /\ VerdictInv' /\ PendingInv'
  BY <1>1, <1>2 DEF TraceInv, VerdictInv, PendingInv,
                    NO_LIVE_TARGETS, COMPLETE_AT_CHECKPOINT
<1>10. SubmittedInv'
  <2>1. frontier = <<>> => frontier' = <<>>
    BY <1>3, <1>4, EmptySeq
  <2> QED
    BY <1>1, <1>2, <2>1 DEF SubmittedInv, TRACE_FAILED, NO_LIVE_TARGETS
<1> QED
  BY <1>5, <1>6, <1>7, <1>8, <1>9, <1>10

-----------------------------------------------------------------------------
(* The steps from target to target, and the verdict. *)

\* What was found stays when the audit only goes on from there.
LEMMA FindingsStay ==
  ASSUME AuditInv, UNCHANGED <<chainVars, traceVars>>, pc \in Later,
         pc' \notin {"idle", "trace"},
         current' \in {current, Latest}, checkpoint' \in {checkpoint, Latest}
  PROVE  ChainInv' /\ SnapshotInv' /\ TraceInv' /\ FoundInv'
<1> USE DEF AuditInv
<1>1. /\ UNCHANGED <<chain, hashes, reorgs, start, snap, queue, seen, frontier>>
      /\ pc \notin {"idle", "trace", "done"} /\ outcome = "NONE"
  BY DEF chainVars, traceVars, Later, Looping, PhaseInv
<1>2. ChainInv'
  BY <1>1 DEF ChainInv
<1>3. SnapshotInv'
  <2>1. /\ Latest \in [number : Nat, hash : Nat] /\ Latest.hash <= hashes
    BY LatestIsCanonical
  <2>2. \A s \in {snap, current, checkpoint, Latest} :
          s \in [number : Nat, hash : Nat] /\ s.hash <= hashes
    BY <2>1 DEF SnapshotInv
  <2>3. {snap', current', checkpoint'} \subseteq {snap, current, checkpoint, Latest}
    BY <1>1
  <2>4. (FinalSnapshot \/ MaxReorgs = 0) => Canonical(snap)'
    BY <1>1 DEF SnapshotInv, Canonical
  <2> QED
    BY <1>1, <2>2, <2>3, <2>4 DEF SnapshotInv
<1>4. TraceInv'
  BY <1>1 DEF TraceInv
<1>5. FoundInv'
  BY <1>1 DEF FoundInv, Traced, Canonical, At, TRACE_FAILED
<1> QED
  BY <1>2, <1>3, <1>4, <1>5

\* A step within the targets, or on to the checkpoint.
LEMMA TargetStepKeeps ==
  ASSUME AuditInv, UNCHANGED <<chainVars, traceVars, checkpoint, outcome>>,
         pc \in Looping,
         \/ NextTarget
         \/ pc' \in Looping /\ target' = target,
         current' \in {current, Latest},
         complete' \in BOOLEAN,
         lowerBound' \in Nat, lowerBound <= lowerBound',
         submitted \subseteq submitted', submitted' \subseteq submitted \cup {frontier[target]},
         MaxReorgs = 0 /\ complete' =>
           /\ complete
           /\ \A o \in submitted' : \/ MinedAt(o) # {}
                                    \/ pc' = "receipt" /\ target' = target /\ o = frontier[target]
  PROVE  AuditInv'
<1> USE DEF AuditInv
<1>1. /\ UNCHANGED <<chain, hashes, reorgs, start, snap, queue, seen, frontier, checkpoint,
                     outcome>>
      /\ pc \notin {"idle", "trace", "done", "verify"} /\ outcome = "NONE"
      /\ pc \in Later
  BY DEF chainVars, traceVars, Later, Looping, PhaseInv
<1>2. /\ target \in 1..Len(frontier) /\ Len(frontier) \in Nat
      /\ frontier[target] \in ToSet(frontier)
  BY LenProperties DEF PhaseInv, ToSet
<1>3. \/ pc' \in Looping /\ target' \in 1..Len(frontier)
      \/ pc' = "checkpoint" /\ target' = 1
  BY <1>2 DEF NextTarget, Looping
<1>4. pc' \in Looping \cup {"checkpoint"}
  BY <1>3
<1>5. ChainInv' /\ SnapshotInv' /\ TraceInv' /\ FoundInv'
  BY <1>1, <1>4, FindingsStay DEF Looping
<1>6. PhaseInv'
  <2>1. lowerBound' \in Nat /\ snap.number <= lowerBound' 
    BY <1>1 DEF PhaseInv, SnapshotInv
  <2> QED
    BY <1>1, <1>3, <1>4, <2>1 DEF PhaseInv, Later, Looping
<1>7. SubmittedInv'
  BY <1>1, <1>2, <1>4 DEF SubmittedInv, Looping, TRACE_FAILED, NO_LIVE_TARGETS
<1>8. VerdictInv'
  BY <1>1, <1>4 DEF VerdictInv, Looping, COMPLETE_AT_CHECKPOINT
<1>9. PendingInv'
  BY <1>1, <1>4 DEF PendingInv, MinedAt, Looping, COMPLETE_AT_CHECKPOINT
<1> QED
  BY <1>5, <1>6, <1>7, <1>8, <1>9

\* The freezes submitted so far are mined, except for the one whose receipt is
\* awaited.
LEMMA NothingElsePending ==
  ASSUME AuditInv, MaxReorgs = 0, pc \in Looping, complete, NEW o \in submitted
  PROVE  MinedAt(o) # {} \/ (pc = "receipt" /\ o = frontier[target])
BY DEF AuditInv, PendingInv, Later

LEMMA LowerBoundRises ==
  ASSUME AuditInv, pc \in Looping, NEW n \in Nat
  PROVE  /\ lowerBound \in Nat /\ complete \in BOOLEAN
         /\ Highest(lowerBound, n) \in Nat /\ lowerBound <= Highest(lowerBound, n)
BY DEF AuditInv, PhaseInv, Later, Highest

LEMMA TargetsKeep ==
  ASSUME AuditInv, Observe \/ ReadStatus \/ Estimate \/ Send \/ Receipt
  PROVE  AuditInv'
<1>1. Len(chain) \in Nat /\ DOMAIN chain \subseteq Nat
  BY TipIsBlock DEF AuditInv
<1>2. pc \in Looping
  BY DEF Observe, ReadStatus, Estimate, Send, Receipt, Looping
<1>3. lowerBound \in Nat /\ complete \in BOOLEAN
  BY <1>1, <1>2, LowerBoundRises
<1>4. CASE Observe
  <2>1. /\ UNCHANGED <<chainVars, traceVars, checkpoint, outcome, submitted>>
        /\ pc = "observe"
        /\ \/ NextTarget
           \/ pc' = "read" /\ target' = target
        /\ current' \in {current, Latest}
        /\ complete' = complete \/ complete' = FALSE
        /\ \/ lowerBound' = lowerBound
           \/ lowerBound' = Highest(lowerBound, Len(chain))
    BY <1>4 DEF Observe, Latest
  <2>2. lowerBound' \in Nat /\ lowerBound <= lowerBound'
    BY <1>1, <1>2, <1>3, <2>1, LowerBoundRises
  <2>3. \/ NextTarget
        \/ pc' \in Looping /\ target' = target
    BY <2>1 DEF Looping
  <2>4. MaxReorgs = 0 /\ complete' => complete /\ \A o \in submitted' : MinedAt(o) # {}
    BY <1>2, <2>1, NothingElsePending
  <2> QED
    BY <1>2, <1>3, <2>1, <2>2, <2>3, <2>4, TargetStepKeeps
<1>5. CASE ReadStatus
  <2>1. /\ UNCHANGED <<chainVars, traceVars, current, lowerBound, checkpoint, outcome,
                       submitted>>
        /\ pc = "read"
        /\ \/ NextTarget
           \/ pc' = "estimate" /\ target' = target
        /\ complete' \in BOOLEAN /\ (complete' => complete)
    BY <1>3, <1>5 DEF ReadStatus
  <2>2. \/ NextTarget
        \/ pc' \in Looping /\ target' = target
    BY <2>1 DEF Looping
  <2>3. MaxReorgs = 0 /\ complete' => complete /\ \A o \in submitted' : MinedAt(o) # {}
    BY <1>2, <2>1, NothingElsePending
  <2> QED
    BY <1>2, <1>3, <2>1, <2>2, <2>3, TargetStepKeeps
<1>6. CASE Estimate
  <2>1. /\ UNCHANGED <<chainVars, traceVars, current, lowerBound, complete, checkpoint,
                       outcome, submitted>>
        /\ pc = "estimate"
        /\ \/ NextTarget
           \/ pc' = "send" /\ target' = target
    BY <1>6 DEF Estimate
  <2>2. \/ NextTarget
        \/ pc' \in Looping /\ target' = target
    BY <2>1 DEF Looping
  <2>3. MaxReorgs = 0 /\ complete' => complete /\ \A o \in submitted' : MinedAt(o) # {}
    BY <1>2, <2>1, NothingElsePending
  <2> QED
    BY <1>2, <1>3, <2>1, <2>2, <2>3, TargetStepKeeps
<1>7. CASE Send
  <2>1. /\ UNCHANGED <<chainVars, traceVars, current, lowerBound, checkpoint, outcome>>
        /\ pc = "send"
        /\ \/ /\ submitted' = submitted \cup {frontier[target]}
              /\ pc' = "receipt" /\ target' = target /\ complete' = complete
           \/ /\ submitted' \in {submitted, submitted \cup {frontier[target]}}
              /\ complete' = FALSE
              /\ NextTarget
    BY <1>7 DEF Send
  <2>2. /\ \/ NextTarget
           \/ pc' \in Looping /\ target' = target
        /\ submitted \subseteq submitted'
        /\ submitted' \subseteq submitted \cup {frontier[target]}
        /\ complete' \in BOOLEAN
    BY <1>3, <2>1 DEF Looping
  <2>3. MaxReorgs = 0 /\ complete' =>
          /\ complete
          /\ \A o \in submitted' : \/ MinedAt(o) # {}
                                   \/ /\ pc' = "receipt" /\ target' = target
                                      /\ o = frontier[target]
    BY <1>2, <2>1, NothingElsePending
  <2> QED
    BY <1>2, <1>3, <2>1, <2>2, <2>3, TargetStepKeeps
<1>8. CASE Receipt
  <2>1. /\ UNCHANGED <<chainVars, traceVars, current, checkpoint, outcome, submitted>>
        /\ pc = "receipt" /\ NextTarget
        /\ \/ \E k \in MinedAt(frontier[target]) :
                lowerBound' = Highest(lowerBound, k) /\ complete' = complete
           \/ lowerBound' = lowerBound /\ complete' = FALSE
    BY <1>8 DEF Receipt, ReceiptMissing
  <2>2. \A k \in MinedAt(frontier[target]) : k \in Nat
    BY <1>1 DEF MinedAt
  <2>3. lowerBound' \in Nat /\ lowerBound <= lowerBound'
    BY <1>2, <1>3, <2>1, <2>2, LowerBoundRises
  <2>4. complete' \in BOOLEAN
    BY <1>3, <2>1
  <2>5. MaxReorgs = 0 /\ complete' => complete /\ \A o \in submitted' : MinedAt(o) # {}
    BY <1>2, <2>1, NothingElsePending
  <2> QED
    BY <1>2, <1>3, <2>1, <2>5, <2>3, <2>4, TargetStepKeeps
<1> QED
  BY <1>4, <1>5, <1>6, <1>7, <1>8

LEMMA VerdictKeeps ==
  ASSUME AuditInv, FinalCheckpoint \/ Verify \/ Finish
  PROVE  AuditInv'
<1> USE DEF AuditInv
<1>1. /\ UNCHANGED <<chain, hashes, reorgs, start, snap, queue, seen, frontier, current,
                     lowerBound, submitted, chainVars, traceVars>>
      /\ pc \in {"checkpoint", "verify"} /\ pc' \in {"verify", "done"} /\ outcome = "NONE"
      /\ checkpoint' \in {checkpoint, Latest}
      /\ snap.number <= lowerBound /\ lowerBound \in Nat
      /\ Len(frontier) \in Nat /\ complete \in BOOLEAN
      /\ snap.number \in Nat /\ Len(chain) \in Nat
  BY LenProperties, TipIsBlock
     DEF FinalCheckpoint, Verify, Finish, Return, chainVars, traceVars, PhaseInv, Later,
         Looping, SnapshotInv
<1>2. ChainInv' /\ SnapshotInv' /\ TraceInv' /\ FoundInv'
  BY <1>1, FindingsStay DEF Later
<1>3. \/ pc' = "verify" /\ outcome' = "NONE"
      \/ pc' = "done" /\ outcome' \in {COMPLETE_AT_CHECKPOINT, INCOMPLETE}
  BY <1>1 DEF FinalCheckpoint, Verify, Finish, Return
<1>4. PhaseInv'
  <2>1. complete' \in BOOLEAN
    BY <1>1 DEF FinalCheckpoint, Verify, Finish
  <2>2. pc' = "verify" => target' \in 1..Len(frontier) + 1
    BY <1>1 DEF FinalCheckpoint, Verify, Finish, Return, PhaseInv
  <2> QED
    BY <1>1, <1>3, <2>1, <2>2 DEF PhaseInv, Later, Looping, Results
<1>5. SubmittedInv'
  BY <1>1, <1>3 DEF SubmittedInv, TRACE_FAILED, NO_LIVE_TARGETS, COMPLETE_AT_CHECKPOINT,
                    INCOMPLETE
<1>6. PendingInv'
  <2>1. outcome' = COMPLETE_AT_CHECKPOINT \/ complete' => complete
    BY <1>1 DEF FinalCheckpoint, Verify, Finish, Return, COMPLETE_AT_CHECKPOINT, INCOMPLETE
  <2> QED
    BY <1>1, <1>3, <2>1 DEF PendingInv, MinedAt, Later, COMPLETE_AT_CHECKPOINT
<1>7. VerdictInv'
  <2>1. CASE FinalCheckpoint
    <3>1. /\ pc' = "verify" => target' = 1 /\ checkpoint' = Latest /\ lowerBound <= Len(chain)
          /\ outcome' # COMPLETE_AT_CHECKPOINT
      BY <1>1, <2>1 DEF FinalCheckpoint, Return, Latest, PhaseInv, COMPLETE_AT_CHECKPOINT,
                        INCOMPLETE
    <3>2. pc' = "verify" => snap.number <= checkpoint'.number
      BY <1>1, <3>1 DEF Latest
    <3>3. pc' = "verify" => 1..(target' - 1) = {}
      BY <3>1
    <3> QED
      BY <1>1, <3>1, <3>2, <3>3 DEF VerdictInv
  <2>2. CASE Verify
    <3>1. /\ pc = "verify" /\ pc' = "verify" /\ outcome' = outcome
          /\ checkpoint' = checkpoint /\ UNCHANGED <<chain, frontier, snap>>
          /\ target <= Len(frontier) /\ target' = target + 1
      BY <2>2 DEF Verify, chainVars, traceVars
    <3>2. complete' => complete /\ Canonical(checkpoint)
                         /\ BlockedAt(checkpoint, frontier[target])
      BY <2>2 DEF Verify
    <3>3. \A i \in 1..(target' - 1) : i \in 1..(target - 1) \/ i = target
      BY <1>1, <3>1 DEF PhaseInv
    <3>4. ASSUME complete', NEW i \in 1..(target' - 1)
          PROVE  BlockedAt(checkpoint, frontier[i])
      BY <3>1, <3>2, <3>3, <3>4 DEF VerdictInv
    <3>5. ASSUME NEW o, BlockedAt(checkpoint, o)
          PROVE  BlockedAt(checkpoint, o)'
      BY <3>1, <3>5 DEF BlockedAt, UnspentAt, At
    <3>6. complete' => \A i \in 1..(target' - 1) : BlockedAt(checkpoint, frontier[i])'
      BY <3>1, <3>4, <3>5 DEF BlockedAt, UnspentAt, At
    <3>7. snap.number <= checkpoint.number
      BY <3>1 DEF VerdictInv
    <3> QED
      BY <1>1, <3>1, <3>6, <3>7 DEF VerdictInv, COMPLETE_AT_CHECKPOINT
  <2>3. CASE Finish
    <3>1. /\ pc = "verify" /\ pc' = "done" /\ checkpoint' = checkpoint
          /\ target = Len(frontier) + 1
          /\ outcome' = COMPLETE_AT_CHECKPOINT => complete
      BY <1>1, <2>3 DEF Finish, Return, PhaseInv, COMPLETE_AT_CHECKPOINT, INCOMPLETE
    <3>2. DOMAIN frontier = 1..(target - 1)
      BY <1>1, <3>1, LenProperties DEF PhaseInv
    <3> QED
      BY <1>1, <3>1, <3>2 DEF VerdictInv, BlockedAt, UnspentAt, Canonical, At
  <2> QED
    BY <2>1, <2>2, <2>3
<1> QED
  BY <1>2, <1>4, <1>5, <1>6, <1>7

\* Every step keeps the invariant.
LEMMA AuditStepKeeps ==
  ASSUME AuditInv, [Next]_vars
  PROVE  AuditInv'
<1>1. CASE ChainStep
  BY <1>1, ChainStepKeepsAudit
<1>2. CASE \E object \in Objects : Begin(object)
  BY <1>2, BeginKeeps
<1>3. CASE AuditStep
  BY <1>3, TraceFailsKeeps, TraceObjectKeeps, TraceDoneKeeps, TargetsKeep, VerdictKeeps
     DEF AuditStep
<1>4. CASE UNCHANGED vars
  <2>1. UNCHANGED <<chain, hashes, reorgs, pc, start, snap, queue, seen, frontier, target,
                    current, lowerBound, complete, checkpoint, outcome, submitted>>
    BY <1>4 DEF vars, chainVars, auditVars, traceVars
  <2>2. ChainInv' /\ SnapshotInv' /\ PhaseInv'
    BY <2>1 DEF AuditInv, ChainInv, SnapshotInv, PhaseInv, Canonical
  <2>3. TraceInv' /\ FoundInv' /\ SubmittedInv'
    BY <2>1 DEF AuditInv, TraceInv, FoundInv, SubmittedInv, Traced, Canonical, At
  <2>4. VerdictInv' /\ PendingInv'
    BY <2>1 DEF AuditInv, VerdictInv, PendingInv, Canonical, At, BlockedAt, UnspentAt,
                MinedAt
  <2> QED
    BY <2>2, <2>3, <2>4 DEF AuditInv
<1> QED
  BY <1>1, <1>2, <1>3, <1>4 DEF Next

-----------------------------------------------------------------------------
(* What an audit promises. *)

\* The invariant of an audit: the search has followed what it has seen, the
\* targets are the live descendants at the snapshot, and the verdict rests on a
\* checkpoint that is not before the snapshot.
THEOREM AuditInvariant == Spec => []AuditInv
<1>1. Init => AuditInv
  BY AuditInvInit
<1>2. AuditInv /\ [Next]_vars => AuditInv'
  BY AuditStepKeeps
<1> QED
  BY <1>1, <1>2, PTL DEF Spec

\* The search is sound and complete, for every history and whatever the chain does
\* meanwhile: the targets are the live descendants at the snapshot, each once.
THEOREM FrontierIsExact == Spec => []FrontierExact
<1>1. AuditInv => FrontierExact
  <2> SUFFICES ASSUME AuditInv, Traced, Canonical(snap)
               PROVE  /\ ToSet(frontier) = LiveDescendants(At(snap).history, start)
                      /\ Cardinality(ToSet(frontier)) = Len(frontier)
    BY DEF FrontierExact
  <2>1. ToSet(frontier) = LiveDescendants(At(snap).history, start)
    BY DEF AuditInv, FoundInv
  <2>2. frontier \in Seq(Goods) /\ IsInjective(frontier)
    BY DEF AuditInv, PhaseInv
  <2> QED
    BY <2>1, <2>2, InjectiveCount
<1> QED
  BY <1>1, AuditInvariant, PTL

\* What is submitted are live descendants, nothing when there was no search or it
\* found none.
THEOREM FreezesAreTargets == Spec => []FreezesOnlyTargets
<1>1. AuditInv => FreezesOnlyTargets
  <2> SUFFICES ASSUME AuditInv PROVE FreezesOnlyTargets
    OBVIOUS
  <2>1. outcome \in {TRACE_FAILED, NO_LIVE_TARGETS} => submitted = {}
    BY DEF AuditInv, SubmittedInv
  <2>2. ASSUME Canonical(snap), submitted # {}
        PROVE  submitted \subseteq LiveDescendants(At(snap).history, start)
    <3>1. Traced
      BY <2>2 DEF AuditInv, SubmittedInv, Traced
    <3> QED
      BY <2>2, <3>1 DEF AuditInv, SubmittedInv, FoundInv
  <2> QED
    BY <2>1, <2>2 DEF FreezesOnlyTargets
<1> QED
  BY <1>1, AuditInvariant, PTL

\* While no live descendant is consumed there are no further ones: a claim never
\* is, only goods are.
LEMMA DescendantsSealed ==
  ASSUME NEW long, RecordedHistory(long), NEW short, RecordedHistory(short),
         Continues(long, short), NEW object \in Created(short),
         \A x \in LiveDescendants(short, object) : x \notin Consumed(long)
  PROVE  LiveDescendants(long, object) \subseteq LiveDescendants(short, object)
<1>1. Consumed(long) \subseteq Goods
  <2>1. \A i \in DOMAIN long : long[i].inputs \subseteq Goods
    BY RecordsFound DEF Events
  <2> QED
    BY <2>1 DEF Consumed
<1>2. Causal(long)
  BY DEF RecordedHistory
<1>3. \A x \in Descendants(short, object) \cap LiveIn(short) : x \notin Consumed(long)
  BY <1>1 DEF LiveDescendants
<1>4. Descendants(long, object) \subseteq Descendants(short, object)
  BY <1>2, <1>3, Sealed
<1>5. Descendants(short, object) \subseteq Created(short)
  BY DescendantsClosed
<1>6. Consumed(short) \subseteq Consumed(long)
  BY ContinuesCreates
<1> QED
  BY <1>4, <1>5, <1>6 DEF LiveDescendants, LiveIn

\* The history at a canonical snapshot, and the chain after it.
LEMMA HistoriesOnChain ==
  ASSUME AuditInv, NEW s, Canonical(s)
  PROVE  /\ RecordedHistory(At(s).history) /\ RecordedHistory(Tip.history)
         /\ Continues(Tip.history, At(s).history)
         /\ \A t : Canonical(t) /\ s.number <= t.number =>
              /\ RecordedHistory(At(t).history)
              /\ Continues(At(t).history, At(s).history)
<1>1. ChainInv
  BY DEF AuditInv
<1> QED
  BY <1>1, TipIsBlock DEF ChainInv, Canonical, At

\* A search without a target stays right: nothing that came out of the object will
\* ever be live again, as long as its snapshot is on the chain.
THEOREM NoTargetsForever == Spec => []NoTargetsEver
<1>1. AuditInv => NoTargetsEver
  <2> SUFFICES ASSUME AuditInv, outcome = NO_LIVE_TARGETS, Canonical(snap)
               PROVE  LiveDescendants(Tip.history, start) = {}
    BY DEF NoTargetsEver
  <2> DEFINE short == At(snap).history
  <2>1. Traced /\ frontier = <<>>
    BY DEF AuditInv, SubmittedInv, PhaseInv, Traced, NO_LIVE_TARGETS, TRACE_FAILED, Later,
           Looping
  <2>2. start \in Created(short) /\ LiveDescendants(short, start) = {}
    BY <2>1, RangeOfNone DEF AuditInv, FoundInv, ToSet, Range
  <2>3. /\ RecordedHistory(short) /\ RecordedHistory(Tip.history)
        /\ Continues(Tip.history, short)
    BY HistoriesOnChain
  <2> QED
    BY <2>2, <2>3, DescendantsSealed
<1> QED
  BY <1>1, AuditInvariant, PTL

\* Complete means contained, when the block of the snapshot is final: the targets,
\* blocked at the checkpoint, are all that came out of the object and is live there.
THEOREM CompleteIsContained ==
  ASSUME FinalSnapshot
  PROVE  Spec => []CompleteMeansContained
<1>1. AuditInv => CompleteMeansContained
  <2> SUFFICES ASSUME AuditInv, outcome = COMPLETE_AT_CHECKPOINT, Canonical(checkpoint),
                      NEW x \in LiveDescendants(At(checkpoint).history, start)
               PROVE  x \in Held(At(checkpoint))
    BY DEF CompleteMeansContained
  <2> DEFINE short == At(snap).history
             long  == At(checkpoint).history
  <2>1. Traced /\ pc # "idle"
    BY DEF AuditInv, PhaseInv, Traced, COMPLETE_AT_CHECKPOINT, TRACE_FAILED, Later, Looping
  <2>2. Canonical(snap) /\ snap.number <= checkpoint.number
    BY <2>1 DEF AuditInv, SnapshotInv, VerdictInv
  <2>3. start \in Created(short) /\ ToSet(frontier) = LiveDescendants(short, start)
    BY <2>1, <2>2 DEF AuditInv, FoundInv
  <2>4. /\ RecordedHistory(short) /\ RecordedHistory(long)
        /\ Continues(long, short)
    BY <2>2, HistoriesOnChain
  <2>5. \A o \in ToSet(frontier) :
          SpentIn(long, o) = 0 /\ At(checkpoint).status[o] \in {FROZEN, REVOKED}
    BY DEF AuditInv, VerdictInv, BlockedAt, UnspentAt, ToSet
  <2>6. \A o \in LiveDescendants(short, start) : o \notin Consumed(long)
    BY <2>3, <2>4, <2>5, RecordsFound
  <2>7. x \in LiveDescendants(short, start)
    BY <2>3, <2>4, <2>6, DescendantsSealed
  <2>8. x \in Goods /\ At(checkpoint).status[x] # ACTIVE
    BY <2>3, <2>5, <2>7 DEF LiveDescendants, ACTIVE, FROZEN, REVOKED
  <2> QED
    BY <2>8 DEF Held
<1> QED
  BY <1>1, AuditInvariant, PTL

\* On a chain without replacements a complete audit leaves no freeze behind that
\* could be mined later.
THEOREM CompleteIsSettled ==
  ASSUME MaxReorgs = 0
  PROVE  Spec => []CompleteLeavesNothingPending
<1>1. AuditInv => CompleteLeavesNothingPending
  BY DEF AuditInv, PendingInv, PhaseInv, CompleteLeavesNothingPending,
         COMPLETE_AT_CHECKPOINT, Later, Looping
<1> QED
  BY <1>1, AuditInvariant, PTL

\* The statuses after a block: one object changes, or none.
LEMMA HeldAfterStatus ==
  ASSUME ChainInv, NEW o \in Goods, NEW new \in {ACTIVE, FROZEN, REVOKED},
         Tip'.status = [Tip.status EXCEPT ![o] = new]
  PROVE  /\ Tip'.status[o] = new
         /\ \A x \in Goods \ {o} : Tip'.status[x] = Tip.status[x]
         /\ Held(Tip)' = IF new = ACTIVE THEN Held(Tip) \ {o} ELSE Held(Tip) \cup {o}
<1>1. Tip.status \in [Goods -> {ACTIVE, FROZEN, REVOKED}]
  BY TipIsBlock DEF Blocks
<1>2. Tip'.status[o] = new /\ \A x \in Goods \ {o} : Tip'.status[x] = Tip.status[x]
  BY <1>1
<1> QED
  BY <1>2 DEF Held, ACTIVE, FROZEN, REVOKED

\* What a step does to the ledger at the last block, when nothing is replaced.
LEMMA TipStep ==
  ASSUME AuditInv, [Next]_vars, MaxReorgs = 0
  PROVE  \/ \E event \in Events :
              /\ event.inputs \cap Held(Tip) = {}
              /\ Tip'.history = Append(Tip.history, event) /\ Tip'.status = Tip.status
              /\ RecordedHistory(Tip'.history) /\ Continues(Tip'.history, Tip.history)
              /\ Consumed(Tip'.history) = Consumed(Tip.history) \cup event.inputs
         \/ \E o \in Goods, new \in {ACTIVE, FROZEN, REVOKED} :
              /\ StatusStep(Tip, o, new)
              /\ Tip'.history = Tip.history
              /\ Tip'.status = [Tip.status EXCEPT ![o] = new]
         \/ Tip'.history = Tip.history /\ Tip'.status = Tip.status
<1>1. ChainInv
  BY DEF AuditInv
<1>2. CASE LedgerEvent
  <2>1. PICK event \in Events :
          LET long == Append(Tip.history, event) IN
            /\ event.inputs \cap Held(Tip) = {}
            /\ Extend(long, Tip.status, NoTarget)
            /\ RecordedHistory(long) /\ Continues(long, Tip.history)
            /\ Consumed(long) = Consumed(Tip.history) \cup event.inputs
    BY <1>1, <1>2, LedgerEventMined
  <2>2. Tip.status \in [Goods -> {ACTIVE, FROZEN, REVOKED}]
    BY <1>1, TipIsBlock DEF Blocks
  <2>3. Tip'.history = Append(Tip.history, event) /\ Tip'.status = Tip.status
    BY <1>1, <2>1, <2>2, ExtendGrows
  <2> QED
    BY <2>1, <2>3
<1>3. CASE \E o \in Goods, new \in {ACTIVE, FROZEN, REVOKED} : OperatorStatus(o, new)
  <2>1. PICK o \in Goods, new \in {ACTIVE, FROZEN, REVOKED} : OperatorStatus(o, new)
    BY <1>3
  <2>2. /\ StatusStep(Tip, o, new)
        /\ Extend(Tip.history, [Tip.status EXCEPT ![o] = new], NoTarget)
        /\ NoTarget \in Goods \cup {NoTarget}
    BY <2>1 DEF OperatorStatus
  <2>3. Tip'.history = Tip.history /\ \/ Tip'.status = [Tip.status EXCEPT ![o] = new]
                                      \/ Tip'.status = Tip.status
    BY <1>1, <2>2, StatusMined
  <2> QED
    BY <2>2, <2>3
<1>4. CASE \E o \in Goods : MineFreeze(o)
  <2>1. PICK o \in Goods : MineFreeze(o)
    BY <1>4
  <2>2. FROZEN \in {ACTIVE, FROZEN, REVOKED} /\ o \in Goods \cup {NoTarget}
    OBVIOUS
  <2>3. CASE StatusStep(Tip, o, FROZEN)
    <3>1. Extend(Tip.history, [Tip.status EXCEPT ![o] = FROZEN], o)
      BY <2>1, <2>3 DEF MineFreeze
    <3>2. Tip'.history = Tip.history /\ \/ Tip'.status = [Tip.status EXCEPT ![o] = FROZEN]
                                        \/ Tip'.status = Tip.status
      BY <1>1, <2>2, <3>1, StatusMined
    <3> QED
      BY <2>2, <2>3, <3>2
  <2>4. CASE ~StatusStep(Tip, o, FROZEN)
    <3>1. Extend(Tip.history, Tip.status, o)
      BY <2>1, <2>4 DEF MineFreeze
    <3>2. Tip.status \in [Goods -> {ACTIVE, FROZEN, REVOKED}] /\ RecordedHistory(Tip.history)
      BY <1>1, TipIsBlock DEF Blocks
    <3>3. Tip'.history = Tip.history /\ Tip'.status = Tip.status
      BY <1>1, <2>2, <3>1, <3>2, ContinuesItself, ExtendGrows
    <3> QED
      BY <3>3
  <2> QED
    BY <2>3, <2>4
<1>5. CASE \E k \in 2..Len(chain) : Reorg(k)
  BY <1>1, <1>5, ReorgGrows
<1>6. CASE UNCHANGED chain
  BY <1>6 DEF Tip
<1>7. CASE \E object \in Objects : Begin(object)
  BY <1>6, <1>7 DEF Begin, chainVars
<1>8. CASE AuditStep
  BY <1>6, <1>8 DEF AuditStep, TraceFails, TraceObject, TraceDone, TraceUnchanged, Observe,
     ReadStatus, Estimate, Send, Receipt, FinalCheckpoint, Verify, Finish, chainVars
<1> QED
  BY <1>2, <1>3, <1>4, <1>5, <1>6, <1>7, <1>8 DEF Next, ChainStep, vars, chainVars

\* After a complete audit containment is lost only when an operator releases an
\* object: no event moves or multiplies what is frozen.
THEOREM ContainmentLasts ==
  ASSUME MaxReorgs = 0
  PROVE  Spec => ContainedUntilReleased
<1>1. ASSUME AuditInv, [Next]_vars, outcome = COMPLETE_AT_CHECKPOINT, Contained, ~Contained'
      PROVE  \E o \in Goods : Tip.status[o] = FROZEN /\ Tip'.status[o] = ACTIVE
  <2>1. /\ pc = "done" /\ Traced /\ ChainInv
    BY <1>1 DEF AuditInv, PhaseInv, Traced, COMPLETE_AT_CHECKPOINT, TRACE_FAILED
  <2>2. start \in Created(Tip.history)
    <3>1. Canonical(snap)
      BY <1>1, <2>1 DEF AuditInv, SnapshotInv
    <3> QED
      BY <1>1, <2>1, <3>1, HistoriesOnChain, ContinuesCreates DEF AuditInv, FoundInv
  <2>3. start' = start
    BY <1>1, <2>1, ChainStepGrows
       DEF Next, Begin, AuditStep, TraceFails, TraceObject, TraceDone, Observe, ReadStatus,
           Estimate, Send, Receipt, FinalCheckpoint, Verify, Finish, vars, auditVars,
           traceVars
  <2>4. RecordedHistory(Tip.history)
    BY <2>1, TipIsBlock
  <2>5. CASE \E event \in Events :
               /\ event.inputs \cap Held(Tip) = {}
               /\ Tip'.status = Tip.status
               /\ RecordedHistory(Tip'.history) /\ Continues(Tip'.history, Tip.history)
               /\ Consumed(Tip'.history) = Consumed(Tip.history) \cup event.inputs
    <3>1. \A x \in LiveDescendants(Tip.history, start) : x \notin Consumed(Tip'.history)
      BY <1>1, <2>5 DEF Contained, LiveDescendants, LiveIn
    <3>2. LiveDescendants(Tip'.history, start) \subseteq LiveDescendants(Tip.history, start)
      BY <2>2, <2>4, <2>5, <3>1, DescendantsSealed
    <3>3. Held(Tip)' = Held(Tip)
      BY <2>5 DEF Held
    <3>4. Contained'
      BY <1>1, <2>3, <3>2, <3>3 DEF Contained
    <3> QED
      BY <1>1, <3>4
  <2>6. CASE \E o \in Goods, new \in {ACTIVE, FROZEN, REVOKED} :
               /\ StatusStep(Tip, o, new)
               /\ Tip'.history = Tip.history
               /\ Tip'.status = [Tip.status EXCEPT ![o] = new]
    <3>1. PICK o \in Goods, new \in {ACTIVE, FROZEN, REVOKED} :
            /\ StatusStep(Tip, o, new)
            /\ Tip'.history = Tip.history
            /\ Tip'.status = [Tip.status EXCEPT ![o] = new]
      BY <2>6
    <3>2. /\ Tip'.status[o] = new
          /\ Held(Tip)' = IF new = ACTIVE THEN Held(Tip) \ {o} ELSE Held(Tip) \cup {o}
      BY <2>1, <3>1, HeldAfterStatus
    <3>3. new = ACTIVE
      BY <1>1, <2>3, <3>1, <3>2 DEF Contained
    <3>4. Tip.status[o] = FROZEN
      BY <3>1, <3>3 DEF StatusStep, ACTIVE, FROZEN, REVOKED
    <3> QED
      BY <3>2, <3>3, <3>4
  <2>7. CASE Tip'.history = Tip.history /\ Tip'.status = Tip.status
    BY <1>1, <2>3, <2>7 DEF Contained, Held
  <2> QED
    BY <1>1, <2>5, <2>6, <2>7, TipStep
<1> QED
  BY <1>1, AuditInvariant, PTL DEF Spec, ContainedUntilReleased

\* An audit is complete only while its snapshot is on the chain, if that block is
\* never replaced; MCAuditSnapshotReorg shows that it takes no more than that.
THEOREM CompleteOnFinalSnapshot ==
  ASSUME FinalSnapshot
  PROVE  Spec => CompleteOnCanonicalSnapshot
<1>1. ASSUME AuditInv, [Next]_vars,
             outcome' = COMPLETE_AT_CHECKPOINT, outcome # COMPLETE_AT_CHECKPOINT
      PROVE  Canonical(snap)
  <2>1. pc # "idle"
    BY <1>1, ChainStepGrows
       DEF AuditInv, Next, Begin, AuditStep, TraceFails, TraceObject, TraceDone, Observe,
           ReadStatus, Estimate, Send, Receipt, FinalCheckpoint, Verify, Finish, vars,
           auditVars
  <2> QED
    BY <1>1, <2>1 DEF AuditInv, SnapshotInv
<1> QED
  BY <1>1, AuditInvariant, PTL DEF Spec, CompleteOnCanonicalSnapshot

-----------------------------------------------------------------------------
(* Why an audit ends: what is left to do. *)

\* The phases of an audit, and what a phase has left.
Stage == CASE pc = "idle"       -> 5
           [] pc = "trace"      -> 4
           [] pc \in Looping    -> 3
           [] pc = "checkpoint" -> 2
           [] pc = "verify"     -> 1
           [] OTHER             -> 0

\* Objects to look up, or targets to handle.
Left == CASE pc = "trace"   -> Cardinality(Objects \ seen)
          [] pc \in Looping -> Len(frontier) - target
          [] pc = "verify"  -> Len(frontier) + 1 - target
          [] OTHER          -> 0

\* Objects to skip, or calls for one target.
Within == CASE pc = "trace"    -> Len(queue)
            [] pc = "observe"  -> 4
            [] pc = "read"     -> 3
            [] pc = "estimate" -> 2
            [] pc = "send"     -> 1
            [] OTHER           -> 0

\* The step comes nearer to the end, phases before objects before calls.
Nearer ==
  \/ Stage' < Stage
  \/ Stage' = Stage /\ Left' < Left
  \/ Stage' = Stage /\ Left' = Left /\ Within' < Within

\* What is left is a triple of natural numbers, and an object that was produced and
\* consumed was consumed later, which is what the search insists on before it follows
\* an object: so there is always a call to make next.
WorkLeft ==
  /\ Stage \in 0..5 /\ Left \in Nat /\ Within \in Nat
  /\ pc \in {"idle", "trace", "done"} \cup Later
  /\ pc = "trace" /\ queue # <<>> /\ Canonical(snap) =>
       LET history == At(snap).history
           ref     == Head(queue)
       IN  Producer(history, ref) # 0 /\ SpentIn(history, ref) # 0 =>
             SpentIn(history, ref) > Producer(history, ref)

LEMMA WorkIsFinite == AuditInv => WorkLeft
<1> SUFFICES ASSUME AuditInv PROVE WorkLeft
  OBVIOUS
<1>1. /\ pc \in {"idle", "trace", "done"} \cup Later
      /\ queue \in Seq(Objects) /\ frontier \in Seq(Goods)
      /\ pc \in Looping => target \in 1..Len(frontier)
      /\ pc = "verify" => target \in 1..Len(frontier) + 1
  BY DEF AuditInv, PhaseInv
<1>2. Len(queue) \in Nat /\ Len(frontier) \in Nat
  BY <1>1, LenProperties
<1>3. Cardinality(Objects \ seen) \in Nat
  BY GoodsAreNumbers, FS_Difference, FS_CardinalityType
<1>4. Stage \in 0..5 /\ Within \in Nat
  BY <1>1, <1>2 DEF Stage, Within
<1>5. Left \in Nat
  BY <1>1, <1>2, <1>3 DEF Left, Looping
<1>6. ASSUME pc = "trace", queue # <<>>, Canonical(snap), NEW ref, ref = Head(queue),
             NEW history, history = At(snap).history,
             Producer(history, ref) # 0, SpentIn(history, ref) # 0
      PROVE  SpentIn(history, ref) > Producer(history, ref)
  <2>1. RecordedHistory(history)
    BY <1>6 DEF AuditInv, ChainInv, Canonical, At
  <2>2. /\ DOMAIN history = 1..Len(history) /\ Len(history) \in Nat
        /\ SpentIn(history, ref) \in DOMAIN history
        /\ ref \in history[SpentIn(history, ref)].inputs
        /\ \A i \in DOMAIN history : ref \in history[i].outputs => Producer(history, ref) = i
    BY <1>6, <2>1, RecordsFound
  <2>3. PICK j \in 1..SpentIn(history, ref) - 1 : ref \in history[j].outputs
    BY <2>1, <2>2 DEF RecordedHistory, Causal
  <2> QED
    BY <2>2, <2>3
<1> QED
  BY <1>1, <1>4, <1>5, <1>6 DEF WorkLeft

\* A step of the search looks up one more object or skips one.
LEMMA SearchComesNearer ==
  ASSUME AuditInv, TraceFails \/ TraceObject \/ TraceDone
  PROVE  Nearer
<1>1. pc = "trace" /\ Stage = 4
  <2>1. pc = "trace"
    BY DEF TraceFails, TraceObject, TraceDone
  <2> QED
    BY <2>1 DEF Stage, Looping
<1>2. CASE TraceFails \/ TraceDone
  <2>1. pc' \in {"done", "observe"}
    BY <1>2 DEF TraceFails, TraceDone, Return
  <2>2. Stage' \in {0, 3}
    BY <2>1 DEF Stage, Looping
  <2> QED
    BY <1>1, <2>2 DEF Nearer
<1>3. CASE TraceObject
  <2>1. /\ pc' = "trace" /\ queue # <<>> /\ queue \in Seq(Objects)
        /\ Head(queue) \in Objects /\ seen \in SUBSET Objects
    BY <1>1, <1>3 DEF TraceObject, AuditInv, PhaseInv
  <2>2. /\ Stage' = Stage
        /\ Left = Cardinality(Objects \ seen) /\ Left' = Cardinality(Objects \ seen')
        /\ Within = Len(queue) /\ Within' = Len(queue')
    BY <1>1, <2>1 DEF Stage, Left, Within
  <2>3. CASE Seen(Head(queue))
    <3>1. queue' = Tail(queue) /\ seen' = seen
      BY <1>3, <2>3 DEF TraceObject
    <3>2. Len(queue') < Len(queue)
      BY <2>1, <3>1, HeadTailProperties, LenProperties
    <3> QED
      BY <2>2, <3>1, <3>2 DEF Nearer
  <2>4. CASE ~Seen(Head(queue))
    <3>1. seen' = seen \cup {Head(queue)} /\ Head(queue) \notin seen
      BY <1>3, <2>4 DEF TraceObject, Seen
    <3> DEFINE A == Objects \ seen'
               B == Objects \ seen
    <3>2. A \subseteq B /\ A # B
      BY <2>1, <3>1
    <3>3. IsFiniteSet(B)
      BY GoodsAreNumbers, FS_Difference
    <3>4. Cardinality(A) < Cardinality(B)
      <4> HIDE DEF A, B
      <4> QED
        BY <3>2, <3>3, FS_Subset, FS_CardinalityType
    <3> QED
      BY <2>2, <3>4 DEF Nearer
  <2> QED
    BY <2>3, <2>4
<1> QED
  BY <1>2, <1>3

\* A step of the loop goes on with this target or to the next.
LEMMA TargetsComeNearer ==
  ASSUME AuditInv, Observe \/ ReadStatus \/ Estimate \/ Send \/ Receipt
  PROVE  Nearer
<1>1. /\ frontier' = frontier /\ pc \in Looping
      /\ \/ NextTarget
         \/ pc = "observe" /\ pc' = "read" /\ target' = target
         \/ pc = "read" /\ pc' = "estimate" /\ target' = target
         \/ pc = "estimate" /\ pc' = "send" /\ target' = target
         \/ pc = "send" /\ pc' = "receipt" /\ target' = target
  BY DEF Observe, ReadStatus, Estimate, Send, Receipt, traceVars, Looping
<1>2. /\ target \in 1..Len(frontier) /\ Len(frontier) \in Nat
      /\ Stage = 3 /\ Left = Len(frontier) - target
  BY <1>1, LenProperties DEF AuditInv, PhaseInv, Looping, Stage, Left
<1>3. CASE NextTarget
  <2>1. CASE target < Len(frontier)
    <3>1. pc' = "observe" /\ target' = target + 1
      BY <1>3, <2>1 DEF NextTarget
    <3>2. Stage' = 3 /\ Left' = Len(frontier) - (target + 1)
      BY <1>1, <3>1 DEF Stage, Left, Looping
    <3> QED
      BY <1>2, <3>2 DEF Nearer
  <2>2. CASE ~(target < Len(frontier))
    <3>1. Stage' = 2
      BY <1>3, <2>2 DEF NextTarget, Stage, Looping
    <3> QED
      BY <1>2, <3>1 DEF Nearer
  <2> QED
    BY <2>1, <2>2
<1>4. CASE ~NextTarget
  <2>1. pc' \in Looping /\ target' = target
    BY <1>1, <1>4 DEF Looping
  <2>2. Stage' = 3 /\ Left' = Left
    BY <1>1, <1>2, <2>1 DEF Stage, Left, Looping
  <2>3. Within' < Within
    BY <1>1, <1>4 DEF Within
  <2> QED
    BY <1>2, <2>2, <2>3 DEF Nearer
<1> QED
  BY <1>3, <1>4

LEMMA VerdictComesNearer ==
  ASSUME AuditInv, FinalCheckpoint \/ Verify \/ Finish
  PROVE  Nearer
<1>1. CASE FinalCheckpoint
  BY <1>1 DEF FinalCheckpoint, Return, Nearer, Stage, Looping
<1>2. CASE Verify
  <2>1. /\ pc = "verify" /\ pc' = "verify" /\ frontier' = frontier /\ target' = target + 1
        /\ target \in 1..Len(frontier) + 1 /\ Len(frontier) \in Nat
    BY <1>2, LenProperties DEF Verify, AuditInv, PhaseInv, traceVars
  <2>2. /\ Stage' = Stage /\ Left = Len(frontier) + 1 - target
        /\ Left' = Len(frontier) + 1 - (target + 1)
    BY <2>1 DEF Stage, Left, Looping
  <2> QED
    BY <2>1, <2>2 DEF Nearer
<1>3. CASE Finish
  BY <1>3 DEF Finish, Return, Nearer, Stage, Looping
<1> QED
  BY <1>1, <1>2, <1>3

\* Whatever fails and however the chain grows or is replaced, every step of an audit
\* comes nearer to its end, by a measure that cannot decrease for ever and that no
\* step of the chain changes.
THEOREM AuditComesNearer ==
  Spec => /\ []WorkLeft
          /\ [][/\ AuditStep => Nearer
                /\ ChainStep => UNCHANGED <<Stage, Left, Within>>]_vars
<1>1. ASSUME AuditInv, AuditStep
      PROVE  Nearer
  BY <1>1, SearchComesNearer, TargetsComeNearer, VerdictComesNearer DEF AuditStep
<1>2. ASSUME AuditInv, ChainStep
      PROVE  UNCHANGED <<Stage, Left, Within>>
  <2>1. UNCHANGED <<pc, seen, queue, frontier, target>>
    BY <1>2, ChainStepGrows DEF AuditInv, auditVars, traceVars
  <2> QED
    BY <2>1 DEF Stage, Left, Within
<1> QED
  BY <1>1, <1>2, WorkIsFinite, AuditInvariant, PTL

-----------------------------------------------------------------------------
(* The backward trace. *)

\* Where the trace is.
BackPhase ==
  /\ snap \in [number : Nat, hash : Nat] /\ snap.hash <= hashes
  /\ pc \in {"idle", "back", "done"}
  /\ outcome \in {"NONE", TRACE_FAILED, TRACED}
  /\ outcome = TRACED => pc = "done" /\ queue = <<>>
  /\ pc # "done" => outcome = "NONE"
  /\ pc = "idle" => seen = {} /\ recordIds = <<>> /\ entries = <<>> /\ graph = {}
  /\ queue \in Seq(Objects) /\ seen \in SUBSET Objects
  /\ recordIds \in Seq(Nat) /\ IsInjective(recordIds)
  /\ entries \in Seq(Objects) /\ IsInjective(entries)

\* The records of objects, the entries among objects, the graph of records.
RecordsOf(history, objects) == {Producer(history, x) : x \in objects}
EntriesOf(history, objects) == {x \in objects : history[Producer(history, x)].inputs = {}}
GraphOf(history, ids)       == UNION {Edges(history, id) : id \in ids}

\* The object descends from whatever was reached, what was seen has its record
\* expanded, and the parents of a record that was expanded were reached.
BackSearch ==
  (pc = "back" \/ outcome = TRACED) /\ Canonical(snap) =>
    LET history == At(snap).history
        reached == seen \cup ToSet(queue)
    IN  /\ start \in reached
        /\ \A x \in reached : start \in Descendants(history, x)
        /\ seen \subseteq Created(history)
        /\ ToSet(recordIds) = RecordsOf(history, seen)
        /\ \A id \in ToSet(recordIds) : history[id].inputs \subseteq reached
        /\ ToSet(entries) = EntriesOf(history, seen)
        /\ graph = GraphOf(history, ToSet(recordIds))

BackInv == ChainInv /\ BackPhase /\ BackSearch

LEMMA BackInvInit == BackInit => BackInv
<1> SUFFICES ASSUME BackInit PROVE BackInv
  OBVIOUS
<1>1. Init
  BY DEF BackInit
<1>2. AuditInv
  BY <1>1, AuditInvInit
<1>3. /\ pc = "idle" /\ outcome = "NONE" /\ seen = {} /\ queue = <<>>
      /\ recordIds = <<>> /\ entries = <<>> /\ graph = {}
  BY <1>1 DEF BackInit, Init
<1>4. <<>> \in Seq(Nat) /\ <<>> \in Seq(Objects) /\ IsInjective(<<>>)
  BY DEF IsInjective
<1>5. BackPhase
  BY <1>2, <1>3, <1>4 DEF AuditInv, SnapshotInv, BackPhase, TRACED
<1>6. BackSearch
  BY <1>3 DEF BackSearch, TRACED
<1> QED
  BY <1>2, <1>5, <1>6 DEF AuditInv, BackInv

LEMMA ChainStepKeepsBack ==
  ASSUME BackInv, ChainStep, UNCHANGED backVars
  PROVE  BackInv'
<1>1. ChainInv /\ BackPhase /\ BackSearch
  BY DEF BackInv
<1>2. UNCHANGED <<pc, start, snap, queue, seen, outcome, recordIds, entries, graph>>
  BY <1>1, ChainStepGrows DEF auditVars, traceVars, backVars
<1>3. PICK m, b : Grown(m, b)
  BY <1>1, ChainStepGrows
<1>4. /\ ChainInv' /\ hashes <= hashes' /\ hashes \in Nat /\ hashes' \in Nat
      /\ \A s : s.hash <= hashes /\ Canonical(s)' => Canonical(s) /\ At(s)' = At(s)
  BY <1>1, <1>3, GrownKeeps DEF ChainInv
<1>5. BackPhase'
  <2>1. snap.hash \in Nat /\ snap.hash <= hashes'
    BY <1>1, <1>4 DEF BackPhase
  <2> QED
    BY <1>1, <1>2, <2>1 DEF BackPhase
<1>6. snap.hash <= hashes /\ snap' = snap
  BY <1>1, <1>2 DEF BackPhase
<1>7. Canonical(snap)' => Canonical(snap) /\ At(snap)' = At(snap)
  BY <1>4, <1>6
<1>8. BackSearch'
  BY <1>1, <1>2, <1>7 DEF BackSearch
<1> QED
  BY <1>4, <1>5, <1>8 DEF BackInv

LEMMA BeginBackwardKeeps ==
  ASSUME BackInv, NEW object \in Objects, BeginBackward(object)
  PROVE  BackInv'
<1> USE DEF BackInv
<1>1. /\ pc' = "back" /\ start' = object /\ snap' = Latest /\ queue' = <<object>>
      /\ UNCHANGED <<chain, hashes, reorgs, seen, outcome, recordIds, entries, graph>>
      /\ seen = {} /\ recordIds = <<>> /\ entries = <<>> /\ graph = {} /\ outcome = "NONE"
  BY DEF BeginBackward, chainVars, backVars, BackPhase
<1>2. ChainInv'
  BY <1>1 DEF ChainInv
<1>3. /\ ToSet(<<object>>) = {object} /\ <<object>> \in Seq(Objects)
      /\ ToSet(<<>>) = {}
  BY RangeOfOne, RangeOfNone DEF ToSet, Range
<1>4. BackPhase'
  BY <1>1, <1>3, LatestIsCanonical DEF BackPhase, TRACED
<1>5. BackSearch'
  <2>1. object \in Descendants(At(snap)'.history, object)
    BY DescendantsClosed
  <2>2. \A history : /\ RecordsOf(history, {}) = {} /\ EntriesOf(history, {}) = {}
                     /\ GraphOf(history, {}) = {}
    BY DEF RecordsOf, EntriesOf, GraphOf
  <2> QED
    BY <1>1, <1>3, <2>1, <2>2 DEF BackSearch
<1> QED
  BY <1>2, <1>4, <1>5

LEMMA BackEndsKeep ==
  ASSUME BackInv, BackFails \/ BackDone
  PROVE  BackInv'
<1> USE DEF BackInv
<1>1. /\ pc = "back" /\ pc' = "done" /\ outcome = "NONE"
      /\ UNCHANGED <<chain, hashes, reorgs, start, snap, seen, queue, recordIds, entries,
                     graph>>
      /\ \/ outcome' = TRACE_FAILED
         \/ outcome' = TRACED /\ queue = <<>>
  BY DEF BackFails, BackDone, Return, chainVars, backVars, BackPhase
<1>2. ChainInv'
  BY <1>1 DEF ChainInv
<1>3. BackPhase'
  BY <1>1 DEF BackPhase, TRACED, TRACE_FAILED
<1>4. BackSearch'
  BY <1>1 DEF BackSearch, TRACED, TRACE_FAILED, Canonical, At
<1> QED
  BY <1>2, <1>3, <1>4

LEMMA VisitBackwardKeeps ==
  ASSUME BackInv, VisitBackward
  PROVE  BackInv'
<1> USE DEF BackInv
<1> DEFINE ref     == Head(queue)
           history == At(snap).history
           id      == Producer(history, ref)
           reached == seen \cup ToSet(queue)
<1>1. /\ pc = "back" /\ pc' = "back" /\ outcome' = outcome /\ queue # <<>>
      /\ UNCHANGED <<chain, hashes, reorgs, start, snap>>
      /\ outcome = "NONE"
  BY DEF VisitBackward, chainVars, BackPhase
<1>2. /\ queue \in Seq(Objects) /\ seen \in SUBSET Objects
      /\ recordIds \in Seq(Nat) /\ IsInjective(recordIds)
      /\ entries \in Seq(Objects) /\ IsInjective(entries)
  BY DEF BackPhase
<1>3. /\ ref \in Objects /\ Tail(queue) \in Seq(Objects)
      /\ ToSet(queue) = {ref} \cup ToSet(Tail(queue))
      /\ \A t \in Seq(Objects) : /\ Tail(queue) \o t \in Seq(Objects)
                                 /\ ToSet(Tail(queue) \o t) = ToSet(Tail(queue)) \cup ToSet(t)
  <2>1. <<>> \in Seq(Objects)
    OBVIOUS
  <2> QED
    BY <1>1, <1>2, <2>1, QueueStep
<1>4. ChainInv'
  BY <1>1 DEF ChainInv
<1>5. ASSUME queue' \in Seq(Objects), seen' \in SUBSET Objects,
             recordIds' \in Seq(Nat), IsInjective(recordIds'),
             entries' \in Seq(Objects), IsInjective(entries')
      PROVE  BackPhase'
  BY <1>1, <1>5 DEF BackPhase, TRACED
\* An object seen before.
<1>6. CASE Seen(ref)
  <2>1. /\ queue' = Tail(queue) /\ ref \in seen
        /\ UNCHANGED <<seen, recordIds, entries, graph>>
    BY <1>6 DEF VisitBackward, Seen, backVars
  <2>2. BackPhase'
    BY <1>2, <1>3, <1>5, <2>1
  <2>3. seen' \cup ToSet(queue') = seen \cup ToSet(queue)
    BY <1>3, <2>1
  <2>4. BackSearch'
    BY <1>1, <2>1, <2>3 DEF BackSearch, Canonical, At
  <2> QED
    BY <1>4, <2>2, <2>4
\* A new one, read at the snapshot.
<1>7. CASE ~Seen(ref)
  <2>1. /\ Canonical(snap) /\ id # 0 /\ seen' = seen \cup {ref} /\ ref \notin seen
    BY <1>7 DEF VisitBackward, Seen
  <2>2. \/ /\ id \in ToSet(recordIds) /\ queue' = Tail(queue)
           /\ UNCHANGED <<recordIds, entries, graph>>
        \/ /\ id \notin ToSet(recordIds)
           /\ recordIds' = Append(recordIds, id)
           /\ history[id].inputs = {}
           /\ entries' = Append(entries, ref)
           /\ queue' = Tail(queue)
           /\ UNCHANGED graph
        \/ /\ id \notin ToSet(recordIds)
           /\ recordIds' = Append(recordIds, id)
           /\ history[id].inputs # {}
           /\ queue' = Tail(queue) \o Parents(history, id)
           /\ graph' = graph \cup Edges(history, id)
           /\ UNCHANGED entries
    BY <1>7 DEF VisitBackward, Seen, backVars
  <2>3. RecordedHistory(history) /\ snap.number \in DOMAIN chain
    BY <2>1 DEF Canonical, At, ChainInv
  <2>4. /\ start \in reached
        /\ \A x \in reached : start \in Descendants(history, x)
        /\ seen \subseteq Created(history)
        /\ ToSet(recordIds) = RecordsOf(history, seen)
        /\ \A i \in ToSet(recordIds) : history[i].inputs \subseteq reached
        /\ ToSet(entries) = EntriesOf(history, seen)
        /\ graph = GraphOf(history, ToSet(recordIds))
    BY <1>1, <2>1 DEF BackSearch
  <2>5. Canonical(snap)' /\ At(snap)' = At(snap)
    BY <1>1, <2>1 DEF Canonical, At
  <2> HIDE DEF ref, history, id
  <2>6. /\ id \in DOMAIN history /\ id \in Nat /\ ref \in history[id].outputs
        /\ ref \in Created(history) /\ history[id] \in Events
    BY <2>1, <2>3, RecordsFound DEF id
  <2>7. ASSUME queue' \in Seq(Objects), recordIds' \in Seq(Nat), IsInjective(recordIds'),
               entries' \in Seq(Objects), IsInjective(entries'),
               ToSet(queue) \ {ref} \subseteq ToSet(queue'),
               \A x \in ToSet(queue') : start \in Descendants(history, x),
               ToSet(recordIds') = ToSet(recordIds) \cup {id},
               history[id].inputs \subseteq seen' \cup ToSet(queue'),
               ToSet(entries') = EntriesOf(history, seen'),
               graph' = graph \cup Edges(history, id)
        PROVE  BackInv'
    <3>1. seen' \in SUBSET Objects
      BY <1>2, <1>3, <2>1
    <3>2. BackPhase'
      BY <1>5, <2>7, <3>1
    <3>3. seen' \cup ToSet(queue') = reached \cup ToSet(queue') /\ seen' \subseteq Created(history)
      BY <1>3, <2>1, <2>4, <2>6, <2>7
    <3>4. ToSet(recordIds') = RecordsOf(history, seen')
      BY <2>1, <2>4, <2>7 DEF RecordsOf, id
    <3>5. \A i \in ToSet(recordIds') : history[i].inputs \subseteq reached \cup ToSet(queue')
      BY <2>4, <2>7, <3>3
    <3>6. graph' = GraphOf(history, ToSet(recordIds'))
      BY <2>4, <2>7 DEF GraphOf
    <3>7. BackSearch'
      BY <1>1, <2>4, <2>5, <2>7, <3>3, <3>4, <3>5, <3>6 DEF BackSearch, history
    <3> QED
      BY <1>4, <3>2, <3>7
  \* Its record was expanded: not an entry's, which has no other output.
  <2>8. CASE /\ id \in ToSet(recordIds) /\ queue' = Tail(queue)
             /\ UNCHANGED <<recordIds, entries, graph>>
    <3>1. PICK x \in seen : Producer(history, x) = id
      BY <2>4, <2>8 DEF RecordsOf
    <3>2. x \in history[id].outputs
      BY <2>3, <2>4, <3>1, RecordsFound
    <3>3. history[id].inputs # {}
      BY <2>1, <2>3, <2>6, <3>1, <3>2 DEF RecordedHistory
    <3>4. ToSet(entries') = EntriesOf(history, seen')
      BY <2>1, <2>4, <2>8, <3>3 DEF EntriesOf, id
    <3>5. /\ ToSet(recordIds') = ToSet(recordIds) \cup {id}
          /\ graph' = graph \cup Edges(history, id)
      BY <2>4, <2>8 DEF GraphOf
    <3>6. history[id].inputs \subseteq seen' \cup ToSet(queue')
      BY <1>3, <2>1, <2>4, <2>8
    <3>7. /\ queue' \in Seq(Objects) /\ ToSet(queue) \ {ref} \subseteq ToSet(queue')
          /\ \A y \in ToSet(queue') : start \in Descendants(history, y)
      BY <1>3, <2>4, <2>8
    <3>8. /\ recordIds' \in Seq(Nat) /\ IsInjective(recordIds')
          /\ entries' \in Seq(Objects) /\ IsInjective(entries')
      BY <1>2, <2>8
    <3> QED
      BY <2>7, <3>4, <3>5, <3>6, <3>7, <3>8
  \* An entry.
  <2>9. CASE /\ id \notin ToSet(recordIds)
             /\ recordIds' = Append(recordIds, id)
             /\ history[id].inputs = {}
             /\ entries' = Append(entries, ref)
             /\ queue' = Tail(queue)
             /\ UNCHANGED graph
    <3>1. /\ recordIds' \in Seq(Nat) /\ IsInjective(recordIds')
          /\ ToSet(recordIds') = ToSet(recordIds) \cup {id}
      BY <1>2, <2>6, <2>9, SetAfterAppend
    <3>2. ref \notin ToSet(entries)
      BY <2>1, <2>4 DEF EntriesOf
    <3>3. /\ entries' \in Seq(Objects) /\ IsInjective(entries')
          /\ ToSet(entries') = ToSet(entries) \cup {ref}
      BY <1>2, <1>3, <2>9, <3>2, SetAfterAppend
    <3>4. ToSet(entries') = EntriesOf(history, seen')
      BY <2>1, <2>4, <2>9, <3>3 DEF EntriesOf, id
    <3>5. graph' = graph \cup Edges(history, id)
      BY <2>9 DEF Edges
    <3>6. /\ queue' \in Seq(Objects) /\ ToSet(queue) \ {ref} \subseteq ToSet(queue')
          /\ \A y \in ToSet(queue') : start \in Descendants(history, y)
          /\ history[id].inputs \subseteq seen' \cup ToSet(queue')
      BY <1>3, <2>4, <2>9
    <3> QED
      BY <2>7, <3>1, <3>3, <3>4, <3>5, <3>6
  \* An event with parents.
  <2>10. CASE /\ id \notin ToSet(recordIds)
              /\ recordIds' = Append(recordIds, id)
              /\ history[id].inputs # {}
              /\ queue' = Tail(queue) \o Parents(history, id)
              /\ graph' = graph \cup Edges(history, id)
              /\ UNCHANGED entries
    <3>1. /\ recordIds' \in Seq(Nat) /\ IsInjective(recordIds')
          /\ ToSet(recordIds') = ToSet(recordIds) \cup {id}
      <4>1. recordIds' = Append(recordIds, id) /\ id \notin ToSet(recordIds)
        BY <2>10
      <4>2. id \in Nat
        BY <2>6
      <4> QED
        BY <1>2, <4>1, <4>2, SetAfterAppend
    <3>2. ToSet(entries') = EntriesOf(history, seen')
      BY <2>1, <2>4, <2>10 DEF EntriesOf, id
    <3>3. history[id].inputs \in SUBSET Objects
      BY <2>6, GoodsAreNumbers DEF Events
    <3>4. /\ queue' \in Seq(Objects)
          /\ ToSet(queue') = ToSet(Tail(queue)) \cup history[id].inputs
      BY <1>3, <2>10, <3>3, ObjectsInSequence DEF Parents
    <3>5. start \in Descendants(history, ref)
      BY <1>3, <2>4
    <3>6. \A p \in history[id].inputs : start \in Descendants(history, p)
      BY <2>6, <3>5, ParentsAreAncestors
    <3>7. /\ ToSet(queue) \ {ref} \subseteq ToSet(queue')
          /\ \A y \in ToSet(queue') : start \in Descendants(history, y)
          /\ history[id].inputs \subseteq seen' \cup ToSet(queue')
      BY <1>3, <2>4, <3>4, <3>6
    <3>8. entries' \in Seq(Objects) /\ IsInjective(entries')
      BY <1>2, <2>10
    <3> QED
      BY <2>7, <2>10, <3>1, <3>2, <3>4, <3>7, <3>8
  <2> QED
    BY <2>2, <2>8, <2>9, <2>10
<1> QED
  BY <1>6, <1>7

\* The inductive invariant of the trace.
LEMMA BackwardInvariant == BackSpec => []BackInv
<1>1. BackInit => BackInv
  BY BackInvInit
<1>2. BackInv /\ [BackNext]_<<vars, backVars>> => BackInv'
  <2> SUFFICES ASSUME BackInv, [BackNext]_<<vars, backVars>> PROVE BackInv'
    OBVIOUS
  <2>1. CASE ChainStep /\ UNCHANGED backVars
    BY <2>1, ChainStepKeepsBack
  <2>2. CASE \E object \in Objects : BeginBackward(object)
    BY <2>2, BeginBackwardKeeps
  <2>3. CASE BackStep
    BY <2>3, BackEndsKeep, VisitBackwardKeeps DEF BackStep
  <2>4. CASE UNCHANGED <<vars, backVars>>
    <3>1. UNCHANGED <<chain, hashes, reorgs, pc, start, snap, queue, seen, outcome,
                      recordIds, entries, graph>>
      BY <2>4 DEF vars, chainVars, auditVars, traceVars, backVars
    <3> QED
      BY <3>1 DEF BackInv, ChainInv, BackPhase, BackSearch, Canonical, At
  <2> QED
    BY <2>1, <2>2, <2>3, <2>4 DEF BackNext
<1> QED
  BY <1>1, <1>2, PTL DEF BackSpec

\* The backward search is the inverse of the forward relation, for every history:
\* a trace that succeeds has visited exactly what the object descends from, names
\* the entries among it, each once, and its graph has their edges.
THEOREM LineageIsExact == BackSpec => []LineageExact
<1>1. BackInv => LineageExact
  <2> SUFFICES ASSUME BackInv, outcome = TRACED, Canonical(snap)
               PROVE  LineageExact
    BY DEF LineageExact
  <2> DEFINE history == At(snap).history
             lineage == Ancestors(history, start)
             ids     == {Producer(history, x) : x \in lineage}
  <2>1. RecordedHistory(history)
    BY DEF BackInv, ChainInv, Canonical, At
  <2>2. ToSet(queue) = {}
    BY RangeOfNone DEF BackInv, BackPhase, ToSet, Range
  <2>3. /\ start \in seen
        /\ \A x \in seen : start \in Descendants(history, x)
        /\ seen \subseteq Created(history)
        /\ ToSet(recordIds) = RecordsOf(history, seen)
        /\ \A id \in ToSet(recordIds) : history[id].inputs \subseteq seen
        /\ ToSet(entries) = EntriesOf(history, seen)
        /\ graph = GraphOf(history, ToSet(recordIds))
    BY <2>2 DEF BackInv, BackSearch
  <2> HIDE DEF history
  <2>4. \A i \in DOMAIN history :
          history[i].outputs \cap seen # {} => history[i].inputs \subseteq seen
    BY <2>1, <2>3, RecordsFound DEF RecordsOf
  <2>5. seen = lineage
    BY <2>3, <2>4, AncestorsReached DEF Ancestors
  <2>6. /\ recordIds \in Seq(Nat) /\ IsInjective(recordIds)
        /\ entries \in Seq(Objects) /\ IsInjective(entries)
    BY DEF BackInv, BackPhase
  <2>7. /\ Len(recordIds) = Cardinality(ToSet(recordIds))
        /\ Len(entries) = Cardinality(ToSet(entries))
    BY <2>6, InjectiveCount
  <2> HIDE DEF lineage
  <2>8. /\ ToSet(recordIds) = ids
        /\ ToSet(entries) = {x \in lineage : history[Producer(history, x)].inputs = {}}
        /\ graph = UNION {Edges(history, id) : id \in ids}
    BY <2>3, <2>5 DEF RecordsOf, EntriesOf, GraphOf
  <2> QED
    BY <2>5, <2>7, <2>8 DEF LineageExact, lineage, history
<1> QED
  BY <1>1, BackwardInvariant, PTL

=============================================================================
