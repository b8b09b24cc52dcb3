------------------------- MODULE EarlierLedgersProofs -------------------------
(***************************************************************************)
(* The earlier proof of concept implements AssetFlow and keeps the third   *)
(* state, for any users, documents, openings, quantities, deadlines and    *)
(* bounds.  At the end, what is proved of the other earlier ledgers in     *)
(* modules of their own, for whichever of the four is deployed.            *)
(***************************************************************************)
EXTENDS EarlierLedgers, FlowHistory

Steps == DOMAIN transactions

\* What was recorded was created by a transaction and the other way round; what
\* was consumed has its nullifier recorded, and only what was recorded has one.
EpochInv ==
  /\ commitments \subseteq Notes /\ vouchers \subseteq Vouchers
  /\ IsFiniteSet(commitments) /\ IsFiniteSet(vouchers)
  /\ nullifiers \subseteq {Nullifier(n) : n \in commitments}
  /\ voucherNullifiers \subseteq {VoucherNullifier(v) : v \in vouchers}
  /\ transactions = [i \in Steps |-> transactions[i]]
  /\ Len(transactions) \in Nat /\ Steps = 1..Len(transactions)
  /\ UNION {transactions[i].outputs : i \in Steps} = commitments \cup vouchers
  /\ \A i \in Steps : \A x \in transactions[i].inputs :
       \/ x \in commitments /\ Nullifier(x) \in nullifiers
       \/ x \in vouchers /\ VoucherNullifier(x) \in voucherNullifiers

\* Only an entry adds to the third state and only an exit takes from it.
Balanced(kind, ins, outs) ==
  /\ kind = "entry" => ins = {}
  /\ kind = "exit" => outs = {}
  /\ kind \notin {"entry", "exit"} => Total(outs) = Total(ins)

\* A transfer sets the deadlines of the vouchers it makes; a recall is in time.
Timed(kind, inVouchers, outVouchers) ==
  /\ \A v \in outVouchers : kind = "transfer" /\ At(deadlineRV', v) = epoch + v.delta
  /\ \A v : v \notin outVouchers => At(deadlineRV', v) = At(deadlineRV, v)
  /\ kind = "recall" => \E v \in inVouchers : epoch < At(deadlineRV, v)

\* What every event but a registration and a new epoch does.
Moves(kind, inNotes, inVouchers, outNotes, outVouchers) ==
  /\ Range(outNotes) \subseteq Notes /\ outVouchers \subseteq Vouchers
  /\ IsFiniteSet(Range(outNotes)) /\ IsFiniteSet(outVouchers)
  /\ Balanced(kind, inNotes \cup inVouchers, Range(outNotes) \cup outVouchers)
  /\ Timed(kind, inVouchers, outVouchers)
  /\ Accept(kind, inNotes, inVouchers, outNotes, outVouchers)

Moved == \E kind, inNotes, inVouchers, outNotes, outVouchers :
           Moves(kind, inNotes, inVouchers, outNotes, outVouchers)

Untouched ==
  UNCHANGED <<commitments, nullifiers, vouchers, voucherNullifiers, deadlineRV,
              transactions>>

-----------------------------------------------------------------------------
\* A note is no voucher: their records have different fields.
LEMMA KindsDiffer == Notes \cap Vouchers = {}
<1>1. \A n \in Notes : "owner" \in DOMAIN n
  BY DEF Notes
<1>2. \A v \in Vouchers : "owner" \notin DOMAIN v
  BY DEF Vouchers
<1> QED
  BY <1>1, <1>2

\* The third state of an object.
Third == [x \in Objects |-> x.s]

LEMMA ThirdType ==
  /\ \A x \in Objects : Third[x] = x.s /\ x.s \in Nat /\ x.s \in Int
  /\ Notes \subseteq Objects /\ Vouchers \subseteq Objects
  BY EpochAssumption DEF Third, Objects, Notes, Vouchers, Quantity

\* A total is the sum of the third state over the objects.
LEMMA TotalIsSum ==
  ASSUME NEW S \in SUBSET Objects, IsFiniteSet(S)
  PROVE  Total(S) = SumFunctionOnSet(Third, S) /\ Total(S) \in Int
<1> DEFINE fun == [x \in S |-> x.s]
<1>1. \A x \in S : Third[x] \in Int /\ Third[x] = fun[x]
  BY ThirdType
<1>2. Total(S) = SumFunctionOnSet(fun, S)
  BY DEF Total, SumFunction
<1> HIDE DEF fun
<1> QED
  BY <1>1, <1>2, SumSame, SumRemove

LEMMA TotalOfNone == Total({}) = 0
<1>1. {} \in SUBSET Objects /\ IsFiniteSet({})
  BY FS_EmptySet
<1> QED
  BY <1>1, TotalIsSum, SumOfNone

\* The total of objects and others is the sum of their totals.
LEMMA TotalOfUnion ==
  ASSUME NEW S \in SUBSET Objects, NEW T \in SUBSET Objects,
         IsFiniteSet(S), IsFiniteSet(T), S \cap T = {}
  PROVE  /\ Total(S) \in Int /\ Total(T) \in Int
         /\ Total(S \cup T) = Total(S) + Total(T)
<1>1. S \cup T \in SUBSET Objects /\ IsFiniteSet(S \cup T)
  BY FS_Union
<1>2. \A x \in S \cup T : Third[x] \in Int
  BY ThirdType
<1> QED
  BY <1>1, <1>2, TotalIsSum, SumUnion

\* The total of one or two objects.
LEMMA TotalOfFew ==
  /\ \A x \in Objects : Total({x}) = x.s
  /\ \A x, y \in Objects : x # y => Total({x, y}) = x.s + y.s
<1>1. ASSUME NEW x \in Objects PROVE Total({x}) = x.s
  <2>1. {x} \in SUBSET Objects /\ IsFiniteSet({x})
    BY FS_Singleton
  <2>2. Third[x] = x.s /\ Third[x] \in Int
    BY ThirdType
  <2>3. SumFunctionOnSet(Third, {x}) = Third[x]
    BY <2>2, SumOfOne, Zenon
  <2> QED
    BY <2>1, <2>2, <2>3, TotalIsSum
<1>2. ASSUME NEW x \in Objects, NEW y \in Objects, x # y
      PROVE  Total({x, y}) = x.s + y.s
  <2>1. /\ {x} \in SUBSET Objects /\ IsFiniteSet({x})
        /\ {y} \in SUBSET Objects /\ IsFiniteSet({y})
        /\ {x} \cap {y} = {} /\ {x} \cup {y} = {x, y}
    <3>1. IsFiniteSet({x}) /\ IsFiniteSet({y})
      BY FS_Singleton
    <3> QED
      BY <1>2, <3>1
  <2>2. Total({x} \cup {y}) = Total({x}) + Total({y})
    BY <2>1, TotalOfUnion
  <2> QED
    BY <1>1, <2>1, <2>2
<1> QED
  BY <1>1, <1>2

-----------------------------------------------------------------------------
\* The outputs of the circuits are notes and vouchers.
LEMMA OutputsTyped ==
  /\ \A n : \A o \in TransferOutputs(n) : o.voucher \in Vouchers /\ o.change \in Notes
  /\ \A v, owner : ResolveOutputs(v, owner) \subseteq Notes
  /\ \A n1, n2 : MergeOutputs(n1, n2) \subseteq Notes
  /\ \A n : \A o \in SplitOutputs(n) : o[1] \in Notes /\ o[2] \in Notes
  /\ \A ins : \A o \in ProcessOutputs(ins) : Range(o) \subseteq Notes
<1>1. \A n : \A o \in TransferOutputs(n) : o.voucher \in Vouchers /\ o.change \in Notes
  BY SMT DEF TransferOutputs
<1>2. \A v, owner : ResolveOutputs(v, owner) \subseteq Notes
  BY Zenon DEF ResolveOutputs
<1>3. \A n1, n2 : MergeOutputs(n1, n2) \subseteq Notes
  BY Zenon DEF MergeOutputs
<1>4. \A n : \A o \in SplitOutputs(n) : o[1] \in Notes /\ o[2] \in Notes
  BY Zenon DEF SplitOutputs
<1>5. \A ins : \A o \in ProcessOutputs(ins) : \A j \in DOMAIN o : o[j] \in Notes
  BY SMT DEF ProcessOutputs
<1>6. \A ins : \A o \in ProcessOutputs(ins) : Range(o) \subseteq Notes
  BY <1>5 DEF Range
<1> QED
  BY <1>1, <1>2, <1>3, <1>4, <1>6

\* A note and a voucher of one share, or two notes: the parts of a note's third
\* state add up to it.
LEMMA PartsAddUp ==
  ASSUME NEW n \in Notes
  PROVE  /\ \A o \in TransferOutputs(n) : o.change.s + o.voucher.s = n.s
         /\ \A o \in SplitOutputs(n) : o = <<o[1], o[2]>> /\ o[1].s + o[2].s = n.s
<1>1. n.s \in Int /\ \A q : \A c \in Shares(n, q) : c \in Int
  BY ThirdType DEF Shares
<1>2. ASSUME NEW o \in TransferOutputs(n)
      PROVE  o.change.s + o.voucher.s = n.s
  <2>1. PICK q : \E c \in Shares(n, n.q - q) : o.change.s = c /\ o.voucher.s = n.s - c
    BY DEF TransferOutputs, Note
  <2> QED
    BY <1>1, <2>1
<1>3. ASSUME NEW o \in SplitOutputs(n)
      PROVE  o = <<o[1], o[2]>> /\ o[1].s + o[2].s = n.s
  <2>1. PICK q : \E c \in Shares(n, q) :
                   o = <<o[1], o[2]>> /\ o[1].s = n.s - c /\ o[2].s = c
    BY DEF SplitOutputs, Note
  <2> QED
    BY <1>1, <2>1
<1> QED
  BY <1>2, <1>3

\* The shares of an allocation add up to the total: the first takes the rounding.
LEMMA AllottedAddsUp ==
  ASSUME NEW total \in Int, NEW k \in Nat \ {0}, NEW a \in [1..k -> 0..Denominator]
  PROVE  /\ \A j \in 1..k : Allotted(total, a, j) \in Int
         /\ SumFunctionOnSet([j \in 1..k |-> Allotted(total, a, j)], 1..k) = total
<1> DEFINE parts == [i \in 1..k |-> (total * a[i]) \div Denominator]
           rest  == SumFunctionOnSet(parts, 1..k \ {1})
           fun   == [j \in 1..k |-> Allotted(total, a, j)]
<1>1. 1 \in 1..k /\ DOMAIN a = 1..k /\ IsFiniteSet(1..k) /\ IsFiniteSet(1..k \ {1})
  <2>1. IsFiniteSet(1..k)
    BY FS_Interval
  <2>2. IsFiniteSet(1..k \ {1})
    BY <2>1, FS_RemoveElement
  <2> QED
    BY <2>1, <2>2
<1>2. \A m \in Int : \A d \in Nat \ {0} : m \div d \in Int
  OBVIOUS
<1>3. \A i \in 1..k : parts[i] \in Int
  <2> SUFFICES ASSUME NEW i \in 1..k PROVE (total * a[i]) \div Denominator \in Int
    OBVIOUS
  <2>1. a[i] \in Int /\ Denominator \in Nat \ {0}
    BY EpochAssumption
  <2>2. total * a[i] \in Int
    BY <2>1
  <2> QED
    BY <1>2, <2>1, <2>2
<1>4. /\ fun[1] = total - rest
      /\ \A j \in 1..k \ {1} : fun[j] = parts[j]
  BY <1>1 DEF Allotted
<1> HIDE DEF parts, fun
<1>5. rest \in Int
  BY <1>1, <1>3, SumRemove
<1>6. \A j \in 1..k : fun[j] \in Int
  BY <1>3, <1>4, <1>5
<1>7. SumFunctionOnSet(fun, 1..k \ {1}) = rest
  BY <1>1, <1>3, <1>4, SumSame
<1> HIDE DEF rest
<1>8. SumFunctionOnSet(fun, 1..k) = fun[1] + rest
  BY <1>1, <1>6, <1>7, SumRemove
<1>9. SumFunctionOnSet(fun, 1..k) = total
  BY <1>4, <1>5, <1>8
<1> QED
  BY <1>6, <1>9 DEF fun

\* The third state of the outputs of Process is that of its inputs.
LEMMA ProcessAddsUp ==
  ASSUME NEW ins \in SUBSET Objects, IsFiniteSet(ins),
         NEW o \in ProcessOutputs(ins), IsInjective(o)
  PROVE  IsFiniteSet(Range(o)) /\ Total(Range(o)) = Total(ins)
<1>1. PICK k, a :
        /\ k \in Nat \ {0} /\ a \in [1..k -> 0..Denominator]
        /\ DOMAIN o = 1..k
        /\ \A j \in 1..k : o[j].s = Allotted(Total(ins), a, j)
  <2>1. PICK k \in 1..MaxArity, doc \in [1..MaxArity -> Documents],
             q \in [1..MaxArity -> Quantity \ {0}], owner \in {n.owner : n \in ins},
             opening \in [1..MaxArity -> Openings] :
               o \in Divisions(Total(ins), k, doc, q, owner, opening)
    BY DEF ProcessOutputs
  <2>2. PICK a \in [1..k -> 0..Denominator] :
               o = [j \in 1..k |-> Note(doc[j], q[j], Allotted(Total(ins), a, j), owner,
                                        opening[j])]
    BY <2>1 DEF Divisions
  <2>3. k \in Nat \ {0}
    BY EpochAssumption
  <2>4. \A j \in 1..k : o[j].s = Allotted(Total(ins), a, j)
    BY <2>2 DEF Note
  <2> QED
    BY <2>2, <2>3, <2>4
<1> DEFINE fun == [j \in 1..k |-> Allotted(Total(ins), a, j)]
<1>2. Total(ins) \in Int
  BY TotalIsSum
<1>3. SumFunctionOnSet(fun, 1..k) = Total(ins) /\ \A j \in 1..k : fun[j] \in Int
  BY <1>1, <1>2, AllottedAddsUp
<1>4. IsFiniteSet(1..k) /\ IsFiniteSet(Range(o))
  <2>1. IsFiniteSet(1..k)
    BY <1>1, FS_Interval
  <2>2. [j \in 1..k |-> o[j]] \in Surjection(1..k, Range(o))
    BY <1>1 DEF Range, Surjection
  <2> QED
    BY <2>1, <2>2, FS_Surjection
<1>5. Range(o) = {o[j] : j \in DOMAIN o} /\ Range(o) \in SUBSET Objects
  BY OutputsTyped, ThirdType DEF Range
<1>6. \A i, j \in DOMAIN o : o[i] = o[j] => i = j
  BY DEF IsInjective
<1>7. \A j \in 1..k : Third[o[j]] \in Int /\ Third[o[j]] = fun[j]
  BY <1>1, <1>5, ThirdType
<1> DEFINE gun == [j \in DOMAIN o |-> Third[o[j]]]
<1>8. SumFunctionOnSet(Third, Range(o)) = SumFunctionOnSet(gun, DOMAIN o)
  BY <1>1, <1>4, <1>5, <1>6, <1>7, SumOfRange
<1>9. \A j \in 1..k : fun[j] \in Int /\ fun[j] = gun[j]
  BY <1>1, <1>3, <1>7
<1> HIDE DEF fun, gun
<1>10. SumFunctionOnSet(fun, 1..k) = SumFunctionOnSet(gun, 1..k)
  BY <1>4, <1>9, SumSame
<1> QED
  BY <1>1, <1>3, <1>4, <1>5, <1>8, <1>10, TotalIsSum

\* A step moves notes and vouchers or leaves them alone.
LEMMA EpochSteps ==
  ASSUME EpochInv, [EpochNext]_epochVars
  PROVE  Untouched \/ Moved
<1>0. /\ commitments \subseteq Notes /\ vouchers \subseteq Vouchers
      /\ Notes \subseteq Objects /\ Vouchers \subseteq Objects
  BY ThirdType DEF EpochInv
<1>1. ASSUME NEW n \in Notes, Entry(n)
      PROVE  Moved
  <2>1. IsFiniteSet({n}) /\ IsFiniteSet({}) /\ {} \cup {} = {} /\ Range(<<n>>) = {n}
    BY RangeOfOne, FS_Singleton, FS_EmptySet
  <2>2. Moves("entry", {}, {}, <<n>>, {})
    BY <1>1, <2>1 DEF Entry, Moves, Balanced, Timed
  <2> QED
    BY <2>2 DEF Moved
<1>2. ASSUME NEW n \in commitments, Transfer(n)
      PROVE  Moved
  <2>1. PICK o \in TransferOutputs(n) :
          /\ Accept("transfer", {n}, {}, <<o.change>>, {o.voucher})
          /\ deadlineRV' = Put(deadlineRV, {o.voucher}, epoch + o.voucher.delta)
    BY <1>2 DEF Transfer
  <2>2. o.voucher \in Vouchers /\ o.change \in Notes /\ o.change # o.voucher
    BY OutputsTyped, KindsDiffer
  <2>3. IsFiniteSet({o.change}) /\ IsFiniteSet({o.voucher}) /\ Range(<<o.change>>) = {o.change}
    BY RangeOfOne, FS_Singleton
  <2>4. {o.change} \cup {o.voucher} = {o.change, o.voucher} /\ {n} \cup {} = {n}
    OBVIOUS
  <2>5. o.change.s + o.voucher.s = n.s
    BY <1>0, PartsAddUp
  <2>6. Total({o.change, o.voucher}) = Total({n})
    BY <1>0, <2>2, <2>5, TotalOfFew
  <2>7. Balanced("transfer", {n} \cup {}, {o.change} \cup {o.voucher})
    BY <2>4, <2>6 DEF Balanced
  <2>9. Timed("transfer", {}, {o.voucher})
    BY <2>1 DEF Timed, Put, At
  <2>8. Moves("transfer", {n}, {}, <<o.change>>, {o.voucher})
    BY <2>1, <2>2, <2>3, <2>7, <2>9 DEF Moves
  <2> QED
    BY <2>8 DEF Moved
<1>3. ASSUME NEW v \in vouchers, NEW owner, NEW kind, kind \in {"proceed", "recall"},
             NEW m \in ResolveOutputs(v, owner), Accept(kind, {}, {v}, <<m>>, {}),
             kind = "recall" => epoch < At(deadlineRV, v), UNCHANGED deadlineRV
      PROVE  Moved
  <2>1. m \in Notes /\ m.s = v.s
    BY DEF ResolveOutputs, Note
  <2>2. IsFiniteSet({m}) /\ IsFiniteSet({}) /\ Range(<<m>>) = {m}
        /\ {m} \cup {} = {m} /\ {} \cup {v} = {v}
    BY RangeOfOne, FS_Singleton, FS_EmptySet
  <2>3. Total({m}) = Total({v})
    BY <1>0, <2>1, TotalOfFew
  <2>4. Balanced(kind, {} \cup {v}, {m} \cup {})
    BY <1>3, <2>2, <2>3 DEF Balanced
  <2>5. Moves(kind, {}, {v}, <<m>>, {})
    BY <1>3, <2>1, <2>2, <2>4 DEF Moves, Timed
  <2> QED
    BY <2>5 DEF Moved
<1>4. ASSUME NEW v \in vouchers, Proceed(v) \/ Recall(v)
      PROVE  Moved
  <2>1. CASE Proceed(v)
    BY <1>3, <2>1 DEF Proceed, ProceedOutputs
  <2>2. CASE Recall(v)
    BY <1>3, <2>2 DEF Recall
  <2> QED
    BY <1>4, <2>1, <2>2
<1>5. ASSUME NEW n1 \in commitments, NEW n2 \in commitments, Merge(n1, n2)
      PROVE  Moved
  <2>1. PICK m \in MergeOutputs(n1, n2) :
          Accept("merge", {n1, n2}, {}, <<m>>, {}) /\ UNCHANGED deadlineRV
    BY <1>5 DEF Merge
  <2>2. m \in Notes /\ m.s = n1.s + n2.s
    BY DEF MergeOutputs, Note
  <2>3. IsFiniteSet({m}) /\ IsFiniteSet({}) /\ Range(<<m>>) = {m}
        /\ {m} \cup {} = {m} /\ {n1, n2} \cup {} = {n1, n2}
    BY RangeOfOne, FS_Singleton, FS_EmptySet
  <2>4. n1 # n2
    BY <1>5 DEF Merge
  <2>5. Total({m}) = Total({n1, n2})
    BY <1>0, <2>2, <2>4, TotalOfFew
  <2>6. Balanced("merge", {n1, n2} \cup {}, {m} \cup {})
    BY <2>3, <2>5 DEF Balanced
  <2>7. Moves("merge", {n1, n2}, {}, <<m>>, {})
    BY <2>1, <2>2, <2>3, <2>6 DEF Moves, Timed
  <2> QED
    BY <2>7 DEF Moved
<1>6. ASSUME NEW n \in commitments, Split(n)
      PROVE  Moved
  <2>1. PICK o \in SplitOutputs(n) : Accept("split", {n}, {}, o, {}) /\ UNCHANGED deadlineRV
    BY <1>6 DEF Split
  <2>2. o = <<o[1], o[2]>> /\ o[1].s + o[2].s = n.s
    BY <1>0, PartsAddUp
  <2>3. o[1] \in Notes /\ o[2] \in Notes
    BY OutputsTyped
  <2>4. o[1] # o[2]
    <3>1. IsInjective(o)
      BY <2>1 DEF Accept, Acceptable
    <3>2. 1 \in DOMAIN o /\ 2 \in DOMAIN o
      BY <2>2
    <3> QED
      BY <3>1, <3>2 DEF IsInjective
  <2>5. Range(o) = {o[1], o[2]}
    BY <2>2, RangeOfTwo
  <2>6. IsFiniteSet({o[1], o[2]}) /\ IsFiniteSet({})
    <3>1. {o[1], o[2]} = {o[1]} \cup {o[2]}
      OBVIOUS
    <3>2. IsFiniteSet({o[1]} \cup {o[2]})
      BY FS_Singleton, FS_AddElement
    <3> QED
      BY <3>1, <3>2, FS_EmptySet
  <2>7. Total({o[1], o[2]}) = Total({n})
    BY <1>0, <2>2, <2>3, <2>4, TotalOfFew
  <2>8. Balanced("split", {n} \cup {}, {o[1], o[2]} \cup {})
    BY <2>7 DEF Balanced
  <2>9. Moves("split", {n}, {}, o, {})
    BY <2>1, <2>3, <2>5, <2>6, <2>8 DEF Moves, Timed
  <2> QED
    BY <2>9 DEF Moved
<1>7. ASSUME NEW ins \in SUBSET commitments, Process(ins)
      PROVE  Moved
  <2>1. PICK o \in ProcessOutputs(ins) :
          Accept("process", ins, {}, o, {}) /\ UNCHANGED deadlineRV
    BY <1>7 DEF Process
  <2>2. ins \in SUBSET Objects /\ IsFiniteSet(ins)
    BY <1>0, FS_Subset DEF EpochInv
  <2>3. IsInjective(o)
    BY <2>1 DEF Accept, Acceptable
  <2>4. IsFiniteSet(Range(o)) /\ Total(Range(o)) = Total(ins)
    BY <2>2, <2>3, ProcessAddsUp
  <2>5. ins \cup {} = ins /\ Range(o) \cup {} = Range(o)
    OBVIOUS
  <2>6. Balanced("process", ins \cup {}, Range(o) \cup {})
    BY <2>4, <2>5 DEF Balanced
  <2>7. Moves("process", ins, {}, o, {})
    BY <2>1, <2>4, <2>6, OutputsTyped, FS_EmptySet DEF Moves, Timed
  <2> QED
    BY <2>7 DEF Moved
<1>8. ASSUME NEW n, Exit(n)
      PROVE  Moved
  <2>1. IsFiniteSet({}) /\ Range(<<>>) = {} /\ {} \cup {} = {}
    BY RangeOfNone, FS_EmptySet
  <2>2. Moves("exit", {n}, {}, <<>>, {})
    BY <1>8, <2>1 DEF Exit, Moves, Balanced, Timed
  <2> QED
    BY <2>2 DEF Moved
<1>9. ASSUME NEW account, RegisterUser(account)
      PROVE  Untouched
  BY <1>9 DEF RegisterUser, Untouched
<1>10. CASE NextEpoch
  BY <1>10 DEF NextEpoch, Untouched
<1>11. CASE UNCHANGED epochVars
  BY <1>11 DEF epochVars, Untouched
<1>12. CASE EpochNext
  BY <1>1, <1>2, <1>4, <1>5, <1>6, <1>7, <1>8, <1>9, <1>10, <1>12 DEF EpochNext
<1> QED
  BY <1>11, <1>12

-----------------------------------------------------------------------------
\* The event of AssetFlow a move is.
EventOf(inNotes, inVouchers, outNotes, outVouchers) ==
  [inputs |-> inNotes \cup inVouchers, outputs |-> Range(outNotes) \cup outVouchers]

\* A move appends its event to the history.
LEMMA MoveAppended ==
  ASSUME EpochInv, NEW kind, NEW inNotes, NEW inVouchers, NEW outNotes, NEW outVouchers,
         Moves(kind, inNotes, inVouchers, outNotes, outVouchers),
         NEW n, n = Len(transactions) + 1,
         NEW event, event = EventOf(inNotes, inVouchers, outNotes, outVouchers)
  PROVE  /\ n \in Nat \ {0} /\ Steps = 1..(n - 1) /\ Steps' = 1..n
         /\ Len(transactions') = n
         /\ transactions' = [i \in Steps' |-> transactions'[i]]
         /\ transactions'[n].inputs = event.inputs
         /\ transactions'[n].outputs = event.outputs
         /\ transactions'[n].kind = kind /\ transactions'[n].epoch = epoch
         /\ \A i \in Steps : transactions'[i] = transactions[i]
<1>1. PICK t : /\ t = [kind |-> kind, epoch |-> epoch, inputs |-> inNotes \cup inVouchers,
                       outputs |-> Range(outNotes) \cup outVouchers]
               /\ transactions' = Append(transactions, t)
  BY DEF Moves, Accept
<1>2. /\ t.inputs = event.inputs /\ t.outputs = event.outputs
      /\ t.kind = kind /\ t.epoch = epoch
  BY <1>1 DEF EventOf
<1>3. n - 1 \in Nat /\ (n - 1) + 1 = n /\ n \in Nat \ {0} /\ Len(transactions) = n - 1
      /\ Steps = 1..(n - 1) /\ transactions = [i \in 1..(n - 1) |-> transactions[i]]
  <2>1. /\ Len(transactions) \in Nat /\ Steps = 1..Len(transactions)
        /\ transactions = [i \in Steps |-> transactions[i]]
    BY DEF EpochInv
  <2>2. n - 1 = Len(transactions)
    BY <2>1
  <2> QED
    BY <2>1, <2>2
<1>4. PICK T : T = {transactions[i] : i \in 1..(n - 1)} \cup {t}
  OBVIOUS
<1>5. transactions \in Seq(T) /\ t \in T
  <2>1. \A i \in 1..(n - 1) : transactions[i] \in T
    BY <1>4
  <2> QED
    BY <1>3, <1>4, <2>1, FunctionIsSequence
<1>6. /\ transactions' \in Seq(T) /\ Len(transactions') = n
      /\ \A i \in 1..(n - 1) : transactions'[i] = transactions[i]
      /\ transactions'[n] = t
  BY <1>1, <1>3, <1>5, AppendProperties
<1>7. Steps' = 1..n /\ transactions' = [i \in 1..n |-> transactions'[i]]
  BY <1>3, <1>6 DEF Steps
<1> QED
  BY <1>2, <1>3, <1>6, <1>7

\* A move consumes what is recorded and live, and creates what is not recorded.
LEMMA MoveLoads ==
  ASSUME EpochInv, NEW kind, NEW inNotes, NEW inVouchers, NEW outNotes, NEW outVouchers,
         Moves(kind, inNotes, inVouchers, outNotes, outVouchers)
  PROVE  /\ inNotes \subseteq commitments /\ inVouchers \subseteq vouchers
         /\ \A n \in inNotes : Nullifier(n) \notin nullifiers
         /\ \A v \in inVouchers : VoucherNullifier(v) \notin voucherNullifiers
         /\ Range(outNotes) \subseteq Notes /\ outVouchers \subseteq Vouchers
         /\ Range(outNotes) \cap (commitments \cup vouchers) = {}
         /\ outVouchers \cap (commitments \cup vouchers) = {}
<1>1. /\ inNotes \subseteq commitments /\ inVouchers \subseteq vouchers
      /\ Range(outNotes) \cap commitments = {} /\ outVouchers \cap vouchers = {}
      /\ Range(outNotes) \subseteq Notes /\ outVouchers \subseteq Vouchers
  BY DEF Moves, Accept, Acceptable
<1>2. /\ \A n \in inNotes : Nullifier(n) \notin nullifiers
      /\ \A v \in inVouchers : VoucherNullifier(v) \notin voucherNullifiers
  BY DEF Moves, Accept, Acceptable, Unspent
<1>3. commitments \subseteq Notes /\ vouchers \subseteq Vouchers
  BY DEF EpochInv
<1> QED
  BY <1>1, <1>2, <1>3, KindsDiffer

LEMMA EpochInductive ==
  ASSUME EpochInv, [EpochNext]_epochVars
  PROVE  EpochInv'
<1>1. CASE Untouched
  BY <1>1 DEF EpochInv, Untouched, Steps
<1>2. ASSUME NEW kind, NEW inNotes, NEW inVouchers, NEW outNotes, NEW outVouchers,
             Moves(kind, inNotes, inVouchers, outNotes, outVouchers)
      PROVE  EpochInv'
  <2>1. PICK n, event : /\ n = Len(transactions) + 1
                        /\ event = EventOf(inNotes, inVouchers, outNotes, outVouchers)
    OBVIOUS
  <2>2. /\ n \in Nat \ {0} /\ Steps = 1..(n - 1) /\ Steps' = 1..n
        /\ Len(transactions') = n
        /\ transactions' = [i \in Steps' |-> transactions'[i]]
        /\ transactions'[n].inputs = event.inputs
        /\ transactions'[n].outputs = event.outputs
        /\ \A i \in Steps : transactions'[i] = transactions[i]
    BY <1>2, <2>1, MoveAppended
  <2>3. /\ inNotes \subseteq commitments /\ inVouchers \subseteq vouchers
        /\ Range(outNotes) \subseteq Notes /\ outVouchers \subseteq Vouchers
    BY <1>2, MoveLoads
  <2>4. /\ nullifiers' = nullifiers \cup {Nullifier(x) : x \in inNotes}
        /\ voucherNullifiers' = voucherNullifiers \cup {VoucherNullifier(x) : x \in inVouchers}
        /\ commitments' = commitments \cup Range(outNotes)
        /\ vouchers' = vouchers \cup outVouchers
    BY <1>2 DEF Moves, Accept
  <2>5. /\ event.inputs = inNotes \cup inVouchers
        /\ event.outputs = Range(outNotes) \cup outVouchers
    BY <2>1 DEF EventOf
  <2>6. commitments' \subseteq Notes /\ vouchers' \subseteq Vouchers
    BY <2>3, <2>4 DEF EpochInv
  <2>7. \A i \in Steps' : i \in Steps \/ i = n
    BY <2>2
  <2>8. n \in Steps' /\ \A i \in Steps : i \in Steps'
    BY <2>2
  <2>9. UNION {transactions'[i].outputs : i \in Steps'} = commitments' \cup vouchers'
    <3>1. ASSUME NEW x
          PROVE  (\E i \in Steps' : x \in transactions'[i].outputs)
                 <=> x \in commitments' \cup vouchers'
      <4>1. (\E i \in Steps' : x \in transactions'[i].outputs)
              <=> (\E i \in Steps : x \in transactions[i].outputs) \/ x \in event.outputs
        BY <2>2, <2>7, <2>8
      <4>2. (\E i \in Steps : x \in transactions[i].outputs)
              <=> x \in commitments \cup vouchers
        BY DEF EpochInv
      <4> QED
        BY <2>4, <2>5, <4>1, <4>2
    <3> QED
      BY <3>1
  <2>11. /\ IsFiniteSet(commitments') /\ IsFiniteSet(vouchers')
         /\ nullifiers' \subseteq {Nullifier(x) : x \in commitments'}
         /\ voucherNullifiers' \subseteq {VoucherNullifier(x) : x \in vouchers'}
    <3>1. IsFiniteSet(Range(outNotes)) /\ IsFiniteSet(outVouchers)
      BY <1>2 DEF Moves
    <3> QED
      BY <2>3, <2>4, <3>1, FS_Union DEF EpochInv
  <2>10. ASSUME NEW i \in Steps', NEW x \in transactions'[i].inputs
         PROVE  \/ x \in commitments' /\ Nullifier(x) \in nullifiers'
                \/ x \in vouchers' /\ VoucherNullifier(x) \in voucherNullifiers'
    <3>1. CASE i \in Steps
      <4>1. \/ x \in commitments /\ Nullifier(x) \in nullifiers
            \/ x \in vouchers /\ VoucherNullifier(x) \in voucherNullifiers
        BY <2>2, <3>1 DEF EpochInv
      <4> QED
        BY <2>4, <4>1
    <3>2. CASE i = n
      <4>1. x \in inNotes \/ x \in inVouchers
        BY <2>2, <2>5, <3>2
      <4> QED
        BY <2>3, <2>4, <4>1
    <3> QED
      BY <2>7, <3>1, <3>2
  <2> QED
    BY <2>2, <2>6, <2>9, <2>10, <2>11 DEF EpochInv
<1> QED
  BY <1>1, <1>2, EpochSteps DEF Moved

LEMMA EpochInvariant == EpochSpec => []EpochInv
<1>1. EpochInit => EpochInv
  <2> SUFFICES ASSUME EpochInit PROVE EpochInv
    OBVIOUS
  <2>1. transactions = <<>> /\ Steps = {} /\ Len(transactions) = 0
    BY DEF EpochInit, Steps
  <2> QED
    BY <2>1, FS_EmptySet DEF EpochInit, EpochInv
<1> QED
  BY <1>1, EpochInductive, PTL DEF EpochSpec

-----------------------------------------------------------------------------
\* A move is acceptable to AssetFlow.
LEMMA MoveAcceptable ==
  ASSUME EpochInv, NEW kind, NEW inNotes, NEW inVouchers, NEW outNotes, NEW outVouchers,
         Moves(kind, inNotes, inVouchers, outNotes, outVouchers),
         NEW event, event = EventOf(inNotes, inVouchers, outNotes, outVouchers)
  PROVE  EpochFlow!Acceptable(Events, {}, event)
<1>1. /\ inNotes \subseteq commitments /\ inVouchers \subseteq vouchers
      /\ \A n \in inNotes : Nullifier(n) \notin nullifiers
      /\ \A v \in inVouchers : VoucherNullifier(v) \notin voucherNullifiers
      /\ Range(outNotes) \subseteq Notes /\ outVouchers \subseteq Vouchers
      /\ Range(outNotes) \cap (commitments \cup vouchers) = {}
      /\ outVouchers \cap (commitments \cup vouchers) = {}
  BY MoveLoads
<1>2. /\ event.inputs = inNotes \cup inVouchers
      /\ event.outputs = Range(outNotes) \cup outVouchers
  BY DEF EventOf
<1>3. EpochFlow!Created(Events) = commitments \cup vouchers
  <2>1. /\ DOMAIN Events = Steps
        /\ \A i \in Steps : Events[i].outputs = transactions[i].outputs
    BY DEF Events, Steps
  <2> QED
    BY <2>1 DEF EpochFlow!Created, EpochInv
<1>4. \A x \in EpochFlow!Consumed(Events) :
        \/ x \in commitments /\ Nullifier(x) \in nullifiers
        \/ x \in vouchers /\ VoucherNullifier(x) \in voucherNullifiers
  <2>1. /\ DOMAIN Events = Steps
        /\ \A i \in Steps : Events[i].inputs = transactions[i].inputs
    BY DEF Events, Steps
  <2> QED
    BY <2>1 DEF EpochFlow!Consumed, EpochInv
<1>5. commitments \cap vouchers = {} /\ commitments \cup vouchers \subseteq Objects
  BY KindsDiffer DEF EpochInv, Objects
<1>6. event.inputs \subseteq (EpochFlow!LiveIn(Events) \cap Objects) \ {}
  BY <1>1, <1>2, <1>3, <1>4, <1>5 DEF EpochFlow!LiveIn
<1>7. event.outputs \subseteq Objects \ EpochFlow!Created(Events)
  BY <1>1, <1>2, <1>3 DEF Objects
<1> QED
  BY <1>6, <1>7 DEF EpochFlow!Acceptable

\* The earlier proof of concept implements AssetFlow: commitments and nullifiers
\* alone keep a note or a voucher from being consumed twice, a voucher from being
\* both proceeded and recalled, and either from being created twice.
THEOREM EpochImplements == EpochSpec => EpochImplementsFlow
<1>1. EpochInit => EpochFlow!Init
  <2>1. EpochInit => Events = <<>>
    BY DEF EpochInit, Events
  <2> QED
    BY <2>1 DEF EpochFlow!Init
<1>2. ASSUME EpochInv, [EpochNext]_epochVars
      PROVE  [EpochFlow!Next]_EpochFlow!flowVars
  <2>1. CASE Untouched
    <3>1. Events' = Events
      BY <2>1 DEF Events, Untouched
    <3> QED
      BY <3>1 DEF EpochFlow!flowVars
  <2>2. ASSUME NEW kind, NEW inNotes, NEW inVouchers, NEW outNotes, NEW outVouchers,
               Moves(kind, inNotes, inVouchers, outNotes, outVouchers)
        PROVE  EpochFlow!Next
    <3>1. PICK n, event : /\ n = Len(transactions) + 1
                          /\ event = EventOf(inNotes, inVouchers, outNotes, outVouchers)
      OBVIOUS
    <3>2. EpochFlow!Acceptable(Events, {}, event)
      BY <1>2, <2>2, <3>1, MoveAcceptable
    <3>3. /\ n \in Nat \ {0} /\ Steps = 1..(n - 1) /\ Steps' = 1..n
          /\ Len(transactions') = n
          /\ transactions' = [i \in Steps' |-> transactions'[i]]
          /\ transactions'[n].inputs = event.inputs
          /\ transactions'[n].outputs = event.outputs
          /\ \A i \in Steps : transactions'[i] = transactions[i]
      BY <1>2, <2>2, <3>1, MoveAppended
    <3>4. Events'[n] = event /\ \A i \in Steps : Events'[i] = Events[i]
      <4>1. event = [inputs |-> event.inputs, outputs |-> event.outputs]
        BY <3>1 DEF EventOf
      <4>2. n \in Steps' /\ \A i \in Steps : i \in Steps'
        BY <3>3
      <4>3. Events'[n] = event
        BY <3>3, <4>1, <4>2 DEF Events, Steps
      <4>4. \A i \in Steps : Events'[i] = Events[i]
        BY <3>3, <4>2 DEF Events, Steps
      <4> QED
        BY <4>3, <4>4
    <3>5. Events' = [i \in 1..n |-> Events'[i]] /\ Events = [i \in 1..(n - 1) |-> Events[i]]
      BY <3>3 DEF Events, Steps
    <3>6. n - 1 \in Nat /\ (n - 1) + 1 = n
      BY <3>3
    <3>7. Events' = Append(Events, event) /\ Events' # <<>> /\ Len(Events') = n
      BY <3>3, <3>4, <3>5, <3>6, ExtendedIsAppended
    <3>8. EpochFlow!Last(Events') = event
      BY <3>4, <3>7 DEF EpochFlow!Last
    <3>9. EpochFlow!Record(event)
      BY <3>2, <3>7 DEF EpochFlow!Record
    <3> QED
      BY <3>7, <3>8, <3>9 DEF EpochFlow!Next
  <2> QED
    BY <1>2, <2>1, <2>2, EpochSteps DEF Moved
<1> QED
  BY <1>1, <1>2, EpochInvariant, PTL DEF EpochSpec, EpochImplementsFlow, EpochFlow!Spec
-----------------------------------------------------------------------------
\* What the inductive invariant of the balance adds: what was entered is recorded,
\* and what left was consumed.
ThirdInv ==
  /\ Entered \subseteq commitments \cup vouchers
  /\ Left \subseteq (commitments \cup vouchers) \ Live
  /\ ThirdStateExact

\* What a move does to the sets that the balance is about.
Replaced(kind, ins, outs) ==
  /\ ins \subseteq Live /\ outs \cap (commitments \cup vouchers) = {}
  /\ outs \subseteq Objects /\ IsFiniteSet(outs)
  /\ commitments' \cup vouchers' = (commitments \cup vouchers) \cup outs
  /\ Live' = (Live \ ins) \cup outs
  /\ Entered' = IF kind = "entry" THEN Entered \cup outs ELSE Entered
  /\ Left' = IF kind = "exit" THEN Left \cup ins ELSE Left

LEMMA MoveLive ==
  ASSUME EpochInv, NEW kind, NEW inNotes, NEW inVouchers, NEW outNotes, NEW outVouchers,
         Moves(kind, inNotes, inVouchers, outNotes, outVouchers),
         NEW ins, ins = inNotes \cup inVouchers,
         NEW outs, outs = Range(outNotes) \cup outVouchers
  PROVE  Replaced(kind, ins, outs)
<1>1. /\ inNotes \subseteq commitments /\ inVouchers \subseteq vouchers
      /\ \A n \in inNotes : Nullifier(n) \notin nullifiers
      /\ \A v \in inVouchers : VoucherNullifier(v) \notin voucherNullifiers
      /\ Range(outNotes) \subseteq Notes /\ outVouchers \subseteq Vouchers
      /\ Range(outNotes) \cap (commitments \cup vouchers) = {}
      /\ outVouchers \cap (commitments \cup vouchers) = {}
  BY MoveLoads
<1>2. /\ nullifiers' = nullifiers \cup {Nullifier(x) : x \in inNotes}
      /\ voucherNullifiers' = voucherNullifiers \cup {VoucherNullifier(x) : x \in inVouchers}
      /\ commitments' = commitments \cup Range(outNotes)
      /\ vouchers' = vouchers \cup outVouchers
      /\ IsFiniteSet(Range(outNotes)) /\ IsFiniteSet(outVouchers)
  BY DEF Moves, Accept
<1>3. /\ \A x, y : Nullifier(x) = Nullifier(y) => x = y
      /\ \A x, y : VoucherNullifier(x) = VoucherNullifier(y) => x = y
  BY DEF Nullifier, VoucherNullifier
<1>4. /\ nullifiers \subseteq {Nullifier(n) : n \in commitments}
      /\ voucherNullifiers \subseteq {VoucherNullifier(v) : v \in vouchers}
      /\ commitments \subseteq Notes /\ vouchers \subseteq Vouchers
  BY DEF EpochInv
<1>5. ins \subseteq Live
  BY <1>1 DEF Live
<1>6. /\ outs \cap (commitments \cup vouchers) = {} /\ outs \subseteq Objects
      /\ IsFiniteSet(outs)
      /\ commitments' \cup vouchers' = (commitments \cup vouchers) \cup outs
  BY <1>1, <1>2, FS_Union DEF Objects
<1>7. Live' = (Live \ ins) \cup outs
  <2>1. \A n \in Notes : /\ n \notin vouchers /\ n \notin inVouchers /\ n \notin outVouchers
                         /\ n \notin vouchers'
    BY <1>1, <1>2, <1>4, KindsDiffer
  <2>2. \A v \in Vouchers : /\ v \notin commitments /\ v \notin inNotes
                            /\ v \notin Range(outNotes) /\ v \notin commitments'
    BY <1>1, <1>2, <1>4, KindsDiffer
  <2>3. ASSUME NEW n \in Notes
        PROVE  n \in Live' <=> n \in (Live \ ins) \cup outs
    <3>1. n \in Live <=> n \in commitments /\ Nullifier(n) \notin nullifiers
      BY <2>1 DEF Live
    <3>2. n \in Live' <=> n \in commitments' /\ Nullifier(n) \notin nullifiers'
      BY <2>1 DEF Live
    <3>3. Nullifier(n) \in nullifiers' <=> Nullifier(n) \in nullifiers \/ n \in inNotes
      BY <1>2, <1>3
    <3>4. n \in Range(outNotes) => Nullifier(n) \notin nullifiers /\ n \notin inNotes
      BY <1>1, <1>3, <1>4
    <3> QED
      BY <1>2, <2>1, <3>1, <3>2, <3>3, <3>4
  <2>4. ASSUME NEW v \in Vouchers
        PROVE  v \in Live' <=> v \in (Live \ ins) \cup outs
    <3>1. v \in Live <=> v \in vouchers /\ VoucherNullifier(v) \notin voucherNullifiers
      BY <2>2 DEF Live
    <3>2. v \in Live' <=> v \in vouchers' /\ VoucherNullifier(v) \notin voucherNullifiers'
      BY <2>2 DEF Live
    <3>3. VoucherNullifier(v) \in voucherNullifiers'
            <=> VoucherNullifier(v) \in voucherNullifiers \/ v \in inVouchers
      BY <1>2, <1>3
    <3>4. v \in outVouchers
            => VoucherNullifier(v) \notin voucherNullifiers /\ v \notin inVouchers
      BY <1>1, <1>3, <1>4
    <3> QED
      BY <1>2, <2>2, <3>1, <3>2, <3>3, <3>4
  <2>5. Live \subseteq Objects /\ Live' \subseteq Objects
    BY <1>1, <1>2, <1>4 DEF Live, Objects
  <2> QED
    BY <1>6, <2>3, <2>4, <2>5 DEF Objects
<1>8. PICK n : n = Len(transactions) + 1
  OBVIOUS
<1>9. PICK event : event = EventOf(inNotes, inVouchers, outNotes, outVouchers)
  OBVIOUS
<1>10. /\ n \notin Steps /\ Steps' = Steps \cup {n}
       /\ transactions'[n].inputs = ins
       /\ transactions'[n].outputs = outs
       /\ transactions'[n].kind = kind
       /\ \A i \in Steps : transactions'[i] = transactions[i]
  <2>1. /\ n \in Nat \ {0} /\ Steps = 1..(n - 1) /\ Steps' = 1..n
        /\ transactions'[n].inputs = event.inputs
        /\ transactions'[n].outputs = event.outputs
        /\ transactions'[n].kind = kind
        /\ \A i \in Steps : transactions'[i] = transactions[i]
    BY <1>8, <1>9, MoveAppended
  <2>2. event.inputs = ins /\ event.outputs = outs
    BY <1>9 DEF EventOf
  <2> QED
    BY <2>1, <2>2
<1>11. Entered' = IF kind = "entry" THEN Entered \cup outs ELSE Entered
  BY <1>10 DEF Entered, Steps
<1>12. Left' = IF kind = "exit" THEN Left \cup ins ELSE Left
  BY <1>10 DEF Left, Steps
<1> QED
  BY <1>5, <1>6, <1>7, <1>11, <1>12 DEF Replaced

\* The total after some objects went and others came.
LEMMA TotalChanges ==
  ASSUME NEW S \in SUBSET Objects, IsFiniteSet(S), NEW ins \in SUBSET S,
         NEW outs \in SUBSET Objects, IsFiniteSet(outs), outs \cap S = {}
  PROVE  /\ Total(S) \in Int /\ Total(ins) \in Int /\ Total(outs) \in Int
         /\ Total((S \ ins) \cup outs) = (Total(S) - Total(ins)) + Total(outs)
<1> DEFINE rest == S \ ins
<1>1. /\ rest \in SUBSET Objects /\ IsFiniteSet(rest)
      /\ ins \in SUBSET Objects /\ IsFiniteSet(ins)
      /\ rest \cap ins = {} /\ rest \cup ins = S /\ rest \cap outs = {}
  BY FS_Subset
<1> HIDE DEF rest
<1>2. /\ Total(rest \cup ins) = Total(rest) + Total(ins)
      /\ Total(rest) \in Int /\ Total(ins) \in Int
  BY <1>1, TotalOfUnion
<1>3. /\ Total(rest \cup outs) = Total(rest) + Total(outs)
      /\ Total(outs) \in Int
  BY <1>1, TotalOfUnion
<1>4. Total(S) = Total(rest) + Total(ins)
  BY <1>1, <1>2
<1>5. /\ Total(S) \in Int /\ Total(ins) \in Int /\ Total(outs) \in Int
      /\ Total(rest \cup outs) = (Total(S) - Total(ins)) + Total(outs)
  BY <1>2, <1>3, <1>4
<1> QED
  BY <1>5 DEF rest

LEMMA MoveKeepsThird ==
  ASSUME EpochInv, ThirdInv,
         NEW kind, NEW inNotes, NEW inVouchers, NEW outNotes, NEW outVouchers,
         Moves(kind, inNotes, inVouchers, outNotes, outVouchers),
         NEW ins, ins = inNotes \cup inVouchers,
         NEW outs, outs = Range(outNotes) \cup outVouchers
  PROVE  ThirdInv'
<1>2. Replaced(kind, ins, outs)
  BY MoveLive
<1>3. Balanced(kind, ins, outs)
  BY DEF Moves
<1>4. /\ commitments \cup vouchers \in SUBSET Objects
      /\ IsFiniteSet(commitments \cup vouchers)
      /\ Live \subseteq commitments \cup vouchers
  BY FS_Union, ThirdType DEF EpochInv, Live
<1>5. /\ Live \in SUBSET Objects /\ IsFiniteSet(Live) /\ outs \cap Live = {}
      /\ Entered \in SUBSET Objects /\ IsFiniteSet(Entered) /\ outs \cap Entered = {}
      /\ Left \in SUBSET Objects /\ IsFiniteSet(Left) /\ ins \cap Left = {}
      /\ ins \in SUBSET Objects /\ IsFiniteSet(ins)
  BY <1>2, <1>4, FS_Subset DEF ThirdInv, Replaced
<1>6. /\ Total(Live) \in Int /\ Total(ins) \in Int /\ Total(outs) \in Int
      /\ Total(Live') = (Total(Live) - Total(ins)) + Total(outs)
  <2>1. ins \in SUBSET Live /\ outs \in SUBSET Objects /\ IsFiniteSet(outs)
    BY <1>2 DEF Replaced
  <2>2. /\ Total(Live) \in Int /\ Total(ins) \in Int /\ Total(outs) \in Int
        /\ Total((Live \ ins) \cup outs) = (Total(Live) - Total(ins)) + Total(outs)
    BY <1>5, <2>1, TotalChanges
  <2>3. Live' = (Live \ ins) \cup outs
    BY <1>2 DEF Replaced
  <2> QED
    BY <2>2, <2>3
<1>7. /\ Total(Entered) \in Int
      /\ Total(Entered \cup outs) = Total(Entered) + Total(outs)
  BY <1>2, <1>5, TotalOfUnion DEF Replaced
<1>8. /\ Total(Left) \in Int
      /\ Total(Left \cup ins) = Total(Left) + Total(ins)
  BY <1>5, TotalOfUnion
<1>9. Total(Entered) = Total(Live) + Total(Left)
  BY DEF ThirdInv, ThirdStateExact
<1>10. Total(Entered') = Total(Live') + Total(Left')
  <2>1. CASE kind = "entry"
    <3>1. Total(ins) = 0 /\ Entered' = Entered \cup outs /\ Left' = Left
      BY <1>2, <1>3, <2>1, TotalOfNone DEF Balanced, Replaced
    <3> QED
      BY <1>6, <1>7, <1>8, <1>9, <3>1
  <2>2. CASE kind = "exit"
    <3>1. Total(outs) = 0 /\ Entered' = Entered /\ Left' = Left \cup ins
      BY <1>2, <1>3, <2>2, TotalOfNone DEF Balanced, Replaced
    <3> QED
      BY <1>6, <1>7, <1>8, <1>9, <3>1
  <2>3. CASE kind \notin {"entry", "exit"}
    <3>1. Total(outs) = Total(ins) /\ Entered' = Entered /\ Left' = Left
      BY <1>2, <1>3, <2>3 DEF Balanced, Replaced
    <3> QED
      BY <1>6, <1>7, <1>8, <1>9, <3>1
  <2> QED
    BY <2>1, <2>2, <2>3
<1>11. ThirdStateExact'
  BY <1>10 DEF ThirdStateExact, Total
<1>12. /\ Entered' \subseteq commitments' \cup vouchers'
       /\ Left' \subseteq (commitments' \cup vouchers') \ Live'
  BY <1>2, <1>4 DEF ThirdInv, Replaced
<1> QED
  BY <1>11, <1>12 DEF ThirdInv

\* The third state is exact over the whole ledger, whatever is traded, merged, split
\* and processed, however Process rounds: what was entered is live or left by Exit.
THEOREM EpochThirdState == EpochSpec => []ThirdStateExact
<1>1. EpochInit => ThirdInv
  <2> SUFFICES ASSUME EpochInit PROVE ThirdInv
    OBVIOUS
  <2>1. Entered = {} /\ Left = {} /\ Live = {}
    BY DEF EpochInit, Entered, Left, Live
  <2>2. Total(Entered) = Total(Live) + Total(Left)
    BY <2>1, TotalOfNone
  <2> QED
    BY <2>1, <2>2 DEF ThirdInv, ThirdStateExact
<1>2. ASSUME EpochInv, ThirdInv, [EpochNext]_epochVars
      PROVE  ThirdInv'
  <2>1. CASE Untouched
    BY <1>2, <2>1 DEF Untouched, ThirdInv, ThirdStateExact, Entered, Left, Live
  <2>2. CASE Moved
    <3>1. PICK kind, inNotes, inVouchers, outNotes, outVouchers :
            Moves(kind, inNotes, inVouchers, outNotes, outVouchers)
      BY <2>2 DEF Moved
    <3> QED
      BY <1>2, <3>1, MoveKeepsThird
  <2> QED
    BY <1>2, <2>1, <2>2, EpochSteps
<1>3. ThirdInv => ThirdStateExact
  BY DEF ThirdInv
<1> QED
  BY <1>1, <1>2, <1>3, EpochInvariant, PTL DEF EpochSpec

-----------------------------------------------------------------------------
\* The deadline the ledger keeps for a voucher is the one its transfer announced.
DeadlinesInv ==
  /\ \A v \in vouchers : \E j \in Steps :
       /\ transactions[j].kind = "transfer"
       /\ v \in transactions[j].outputs
       /\ At(deadlineRV, v) = transactions[j].epoch + v.delta
  /\ RecallsBeforeDeadline

LEMMA MoveKeepsDeadlines ==
  ASSUME EpochInv, DeadlinesInv,
         NEW kind, NEW inNotes, NEW inVouchers, NEW outNotes, NEW outVouchers,
         Moves(kind, inNotes, inVouchers, outNotes, outVouchers),
         NEW n, n = Len(transactions) + 1,
         NEW event, event = EventOf(inNotes, inVouchers, outNotes, outVouchers)
  PROVE  DeadlinesInv'
<1>1. /\ n \in Nat \ {0} /\ Steps = 1..(n - 1) /\ Steps' = 1..n
      /\ transactions'[n].inputs = event.inputs
      /\ transactions'[n].outputs = event.outputs
      /\ transactions'[n].kind = kind /\ transactions'[n].epoch = epoch
      /\ \A i \in Steps : transactions'[i] = transactions[i]
  BY MoveAppended
<1>2. /\ event.inputs = inNotes \cup inVouchers
      /\ event.outputs = Range(outNotes) \cup outVouchers
  BY DEF EventOf
<1>3. /\ inVouchers \subseteq vouchers /\ vouchers' = vouchers \cup outVouchers
      /\ outVouchers \cap vouchers = {}
  BY DEF Moves, Accept, Acceptable
<1>4. Timed(kind, inVouchers, outVouchers)
  BY DEF Moves
<1>5. n \in Steps' /\ \A i \in Steps' : i \in Steps \/ i = n
  BY <1>1
<1>6. \A i \in Steps : i \in Steps' /\ 1..(i - 1) \subseteq Steps /\ i \in Nat
  BY <1>1
<1>7. ASSUME NEW v \in vouchers'
      PROVE  \E j \in Steps' : /\ transactions'[j].kind = "transfer"
                               /\ v \in transactions'[j].outputs
                               /\ At(deadlineRV', v) = transactions'[j].epoch + v.delta
  <2>1. CASE v \in outVouchers
    BY <1>1, <1>2, <1>4, <1>5, <2>1 DEF Timed
  <2>2. CASE v \notin outVouchers
    <3>1. PICK j \in Steps : /\ transactions[j].kind = "transfer"
                             /\ v \in transactions[j].outputs
                             /\ At(deadlineRV, v) = transactions[j].epoch + v.delta
      BY <1>3, <2>2 DEF DeadlinesInv
    <3>2. At(deadlineRV', v) = At(deadlineRV, v)
      BY <1>4, <2>2 DEF Timed
    <3> QED
      BY <1>1, <1>6, <3>1, <3>2
  <2> QED
    BY <2>1, <2>2
<1>8. ASSUME NEW i \in Steps', transactions'[i].kind = "recall"
      PROVE  \E j \in 1..(i - 1) : \E v \in transactions'[i].inputs :
               /\ transactions'[j].kind = "transfer"
               /\ v \in transactions'[j].outputs
               /\ transactions'[i].epoch < transactions'[j].epoch + v.delta
  <2>1. CASE i \in Steps
    <3>1. transactions[i].kind = "recall"
      BY <1>1, <1>8, <2>1
    <3>2. PICK j \in 1..(i - 1), v \in transactions[i].inputs :
            /\ transactions[j].kind = "transfer"
            /\ v \in transactions[j].outputs
            /\ transactions[i].epoch < transactions[j].epoch + v.delta
      BY <2>1, <3>1 DEF DeadlinesInv, RecallsBeforeDeadline, Steps
    <3>3. j \in Steps
      BY <1>6, <2>1
    <3>4. transactions'[i] = transactions[i] /\ transactions'[j] = transactions[j]
      BY <1>1, <2>1, <3>3
    <3> QED
      BY <3>2, <3>4
  <2>2. CASE i = n
    <3>1. PICK v \in inVouchers : epoch < At(deadlineRV, v)
      BY <1>1, <1>4, <1>8, <2>2 DEF Timed
    <3>2. PICK j \in Steps : /\ transactions[j].kind = "transfer"
                             /\ v \in transactions[j].outputs
                             /\ At(deadlineRV, v) = transactions[j].epoch + v.delta
      BY <1>3 DEF DeadlinesInv
    <3>3. j \in 1..(i - 1) /\ transactions'[j] = transactions[j]
      BY <1>1, <2>2
    <3>4. v \in transactions'[i].inputs /\ transactions'[i].epoch = epoch
      BY <1>1, <1>2, <2>2
    <3>5. transactions'[i].epoch < transactions'[j].epoch + v.delta
      BY <3>1, <3>2, <3>3, <3>4
    <3> QED
      BY <3>2, <3>3, <3>4, <3>5
  <2> QED
    BY <1>5, <2>1, <2>2
<1>9. RecallsBeforeDeadline'
  BY <1>8 DEF RecallsBeforeDeadline, Steps
<1> QED
  BY <1>7, <1>9 DEF DeadlinesInv

\* A shipment returns to its sender only in an epoch before the one its transfer
\* announced, whatever the sender chose and whatever happened in between.
THEOREM EpochRecallsInTime == EpochSpec => []RecallsBeforeDeadline
<1>1. EpochInit => DeadlinesInv
  <2> SUFFICES ASSUME EpochInit PROVE DeadlinesInv
    OBVIOUS
  <2>1. vouchers = {} /\ DOMAIN transactions = {}
    BY DEF EpochInit
  <2> QED
    BY <2>1 DEF DeadlinesInv, RecallsBeforeDeadline
<1>2. ASSUME EpochInv, DeadlinesInv, [EpochNext]_epochVars
      PROVE  DeadlinesInv'
  <2>1. CASE Untouched
    BY <1>2, <2>1 DEF Untouched, DeadlinesInv, RecallsBeforeDeadline, Steps
  <2>2. CASE Moved
    <3>1. PICK kind, inNotes, inVouchers, outNotes, outVouchers :
            Moves(kind, inNotes, inVouchers, outNotes, outVouchers)
      BY <2>2 DEF Moved
    <3> QED
      BY <1>2, <3>1, MoveKeepsDeadlines
  <2> QED
    BY <1>2, <2>1, <2>2, EpochSteps
<1>3. DeadlinesInv => RecallsBeforeDeadline
  BY DEF DeadlinesInv
<1> QED
  BY <1>1, <1>2, <1>3, EpochInvariant, PTL DEF EpochSpec

-----------------------------------------------------------------------------
\* The vouchers fit in their tree.
RoomInv == Cardinality(vouchers) <= TreeCapacity

LEMMA MoveFits ==
  ASSUME EpochInv, NEW kind, NEW inNotes, NEW inVouchers, NEW outNotes, NEW outVouchers,
         Moves(kind, inNotes, inVouchers, outNotes, outVouchers)
  PROVE  RoomInv'
<1>1. /\ outVouchers \cap vouchers = {} /\ vouchers' = vouchers \cup outVouchers
      /\ Cardinality(vouchers) + Cardinality(outVouchers) <= TreeCapacity
      /\ IsFiniteSet(outVouchers)
  BY DEF Moves, Accept, Acceptable
<1>2. IsFiniteSet(vouchers)
  BY DEF EpochInv
<1>3. Cardinality(vouchers')
        = Cardinality(vouchers) + Cardinality(outVouchers) - Cardinality({})
  BY <1>1, <1>2, FS_Union
<1> QED
  BY <1>1, <1>2, <1>3, FS_EmptySet, FS_CardinalityType DEF RoomInv

\* A live voucher can be proceeded with a fresh opening: its nullifier is not
\* recorded, and its own tree need not have room for another.
LEMMA LiveVoucherProceeds ==
  ASSUME EpochInv, RoomInv, NEW v \in vouchers \cap Live,
         NEW m \in ResolveOutputs(v, v.receiver) \ commitments,
         Cardinality(commitments) < TreeCapacity, Len(transactions) < MaxTransactions
  PROVE  m \in ProceedOutputs(v)
<1>1. VoucherNullifier(v) \notin voucherNullifiers
  <2>1. v \notin commitments
    BY KindsDiffer DEF EpochInv
  <2> QED
    BY <2>1 DEF Live
<1>2. Unspent({}, {v})
  BY <1>1 DEF Unspent
<1>3. IsInjective(<<m>>) /\ Range(<<m>>) = {m} /\ Len(<<m>>) = 1
  BY DEF IsInjective, Range
<1>4. /\ Cardinality({}) = 0 /\ Cardinality(vouchers) \in Nat
      /\ Cardinality(commitments) \in Nat
  BY FS_EmptySet, FS_CardinalityType DEF EpochInv
<1>5. /\ Cardinality(commitments) + Len(<<m>>) <= TreeCapacity
      /\ Cardinality(vouchers) + Cardinality({}) <= TreeCapacity
  BY <1>3, <1>4, EpochAssumption DEF RoomInv
<1>6. Acceptable({}, {v}, <<m>>, {})
  BY <1>2, <1>3, <1>5 DEF Acceptable
<1> QED
  BY <1>6 DEF ProceedOutputs

\* A shipment returns to its sender only before its deadline, and until then and
\* ever after its receiver can take it: nothing that others do strands it.
THEOREM EpochShipmentsResolve == EpochSpec => []ShipmentsResolve
<1>1. EpochInit => RoomInv
  BY FS_EmptySet, EpochAssumption DEF EpochInit, RoomInv
<1>2. ASSUME EpochInv, RoomInv, [EpochNext]_epochVars
      PROVE  RoomInv'
  <2>1. CASE Untouched
    BY <1>2, <2>1 DEF Untouched, RoomInv
  <2>2. CASE Moved
    BY <1>2, <2>2, MoveFits DEF Moved
  <2> QED
    BY <1>2, <2>1, <2>2, EpochSteps
<1>3. ASSUME EpochInv, RoomInv, RecallsBeforeDeadline
      PROVE  ShipmentsResolve
  BY <1>3, LiveVoucherProceeds DEF ShipmentsResolve
<1> QED
  BY <1>1, <1>2, <1>3, EpochInvariant, EpochRecallsInTime, PTL DEF EpochSpec

-----------------------------------------------------------------------------
(* Whichever ledger is deployed. *)

LEMMA EpochBehaves == Spec => EpochSpec
<1>1. Init => EpochInit
  BY DEF Init
<1>2. [Next]_vars => [EpochNext]_epochVars
  BY DEF Next, vars, epochVars
<1> QED
  BY <1>1, <1>2, PTL DEF Spec, EpochSpec

\* Where the epoch ledger is deployed, and trivially elsewhere: it implements
\* AssetFlow, keeps the third state, and no shipment of it is stranded.
THEOREM EarlierEpoch ==
  Spec => EpochImplementsFlow /\ []ThirdStateExact /\ []ShipmentsResolve
BY EpochBehaves, EpochImplements, EpochThirdState, EpochShipmentsResolve

-----------------------------------------------------------------------------
(* The theorems about the other ledgers, of their modules, hold for these    *)
(* instances of them.  StatusP is Status, ClaimP is Claim and SahaiP is      *)
(* Sahai: an instance of the proofs defines everything over again, which the *)
(* Same lemmas identify by expanding it.                                     *)

StatusP == INSTANCE StatusLedgerProofs WITH
  Openings          <- LotOpenings,
  EntryNotes        <- StatusEntryNotes,
  MaxTransactions   <- MaxStatusTransactions,
  epoch             <- statusEpoch,
  noteNullifiers    <- statusNoteNfs,
  voucherNullifiers <- statusVoucherNfs,
  transactions      <- statusTransactions

ClaimP == INSTANCE ClaimProofs WITH
  Openings   <- LotOpenings,
  EntryNotes <- ClaimEntryNotes,
  \* The audits, which ClaimProofs is about too, have nothing to do here.
  MaxGoods <- 0, MaxDPPs <- 0, Starts <- {}, MaxBlocks <- 0, MaxReorgs <- 0,
  chain <- <<>>, forks <- {}, hashes <- 0, reorgs <- 0, cameBack <- FALSE, pc <- "idle", snap <- <<>>, start <- 0,
  claimIds <- <<>>, queue <- <<>>, seen <- {}, expanded <- {}, ends <- {},
  snapHistory <- <<>>

SahaiP == INSTANCE FlowProofs WITH
  Documents <- SahaiDocuments,
  Objects   <- Sahai!Storable,
  Spendable <- Sahai!Consumable,
  events    <- Sahai!Events,
  blocked   <- {},
  revoked   <- {}

-----------------------------------------------------------------------------
LEMMA StatusSame ==
  /\ Status!StatusInit <=> StatusP!StatusInit
  /\ [Status!StatusNext]_(Status!statusVars) <=> [StatusP!StatusNext]_(StatusP!statusVars)
  /\ Status!RecallsAreInTime <=> StatusP!RecallsAreInTime
  BY DEF Status!statusVars, StatusP!statusVars, Status!trees, StatusP!trees,
    Status!statuses, StatusP!statuses, Status!Roles, StatusP!Roles, Status!Notes,
    StatusP!Notes, Status!Vouchers, StatusP!Vouchers, Status!Note, StatusP!Note,
    Status!Nullifier, StatusP!Nullifier, Status!VoucherNullifier,
    StatusP!VoucherNullifier, Status!ActiveAt, StatusP!ActiveAt,
    Status!ActiveLeaves, StatusP!ActiveLeaves, Status!StatusAt, StatusP!StatusAt,
    Status!WithStatus, StatusP!WithStatus, Status!AllowedStatus,
    StatusP!AllowedStatus, Status!StatusInit, StatusP!StatusInit, Status!Accept,
    StatusP!Accept, Status!NextEpoch, StatusP!NextEpoch, Status!Entry,
    StatusP!Entry, Status!Exit, StatusP!Exit, Status!Transfer, StatusP!Transfer,
    Status!Proceed, StatusP!Proceed, Status!Recall, StatusP!Recall, Status!Merge,
    StatusP!Merge, Status!Split, StatusP!Split, Status!Process, StatusP!Process,
    Status!UpdateNoteStatus, StatusP!UpdateNoteStatus, Status!UpdateVoucherStatus,
    StatusP!UpdateVoucherStatus, Status!SetGranted, StatusP!SetGranted,
    Status!StatusNext, StatusP!StatusNext, Status!Spent, StatusP!Spent,
    Status!Marked, StatusP!Marked, Status!Held, StatusP!Held, Status!Objects,
    StatusP!Objects, Status!Events, StatusP!Events, Status!RecallsAreInTime,
    StatusP!RecallsAreInTime, Status!Range, StatusP!Range, Status!IsInjective,
    StatusP!IsInjective, Status!Max, StatusP!Max, Status!Cardinality,
    StatusP!Cardinality, Status!IsFiniteSet, StatusP!IsFiniteSet

LEMMA StatusFlowSame ==
  /\ Status!StatusFlow!Init <=> StatusP!StatusFlow!Init
  /\ [Status!StatusFlow!Next]_(Status!StatusFlow!flowVars)
       <=> [StatusP!StatusFlow!Next]_(StatusP!StatusFlow!flowVars)
  BY DEF Status!statusVars, StatusP!statusVars, Status!trees, StatusP!trees,
    Status!statuses, StatusP!statuses, Status!Roles, StatusP!Roles, Status!Notes,
    StatusP!Notes, Status!Vouchers, StatusP!Vouchers, Status!Note, StatusP!Note,
    Status!Nullifier, StatusP!Nullifier, Status!VoucherNullifier,
    StatusP!VoucherNullifier, Status!ActiveAt, StatusP!ActiveAt,
    Status!ActiveLeaves, StatusP!ActiveLeaves, Status!StatusAt, StatusP!StatusAt,
    Status!WithStatus, StatusP!WithStatus, Status!AllowedStatus,
    StatusP!AllowedStatus, Status!StatusInit, StatusP!StatusInit, Status!Accept,
    StatusP!Accept, Status!NextEpoch, StatusP!NextEpoch, Status!Entry,
    StatusP!Entry, Status!Exit, StatusP!Exit, Status!Transfer, StatusP!Transfer,
    Status!Proceed, StatusP!Proceed, Status!Recall, StatusP!Recall, Status!Merge,
    StatusP!Merge, Status!Split, StatusP!Split, Status!Process, StatusP!Process,
    Status!UpdateNoteStatus, StatusP!UpdateNoteStatus, Status!UpdateVoucherStatus,
    StatusP!UpdateVoucherStatus, Status!SetGranted, StatusP!SetGranted,
    Status!StatusNext, StatusP!StatusNext, Status!Spent, StatusP!Spent,
    Status!Marked, StatusP!Marked, Status!Held, StatusP!Held, Status!Objects,
    StatusP!Objects, Status!Events, StatusP!Events, Status!RecallsAreInTime,
    StatusP!RecallsAreInTime, Status!Range, StatusP!Range, Status!IsInjective,
    StatusP!IsInjective, Status!Max, StatusP!Max, Status!Cardinality,
    StatusP!Cardinality, Status!IsFiniteSet, StatusP!IsFiniteSet,
    Status!StatusFlow!Acceptable, StatusP!StatusFlow!Acceptable,
    Status!StatusFlow!Init, StatusP!StatusFlow!Init, Status!StatusFlow!Record,
    StatusP!StatusFlow!Record, Status!StatusFlow!Block, StatusP!StatusFlow!Block,
    Status!StatusFlow!Release, StatusP!StatusFlow!Release,
    Status!StatusFlow!Revoke, StatusP!StatusFlow!Revoke, Status!StatusFlow!Next,
    StatusP!StatusFlow!Next, Status!StatusFlow!flowVars,
    StatusP!StatusFlow!flowVars, Status!StatusFlow!Created,
    StatusP!StatusFlow!Created, Status!StatusFlow!Consumed,
    StatusP!StatusFlow!Consumed, Status!StatusFlow!LiveIn,
    StatusP!StatusFlow!LiveIn, Status!StatusFlow!Last, StatusP!StatusFlow!Last

LEMMA StatusBehaves == Spec => StatusP!StatusSpec
<1>1. Init => Status!StatusInit
  BY DEF Init
<1>2. [Next]_vars => [Status!StatusNext]_(Status!statusVars)
  BY DEF Next, vars, statusVars, Status!statusVars
<1> QED
  BY <1>1, <1>2, StatusSame, PTL DEF Spec, StatusP!StatusSpec

\* The status ledger accepts no recall at or after the deadline of the voucher that
\* is recalled (StatusRecalls).
THEOREM EarlierRecalls == Spec => []RecallsAreInTime
BY StatusBehaves, StatusP!StatusRecalls, StatusSame, PTL DEF RecallsAreInTime

\* Two status roots and two nullifier sets implement AssetFlow (StatusImplements).
THEOREM EarlierStatusImplements == Spec => StatusImplementsFlow
BY StatusBehaves, StatusP!StatusImplements, StatusFlowSame, PTL
  DEF StatusImplementsFlow, Status!StatusImplementsFlow, StatusP!StatusImplementsFlow,
      Status!StatusFlow!Spec, StatusP!StatusFlow!Spec

-----------------------------------------------------------------------------
LEMMA ClaimSame ==
  /\ Claim!ClaimInit <=> ClaimP!ClaimInit
  /\ [Claim!ClaimNext]_(Claim!claimVars) <=> [ClaimP!ClaimNext]_(ClaimP!claimVars)
  /\ Claim!ClaimsStand <=> ClaimP!ClaimsStand
  BY DEF Claim!claimVars, ClaimP!claimVars, Claim!ACTIVE, ClaimP!ACTIVE,
    Claim!FROZEN, ClaimP!FROZEN, Claim!REVOKED, ClaimP!REVOKED, Claim!WASTE,
    ClaimP!WASTE, Claim!Notes, ClaimP!Notes, Claim!Vouchers, ClaimP!Vouchers,
    Claim!DPPs, ClaimP!DPPs, Claim!Spendable, ClaimP!Spendable, Claim!Objects,
    ClaimP!Objects, Claim!Policies, ClaimP!Policies, Claim!Claims, ClaimP!Claims,
    Claim!Note, ClaimP!Note, Claim!Nullifier, ClaimP!Nullifier,
    Claim!VoucherNullifier, ClaimP!VoucherNullifier, Claim!NullifierOf,
    ClaimP!NullifierOf, Claim!SameRole, ClaimP!SameRole, Claim!NotesHeld,
    ClaimP!NotesHeld, Claim!VouchersHeld, ClaimP!VouchersHeld, Claim!Active,
    ClaimP!Active, Claim!ClaimInit, ClaimP!ClaimInit, Claim!Complete,
    ClaimP!Complete, Claim!Entry, ClaimP!Entry, Claim!Transfer, ClaimP!Transfer,
    Claim!Proceed, ClaimP!Proceed, Claim!Recall, ClaimP!Recall, Claim!Merge,
    ClaimP!Merge, Claim!Split, ClaimP!Split, Claim!Process, ClaimP!Process,
    Claim!Exit, ClaimP!Exit, Claim!Issuable, ClaimP!Issuable, Claim!Issue,
    ClaimP!Issue, Claim!StatusChange, ClaimP!StatusChange, Claim!SetStatus,
    ClaimP!SetStatus, Claim!SetClaimStatus, ClaimP!SetClaimStatus,
    Claim!SetEnabled, ClaimP!SetEnabled, Claim!ClaimNext, ClaimP!ClaimNext,
    Claim!SpentBy, ClaimP!SpentBy, Claim!Held, ClaimP!Held, Claim!Events,
    ClaimP!Events, Claim!ClaimsStand, ClaimP!ClaimsStand, Claim!Range,
    ClaimP!Range, Claim!IsInjective, ClaimP!IsInjective, Claim!Cardinality,
    ClaimP!Cardinality, Claim!IsFiniteSet, ClaimP!IsFiniteSet, Claim!At,
    ClaimP!At, Claim!Put, ClaimP!Put, Claim!EmptyMapping, ClaimP!EmptyMapping

LEMMA ClaimFlowSame ==
  /\ Claim!ClaimFlow!Init <=> ClaimP!ClaimFlow!Init
  /\ [Claim!ClaimFlow!Next]_(Claim!ClaimFlow!flowVars)
       <=> [ClaimP!ClaimFlow!Next]_(ClaimP!ClaimFlow!flowVars)
  BY DEF Claim!claimVars, ClaimP!claimVars, Claim!ACTIVE, ClaimP!ACTIVE,
    Claim!FROZEN, ClaimP!FROZEN, Claim!REVOKED, ClaimP!REVOKED, Claim!WASTE,
    ClaimP!WASTE, Claim!Notes, ClaimP!Notes, Claim!Vouchers, ClaimP!Vouchers,
    Claim!DPPs, ClaimP!DPPs, Claim!Spendable, ClaimP!Spendable, Claim!Objects,
    ClaimP!Objects, Claim!Policies, ClaimP!Policies, Claim!Claims, ClaimP!Claims,
    Claim!Note, ClaimP!Note, Claim!Nullifier, ClaimP!Nullifier,
    Claim!VoucherNullifier, ClaimP!VoucherNullifier, Claim!NullifierOf,
    ClaimP!NullifierOf, Claim!SameRole, ClaimP!SameRole, Claim!NotesHeld,
    ClaimP!NotesHeld, Claim!VouchersHeld, ClaimP!VouchersHeld, Claim!Active,
    ClaimP!Active, Claim!ClaimInit, ClaimP!ClaimInit, Claim!Complete,
    ClaimP!Complete, Claim!Entry, ClaimP!Entry, Claim!Transfer, ClaimP!Transfer,
    Claim!Proceed, ClaimP!Proceed, Claim!Recall, ClaimP!Recall, Claim!Merge,
    ClaimP!Merge, Claim!Split, ClaimP!Split, Claim!Process, ClaimP!Process,
    Claim!Exit, ClaimP!Exit, Claim!Issuable, ClaimP!Issuable, Claim!Issue,
    ClaimP!Issue, Claim!StatusChange, ClaimP!StatusChange, Claim!SetStatus,
    ClaimP!SetStatus, Claim!SetClaimStatus, ClaimP!SetClaimStatus,
    Claim!SetEnabled, ClaimP!SetEnabled, Claim!ClaimNext, ClaimP!ClaimNext,
    Claim!SpentBy, ClaimP!SpentBy, Claim!Held, ClaimP!Held, Claim!Events,
    ClaimP!Events, Claim!ClaimsStand, ClaimP!ClaimsStand, Claim!Range,
    ClaimP!Range, Claim!IsInjective, ClaimP!IsInjective, Claim!Cardinality,
    ClaimP!Cardinality, Claim!IsFiniteSet, ClaimP!IsFiniteSet, Claim!At,
    ClaimP!At, Claim!Put, ClaimP!Put, Claim!EmptyMapping, ClaimP!EmptyMapping,
    Claim!ClaimFlow!Acceptable, ClaimP!ClaimFlow!Acceptable, Claim!ClaimFlow!Init,
    ClaimP!ClaimFlow!Init, Claim!ClaimFlow!Record, ClaimP!ClaimFlow!Record,
    Claim!ClaimFlow!Block, ClaimP!ClaimFlow!Block, Claim!ClaimFlow!Release,
    ClaimP!ClaimFlow!Release, Claim!ClaimFlow!Revoke, ClaimP!ClaimFlow!Revoke,
    Claim!ClaimFlow!Next, ClaimP!ClaimFlow!Next, Claim!ClaimFlow!flowVars,
    ClaimP!ClaimFlow!flowVars, Claim!ClaimFlow!Created, ClaimP!ClaimFlow!Created,
    Claim!ClaimFlow!Consumed, ClaimP!ClaimFlow!Consumed, Claim!ClaimFlow!LiveIn,
    ClaimP!ClaimFlow!LiveIn, Claim!ClaimFlow!Last, ClaimP!ClaimFlow!Last

LEMMA ClaimBehaves == Spec => ClaimP!ClaimSpec
<1>1. Init => Claim!ClaimInit
  BY DEF Init
<1>2. [Next]_vars => [Claim!ClaimNext]_(Claim!claimVars)
  BY DEF Next, vars, claimVars, Claim!claimVars
<1> QED
  BY <1>1, <1>2, ClaimSame, PTL DEF Spec, ClaimP!ClaimSpec

\* Every claim stands on its one issue record and an exit (ClaimsHaveGround).
THEOREM EarlierClaims == Spec => []ClaimsStand
<1>1. ClaimP!ClaimSpec => []ClaimP!ClaimsStand
  <2>1. 0 \in Nat /\ \A first \in {} : ClaimP!RecordedChain(first)
    OBVIOUS
  <2> QED
    BY <2>1, ClaimP!ClaimsHaveGround
<1> QED
  BY <1>1, ClaimBehaves, ClaimSame, PTL DEF ClaimsStand

\* Spent and status by nullifier implement AssetFlow (ClaimImplements).
THEOREM EarlierClaimImplements == Spec => ClaimImplementsFlow
<1>1. ClaimP!ClaimSpec => ClaimP!ClaimImplementsFlow
  <2>1. 0 \in Nat /\ \A first \in {} : ClaimP!RecordedChain(first)
    OBVIOUS
  <2> QED
    BY <2>1, ClaimP!ClaimImplements
<1> QED
  BY <1>1, ClaimBehaves, ClaimFlowSame, PTL
  DEF ClaimImplementsFlow, Claim!ClaimImplementsFlow, ClaimP!ClaimImplementsFlow,
      Claim!ClaimFlow!Spec, ClaimP!ClaimFlow!Spec

-----------------------------------------------------------------------------
LEMMA SahaiSame ==
  /\ Sahai!SahaiInit <=> SahaiP!SahaiInit
  /\ [Sahai!SahaiNext]_(Sahai!sahaiVars) <=> [SahaiP!SahaiNext]_(SahaiP!sahaiVars)
  /\ Sahai!InDocsAreHistory <=> SahaiP!InDocsAreHistory
  BY DEF Sahai!sahaiVars, SahaiP!sahaiVars, Sahai!DocHash, SahaiP!DocHash,
    Sahai!Ids, SahaiP!Ids, Sahai!VerifySelf, SahaiP!VerifySelf, Sahai!VerifyShip,
    SahaiP!VerifyShip, Sahai!VerifyCombine, SahaiP!VerifyCombine,
    Sahai!VerifySplit, SahaiP!VerifySplit, Sahai!SahaiInit, SahaiP!SahaiInit,
    Sahai!RegisterParticipant, SahaiP!RegisterParticipant, Sahai!Loadable,
    SahaiP!Loadable, Sahai!Transition, SahaiP!Transition, Sahai!Entry,
    SahaiP!Entry, Sahai!Ship, SahaiP!Ship, Sahai!Combine, SahaiP!Combine,
    Sahai!Split, SahaiP!Split, Sahai!Exit, SahaiP!Exit, Sahai!SahaiNext,
    SahaiP!SahaiNext, Sahai!Stored, SahaiP!Stored, Sahai!Storable,
    SahaiP!Storable, Sahai!Consumable, SahaiP!Consumable, Sahai!OutputIds,
    SahaiP!OutputIds, Sahai!LoadedBy, SahaiP!LoadedBy, Sahai!StoredBy,
    SahaiP!StoredBy, Sahai!Events, SahaiP!Events, Sahai!InDocsAreHistory,
    SahaiP!InDocsAreHistory, Sahai!Cardinality, SahaiP!Cardinality,
    Sahai!IsFiniteSet, SahaiP!IsFiniteSet, Sahai!Range, SahaiP!Range

LEMMA SahaiFlowSame ==
  /\ Sahai!SahaiFlow!Init <=> SahaiP!SahaiFlow!Init
  /\ [Sahai!SahaiFlow!Next]_(Sahai!SahaiFlow!flowVars)
       <=> [SahaiP!SahaiFlow!Next]_(SahaiP!SahaiFlow!flowVars)
  BY DEF Sahai!sahaiVars, SahaiP!sahaiVars, Sahai!DocHash, SahaiP!DocHash,
    Sahai!Ids, SahaiP!Ids, Sahai!VerifySelf, SahaiP!VerifySelf, Sahai!VerifyShip,
    SahaiP!VerifyShip, Sahai!VerifyCombine, SahaiP!VerifyCombine,
    Sahai!VerifySplit, SahaiP!VerifySplit, Sahai!SahaiInit, SahaiP!SahaiInit,
    Sahai!RegisterParticipant, SahaiP!RegisterParticipant, Sahai!Loadable,
    SahaiP!Loadable, Sahai!Transition, SahaiP!Transition, Sahai!Entry,
    SahaiP!Entry, Sahai!Ship, SahaiP!Ship, Sahai!Combine, SahaiP!Combine,
    Sahai!Split, SahaiP!Split, Sahai!Exit, SahaiP!Exit, Sahai!SahaiNext,
    SahaiP!SahaiNext, Sahai!Stored, SahaiP!Stored, Sahai!Storable,
    SahaiP!Storable, Sahai!Consumable, SahaiP!Consumable, Sahai!OutputIds,
    SahaiP!OutputIds, Sahai!LoadedBy, SahaiP!LoadedBy, Sahai!StoredBy,
    SahaiP!StoredBy, Sahai!Events, SahaiP!Events, Sahai!InDocsAreHistory,
    SahaiP!InDocsAreHistory, Sahai!Cardinality, SahaiP!Cardinality,
    Sahai!IsFiniteSet, SahaiP!IsFiniteSet, Sahai!Range, SahaiP!Range,
    Sahai!SahaiFlow!Acceptable, SahaiP!SahaiFlow!Acceptable, Sahai!SahaiFlow!Init,
    SahaiP!SahaiFlow!Init, Sahai!SahaiFlow!Record, SahaiP!SahaiFlow!Record,
    Sahai!SahaiFlow!Block, SahaiP!SahaiFlow!Block, Sahai!SahaiFlow!Release,
    SahaiP!SahaiFlow!Release, Sahai!SahaiFlow!Revoke, SahaiP!SahaiFlow!Revoke,
    Sahai!SahaiFlow!Next, SahaiP!SahaiFlow!Next, Sahai!SahaiFlow!flowVars,
    SahaiP!SahaiFlow!flowVars, Sahai!SahaiFlow!Created, SahaiP!SahaiFlow!Created,
    Sahai!SahaiFlow!Consumed, SahaiP!SahaiFlow!Consumed, Sahai!SahaiFlow!LiveIn,
    SahaiP!SahaiFlow!LiveIn, Sahai!SahaiFlow!Last, SahaiP!SahaiFlow!Last

LEMMA SahaiBehaves == Spec => SahaiP!SahaiSpec
<1>1. Init => Sahai!SahaiInit
  BY DEF Init
<1>2. [Next]_vars => [Sahai!SahaiNext]_(Sahai!sahaiVars)
  BY DEF Next, vars, sahaiVars, Sahai!sahaiVars
<1> QED
  BY <1>1, <1>2, SahaiSame, PTL DEF Spec, SahaiP!SahaiSpec

\* The InDocs on the comparison ledger are its history (SahaiProvenance).
THEOREM EarlierProvenance == Spec => []InDocsAreHistory
BY SahaiBehaves, SahaiP!SahaiProvenance, SahaiSame, PTL DEF InDocsAreHistory

\* The flags of the documents implement AssetFlow (SahaiImplements).
THEOREM EarlierSahaiImplements == Spec => SahaiImplementsFlow
BY SahaiBehaves, SahaiP!SahaiImplements, SahaiFlowSame, PTL
  DEF SahaiImplementsFlow, Sahai!SahaiImplementsFlow, SahaiP!SahaiImplementsFlow,
      Sahai!SahaiFlow!Spec, SahaiP!SahaiFlow!Spec

-----------------------------------------------------------------------------
(* What AssetFlow promises (FlowProofs), of each ledger.                     *)

EpochF == INSTANCE FlowProofs WITH
  Spendable <- Objects,
  events    <- Events,
  blocked   <- {},
  revoked   <- {}

StatusF == INSTANCE FlowProofs WITH
  Objects   <- Status!Objects,
  Spendable <- Status!Objects,
  events    <- Status!Events,
  blocked   <- Status!Held({"FROZEN", "REVOKED"}),
  revoked   <- Status!Held({"REVOKED"})

ClaimF == INSTANCE FlowProofs WITH
  Objects   <- Claim!Objects,
  Spendable <- Claim!Spendable,
  events    <- Claim!Events,
  blocked   <- Claim!Held({Claim!FROZEN, Claim!REVOKED}),
  revoked   <- Claim!Held({Claim!REVOKED})

LEMMA EpochKeeps == EpochFlow!Spec => []EpochFlow!Sound /\ EpochFlow!Lasting
<1>1. /\ EpochFlow!Init <=> EpochF!Init
      /\ [EpochFlow!Next]_(EpochFlow!flowVars) <=> [EpochF!Next]_(EpochF!flowVars)
      /\ EpochFlow!Sound <=> EpochF!Sound
  BY DEF EpochFlow!Init, EpochF!Init, EpochFlow!Next, EpochF!Next,
    EpochFlow!flowVars, EpochF!flowVars, EpochFlow!Sound, EpochF!Sound,
    EpochFlow!Record, EpochF!Record, EpochFlow!Block, EpochF!Block,
    EpochFlow!Release, EpochF!Release, EpochFlow!Revoke, EpochF!Revoke,
    EpochFlow!Acceptable, EpochF!Acceptable, EpochFlow!Last, EpochF!Last,
    EpochFlow!LiveIn, EpochF!LiveIn, EpochFlow!Created, EpochF!Created,
    EpochFlow!Consumed, EpochF!Consumed, EpochFlow!Causal, EpochF!Causal
<1>2. EpochF!Spec => []EpochF!Sound /\ EpochF!Lasting
  BY EpochF!FlowIsSound
<1> QED
  BY <1>1, <1>2, PTL
  DEF EpochFlow!Spec, EpochF!Spec, EpochFlow!Lasting, EpochF!Lasting,
    EpochFlow!flowVars, EpochF!flowVars

LEMMA StatusKeeps == Status!StatusFlow!Spec => []Status!StatusFlow!Sound /\ Status!StatusFlow!Lasting
<1>1. /\ Status!StatusFlow!Init <=> StatusF!Init
      /\ [Status!StatusFlow!Next]_(Status!StatusFlow!flowVars) <=> [StatusF!Next]_(StatusF!flowVars)
      /\ Status!StatusFlow!Sound <=> StatusF!Sound
  BY DEF Status!StatusFlow!Init, StatusF!Init, Status!StatusFlow!Next,
    StatusF!Next, Status!StatusFlow!flowVars, StatusF!flowVars,
    Status!StatusFlow!Sound, StatusF!Sound, Status!StatusFlow!Record,
    StatusF!Record, Status!StatusFlow!Block, StatusF!Block,
    Status!StatusFlow!Release, StatusF!Release, Status!StatusFlow!Revoke,
    StatusF!Revoke, Status!StatusFlow!Acceptable, StatusF!Acceptable,
    Status!StatusFlow!Last, StatusF!Last, Status!StatusFlow!LiveIn,
    StatusF!LiveIn, Status!StatusFlow!Created, StatusF!Created,
    Status!StatusFlow!Consumed, StatusF!Consumed, Status!StatusFlow!Causal,
    StatusF!Causal
<1>2. StatusF!Spec => []StatusF!Sound /\ StatusF!Lasting
  BY StatusF!FlowIsSound
<1> QED
  BY <1>1, <1>2, PTL
  DEF Status!StatusFlow!Spec, StatusF!Spec, Status!StatusFlow!Lasting,
    StatusF!Lasting, Status!StatusFlow!flowVars, StatusF!flowVars

LEMMA ClaimKeeps == Claim!ClaimFlow!Spec => []Claim!ClaimFlow!Sound /\ Claim!ClaimFlow!Lasting
<1>1. /\ Claim!ClaimFlow!Init <=> ClaimF!Init
      /\ [Claim!ClaimFlow!Next]_(Claim!ClaimFlow!flowVars) <=> [ClaimF!Next]_(ClaimF!flowVars)
      /\ Claim!ClaimFlow!Sound <=> ClaimF!Sound
  BY DEF Claim!ClaimFlow!Init, ClaimF!Init, Claim!ClaimFlow!Next, ClaimF!Next,
    Claim!ClaimFlow!flowVars, ClaimF!flowVars, Claim!ClaimFlow!Sound,
    ClaimF!Sound, Claim!ClaimFlow!Record, ClaimF!Record, Claim!ClaimFlow!Block,
    ClaimF!Block, Claim!ClaimFlow!Release, ClaimF!Release, Claim!ClaimFlow!Revoke,
    ClaimF!Revoke, Claim!ClaimFlow!Acceptable, ClaimF!Acceptable,
    Claim!ClaimFlow!Last, ClaimF!Last, Claim!ClaimFlow!LiveIn, ClaimF!LiveIn,
    Claim!ClaimFlow!Created, ClaimF!Created, Claim!ClaimFlow!Consumed,
    ClaimF!Consumed, Claim!ClaimFlow!Causal, ClaimF!Causal
<1>2. ClaimF!Spec => []ClaimF!Sound /\ ClaimF!Lasting
  BY ClaimF!FlowIsSound
<1> QED
  BY <1>1, <1>2, PTL
  DEF Claim!ClaimFlow!Spec, ClaimF!Spec, Claim!ClaimFlow!Lasting, ClaimF!Lasting,
    Claim!ClaimFlow!flowVars, ClaimF!flowVars

LEMMA SahaiKeeps == Sahai!SahaiFlow!Spec => []Sahai!SahaiFlow!Sound /\ Sahai!SahaiFlow!Lasting
<1>1. /\ Sahai!SahaiFlow!Init <=> SahaiP!Init
      /\ [Sahai!SahaiFlow!Next]_(Sahai!SahaiFlow!flowVars) <=> [SahaiP!Next]_(SahaiP!flowVars)
      /\ Sahai!SahaiFlow!Sound <=> SahaiP!Sound
  BY DEF Sahai!SahaiFlow!Init, SahaiP!Init, Sahai!SahaiFlow!Next, SahaiP!Next,
    Sahai!SahaiFlow!flowVars, SahaiP!flowVars, Sahai!SahaiFlow!Sound,
    SahaiP!Sound, Sahai!SahaiFlow!Record, SahaiP!Record, Sahai!SahaiFlow!Block,
    SahaiP!Block, Sahai!SahaiFlow!Release, SahaiP!Release, Sahai!SahaiFlow!Revoke,
    SahaiP!Revoke, Sahai!SahaiFlow!Acceptable, SahaiP!Acceptable,
    Sahai!SahaiFlow!Last, SahaiP!Last, Sahai!SahaiFlow!LiveIn, SahaiP!LiveIn,
    Sahai!SahaiFlow!Created, SahaiP!Created, Sahai!SahaiFlow!Consumed,
    SahaiP!Consumed, Sahai!SahaiFlow!Causal, SahaiP!Causal
<1>2. SahaiP!Spec => []SahaiP!Sound /\ SahaiP!Lasting
  BY SahaiP!FlowIsSound
<1> QED
  BY <1>1, <1>2, PTL
  DEF Sahai!SahaiFlow!Spec, SahaiP!Spec, Sahai!SahaiFlow!Lasting, SahaiP!Lasting,
    Sahai!SahaiFlow!flowVars, SahaiP!flowVars

\* On whichever ledger is deployed nothing is consumed twice, before it exists or
\* while it is blocked, and no event or revocation is undone.
THEOREM EarlierSound ==
  Spec => /\ []EpochFlow!Sound /\ EpochFlow!Lasting
          /\ []Status!StatusFlow!Sound /\ Status!StatusFlow!Lasting
          /\ []Claim!ClaimFlow!Sound /\ Claim!ClaimFlow!Lasting
          /\ []Sahai!SahaiFlow!Sound /\ Sahai!SahaiFlow!Lasting
<1>1. Spec => EpochFlow!Spec
  BY EarlierEpoch DEF EpochImplementsFlow
<1>2. Spec => Status!StatusFlow!Spec
  BY EarlierStatusImplements DEF StatusImplementsFlow, Status!StatusImplementsFlow
<1>3. Spec => Claim!ClaimFlow!Spec
  BY EarlierClaimImplements DEF ClaimImplementsFlow, Claim!ClaimImplementsFlow
<1>4. Spec => Sahai!SahaiFlow!Spec
  BY EarlierSahaiImplements DEF SahaiImplementsFlow, Sahai!SahaiImplementsFlow
<1> QED
  BY <1>1, <1>2, <1>3, <1>4, EpochKeeps, StatusKeeps, ClaimKeeps, SahaiKeeps
=============================================================================
