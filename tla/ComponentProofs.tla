--------------------------- MODULE ComponentProofs ---------------------------
(***************************************************************************)
(* The parts the ledgers rest on: a proof of a circuit has the outputs the *)
(* Go code computes, for any amounts and rates; two shares of the audit    *)
(* key recover it and its records can be read, for any group and any       *)
(* committees; the commitment trees and the sparse tree of statuses are    *)
(* the complete trees over their leaves, for any depth.                    *)
(***************************************************************************)
EXTENDS Circuits, KeyCommittee, MerkleTree, StatusTree, FlowHistory

-----------------------------------------------------------------------------
(* The circuits. *)

LEMMA QuotientIs ==
  ASSUME NEW i \in Int, NEW d \in Nat, NEW q \in Int, NEW r \in 0..d - 1, i = d * q + r
  PROVE  i \div d = q /\ i % d = r
<1>1. d \in Nat \ {0}
  OBVIOUS
<1> QED
  BY <1>1

LEMMA DivisionOf ==
  ASSUME NEW i \in Nat, NEW d \in Nat, d >= 1
  PROVE  /\ i \div d \in Nat
         /\ i % d \in 0..d - 1
         /\ i = d * (i \div d) + (i % d)
OBVIOUS

\* The floor constraints determine the quotient.
LEMMA FloorIsUnique ==
  ASSUME NEW value \in Int, NEW numerator \in Int, NEW divisor \in Nat,
         NEW quotient \in Int, IsFloor(value, numerator, divisor, quotient)
  PROVE  quotient = MulDiv(value, numerator, divisor)
<1> DEFINE product == value * numerator
<1>1. /\ 0 <= product - divisor * quotient
      /\ product - divisor * quotient < divisor
      /\ product \in Int
  BY AllocationAssumption DEF IsFloor, Amount
<1> HIDE DEF product
<1>2. divisor \in Nat \ {0}
  BY <1>1
<1>3. quotient = product \div divisor
  BY <1>1, <1>2
<1> QED
  BY <1>3 DEF MulDiv, product

\* Fields of states and outputs of the rates.
LEMMA StateFields ==
  /\ \A s \in ValidStates \cup WasteStates :
       /\ s.q \in Nat /\ s.a \in Nat /\ s.e \in Nat
       /\ s.q \in Amount /\ s.a \in Amount /\ s.e \in Amount
       /\ s = [q |-> s.q, a |-> s.a, e |-> s.e]
  /\ \A s \in WasteStates : s.a = 0 /\ s.e = 0 /\ s \in ValidStates
  BY AllocationAssumption
  DEF ValidStates, WasteStates, StateAndRoleOK, State, Amount, ELIGIBLE, WASTE

\* What the circuits say of the second output is what ByMass computes.
LEMMA ShareIsByMass ==
  ASSUME NEW in \in ValidStates, NEW second \in ValidStates, NEW first \in Nat,
         in.q = first + second.q, FlooredShare(in, second)
  PROVE  /\ ByMass(in, first).second = second
         /\ ByMass(in, first).first
              = [q |-> first, a |-> in.a - second.a, e |-> in.e - second.e]
<1>1. second.a = MulDiv(in.a, second.q, in.q) /\ second.e = MulDiv(in.e, second.q, in.q)
  BY FloorIsUnique, StateFields DEF FlooredShare
<1>2. in.q - first = second.q
  BY StateFields
<1> QED
  BY <1>1, <1>2, StateFields DEF ByMass

\* A request names states that exist in the program.
RequestsTyped ==
  /\ request.event \in {"transfer", "split", "merge", "process"}
  /\ request.event \in {"transfer", "split"} =>
       request.inputs[1] \in ValidStates /\ request.q \in Nat /\ request.delta \in Nat
  /\ request.event = "merge" =>
       request.inputs[1] \in ValidStates /\ request.inputs[2] \in ValidStates
  /\ request.event = "process" => \A i \in 1..3 : request.inputs[i] \in ValidStates

CircuitsInv == RequestsTyped /\ OnlyNativeOutputs

\* One lemma per circuit: what is proved is what the Go code computes.
LEMMA TransferIsNative ==
  ASSUME RequestsTyped, OnlyNativeOutputs, ProveTransfer
  PROVE  OnlyNativeOutputs'
<1> DEFINE in == request.inputs[1]
           parts == ByMass(in, request.q)
<1>1. PICK voucher, change \in ValidStates :
        /\ voucher.q = request.q
        /\ TransferConstraints(in, voucher, change, request.delta)
        /\ proof' = <<voucher, change>> /\ request' = request
  <2>1. PICK voucher, change \in ValidStates :
          request.event = "transfer" /\ Accept(<<voucher, change>>)
    BY DEF ProveTransfer
  <2>2. Satisfied(request, <<voucher, change>>)
        /\ proof' = <<voucher, change>> /\ request' = request
    BY <2>1 DEF Accept
  <2> QED
    BY <2>1, <2>2 DEF Satisfied
<1>2. /\ request.event = "transfer" /\ in \in ValidStates
      /\ request.q \in Nat /\ request.delta \in Nat
  BY DEF ProveTransfer, RequestsTyped
<1>3. /\ parts.second = change
      /\ parts.first = [q |-> request.q, a |-> in.a - change.a, e |-> in.e - change.e]
  BY <1>1, <1>2, ShareIsByMass DEF TransferConstraints
<1>4. [parts.first EXCEPT !.e = @ + request.delta] = voucher
  BY <1>1, <1>2, <1>3, StateFields DEF TransferConstraints
<1>5. request.q # 0 /\ in.q # 0 /\ ~(request.q > in.q)
  BY <1>1, <1>2, StateFields DEF TransferConstraints
<1>6. Native(request) = <<voucher, change>>
  <2>1. <<[parts.first EXCEPT !.e = @ + request.delta], parts.second>> = <<voucher, change>>
    BY <1>3, <1>4
  <2>2. \A i \in DOMAIN <<voucher, change>> : <<voucher, change>>[i] \in ValidStates
    BY <1>1
  <2> HIDE DEF in, parts
  <2> QED
    BY <1>2, <1>5, <2>1, <2>2 DEF Native, Computed, in, parts
<1> QED
  BY <1>1, <1>6 DEF OnlyNativeOutputs

LEMMA SplitIsNative ==
  ASSUME RequestsTyped, OnlyNativeOutputs, ProveSplit
  PROVE  OnlyNativeOutputs'
<1> DEFINE in == request.inputs[1]
           parts == ByMass(in, request.q)
<1>1. PICK first, second \in ValidStates :
        /\ first.q = request.q
        /\ SplitConstraints(in, first, second)
        /\ proof' = <<first, second>> /\ request' = request
  <2>1. PICK first, second \in ValidStates :
          request.event = "split" /\ Accept(<<first, second>>)
    BY DEF ProveSplit
  <2>2. Satisfied(request, <<first, second>>)
        /\ proof' = <<first, second>> /\ request' = request
    BY <2>1 DEF Accept
  <2> QED
    BY <2>1, <2>2 DEF Satisfied
<1>2. request.event = "split" /\ in \in ValidStates /\ request.q \in Nat
  BY DEF ProveSplit, RequestsTyped
<1>3. /\ parts.second = second
      /\ parts.first = [q |-> request.q, a |-> in.a - second.a, e |-> in.e - second.e]
  BY <1>1, <1>2, ShareIsByMass DEF SplitConstraints
<1>4. parts.first = first
  BY <1>1, <1>2, <1>3, StateFields DEF SplitConstraints
<1>5. in.q # 0 /\ ~(request.q > in.q)
  BY <1>1, <1>2, StateFields DEF SplitConstraints
<1>6. Native(request) = <<first, second>>
  <2>1. <<parts.first, parts.second>> = <<first, second>>
    BY <1>3, <1>4
  <2>2. \A i \in DOMAIN <<first, second>> : <<first, second>>[i] \in ValidStates
    BY <1>1
  <2> HIDE DEF in, parts
  <2> QED
    BY <1>2, <1>5, <2>1, <2>2 DEF Native, Computed, in, parts
<1> QED
  BY <1>1, <1>6 DEF OnlyNativeOutputs

LEMMA MergeIsNative ==
  ASSUME RequestsTyped, OnlyNativeOutputs, ProveMerge
  PROVE  OnlyNativeOutputs'
<1>1. PICK out \in ValidStates :
        /\ MergeConstraints(request.inputs[1], request.inputs[2], out)
        /\ proof' = <<out>> /\ request' = request
  <2>1. PICK out \in ValidStates : request.event = "merge" /\ Accept(<<out>>)
    BY DEF ProveMerge
  <2>2. Satisfied(request, <<out>>) /\ proof' = <<out>> /\ request' = request
    BY <2>1 DEF Accept
  <2> QED
    BY <2>1, <2>2 DEF Satisfied
<1>2. request.event = "merge"
  BY DEF ProveMerge
<1>3. AddStates(request.inputs[1], request.inputs[2]) = out
  BY <1>1, StateFields DEF MergeConstraints, AddStates
<1>4. \A i \in DOMAIN <<out>> : <<out>>[i] \in ValidStates
  BY <1>1
<1>5. Native(request) = <<out>>
  BY <1>2, <1>3, <1>4 DEF Native, Computed
<1> QED
  BY <1>1, <1>5 DEF OnlyNativeOutputs

LEMMA ProcessIsNative ==
  ASSUME OnlyNativeOutputs, ProveProcess
  PROVE  OnlyNativeOutputs'
<1> DEFINE ins   == request.inputs
           total == AddStates(AddStates(ins[1], ins[2]), ins[3])
           result == Apply(total)
<1>1. PICK eligible \in ValidStates, waste \in WasteStates :
        /\ ProcessConstraints(ins, eligible, waste)
        /\ proof' = <<eligible, waste>> /\ request' = request
  <2>1. PICK eligible \in ValidStates, waste \in WasteStates :
          request.event = "process" /\ Accept(<<eligible, waste>>)
    BY DEF ProveProcess
  <2>2. Satisfied(request, <<eligible, waste>>)
        /\ proof' = <<eligible, waste>> /\ request' = request
    BY <2>1 DEF Accept
  <2> QED
    BY <2>1, <2>2 DEF Satisfied
<1>2. request.event = "process"
  BY DEF ProveProcess
<1>3. total \in State
  BY <1>1 DEF ProcessConstraints, CheckedSum
<1>4. PICK qLoss, carbonAdd \in Amount :
        /\ IsFloor(total.q, Rates.loss, Rates.denominator, qLoss)
        /\ IsFloor(total.q, Rates.carbon, Rates.denominator, carbonAdd)
        /\ IsFloor(total.q - qLoss, Rates.waste, Rates.denominator, waste.q)
        /\ eligible.q = total.q - qLoss - waste.q
        /\ eligible.q # 0
        /\ eligible.a = total.a
        /\ eligible.e = total.e + carbonAdd
  BY <1>1 DEF ProcessConstraints
<1> HIDE DEF total
<1>5. /\ total.q \in Int /\ qLoss \in Int /\ carbonAdd \in Int /\ waste.q \in Int
      /\ total.q - qLoss \in Int
      /\ Rates.loss \in Int /\ Rates.carbon \in Int /\ Rates.waste \in Int
      /\ Rates.denominator \in Nat
  BY <1>3, AllocationAssumption, StateFields DEF State, Amount
<1>6. /\ qLoss = MulDiv(total.q, Rates.loss, Rates.denominator)
      /\ carbonAdd = MulDiv(total.q, Rates.carbon, Rates.denominator)
      /\ waste.q = MulDiv(total.q - qLoss, Rates.waste, Rates.denominator)
  BY <1>4, <1>5, FloorIsUnique
<1>7. result.eligible = eligible /\ result.waste = waste
  BY <1>4, <1>6, StateFields DEF Apply
<1>8. \A i \in DOMAIN <<eligible, waste>> : <<eligible, waste>>[i] \in ValidStates
  BY <1>1, StateFields
<1> HIDE DEF result
<1>9. Native(request) = <<eligible, waste>>
  BY <1>2, <1>3, <1>4, <1>7, <1>8 DEF Native, Computed, total, result
<1> QED
  BY <1>1, <1>9 DEF OnlyNativeOutputs

LEMMA CircuitsInvariant == CircuitsSpec => []CircuitsInv
<1>1. CircuitsInit => CircuitsInv
  <2> SUFFICES ASSUME CircuitsInit PROVE RequestsTyped
    BY DEF CircuitsInit, CircuitsInv, OnlyNativeOutputs
  <2>1. CASE \E in \in ValidStates, q, delta \in Amount :
               request = Request("transfer", <<in>>, q, delta)
    BY <2>1, AllocationAssumption DEF RequestsTyped, Request, Amount
  <2>2. CASE \E in \in ValidStates, q \in Amount : request = Request("split", <<in>>, q, 0)
    BY <2>2, AllocationAssumption DEF RequestsTyped, Request, Amount
  <2>3. CASE \E in1, in2 \in ValidStates : request = Request("merge", <<in1, in2>>, 0, 0)
    BY <2>3 DEF RequestsTyped, Request
  <2>4. CASE \E in1, in2, in3 \in ProcessInputs :
               request = Request("process", <<in1, in2, in3>>, 0, 0)
    BY <2>4, InputsAssumption DEF RequestsTyped, Request
  <2> QED
    BY <2>1, <2>2, <2>3, <2>4 DEF CircuitsInit
<1>2. CircuitsInv /\ [CircuitsNext]_circuitVars => CircuitsInv'
  <2> SUFFICES ASSUME CircuitsInv, [CircuitsNext]_circuitVars PROVE CircuitsInv'
    OBVIOUS
  <2>1. request' = request
    BY DEF CircuitsNext, circuitVars, ProveTransfer, ProveSplit, ProveMerge, ProveProcess,
           Accept
  <2>2. RequestsTyped'
    BY <2>1 DEF CircuitsInv, RequestsTyped
  <2>3. CASE ProveTransfer
    BY <2>2, <2>3, TransferIsNative DEF CircuitsInv
  <2>4. CASE ProveSplit
    BY <2>2, <2>4, SplitIsNative DEF CircuitsInv
  <2>5. CASE ProveMerge
    BY <2>2, <2>5, MergeIsNative DEF CircuitsInv
  <2>6. CASE ProveProcess
    BY <2>2, <2>6, ProcessIsNative DEF CircuitsInv
  <2>7. CASE UNCHANGED circuitVars
    BY <2>2, <2>7 DEF CircuitsInv, OnlyNativeOutputs, circuitVars
  <2> QED
    BY <2>3, <2>4, <2>5, <2>6, <2>7 DEF CircuitsNext
<1> QED
  BY <1>1, <1>2, PTL DEF CircuitsSpec

\* Whatever witness a prover fills in, for any amounts, rates and inputs, the
\* outputs it proves are those the Go code computes (Circuits).
THEOREM CircuitsExact == CircuitsSpec => []OnlyNativeOutputs
<1>1. CircuitsInv => OnlyNativeOutputs
  BY DEF CircuitsInv
<1> QED
  BY <1>1, CircuitsInvariant, PTL

\* The floor that the code computes satisfies the constraints.
LEMMA FloorIsSatisfied ==
  ASSUME NEW value \in Nat, NEW numerator \in Nat, NEW divisor \in Amount, divisor # 0
  PROVE  /\ MulDiv(value, numerator, divisor) \in Nat
         /\ IsFloor(value, numerator, divisor, MulDiv(value, numerator, divisor))
<1> DEFINE product == value * numerator
           quotient == product \div divisor
<1>1. product \in Nat /\ divisor \in Nat /\ divisor >= 1 /\ divisor <= MaxAmount
  BY AllocationAssumption DEF Amount
<1> HIDE DEF product
<1>2. quotient \in Nat /\ product % divisor \in 0..divisor - 1
      /\ product = divisor * quotient + (product % divisor)
  BY <1>1, DivisionOf
<1> HIDE DEF quotient
<1>3. divisor * quotient \in Nat
  BY <1>1, <1>2
<1>4. product - divisor * quotient \in 0..divisor - 1
  BY <1>1, <1>2, <1>3
<1>5. /\ product - divisor * quotient \in Amount
      /\ (product - divisor * quotient) + 1 <= divisor
  BY <1>1, <1>4, AllocationAssumption DEF Amount
<1> QED
  BY <1>2, <1>5 DEF IsFloor, MulDiv, product, quotient

\* A share is not more than what it is taken of.
LEMMA FloorIsBelow ==
  ASSUME NEW value \in Nat, NEW numerator \in Nat, NEW divisor \in Nat, divisor # 0,
         numerator <= divisor, NEW quotient \in Nat,
         IsFloor(value, numerator, divisor, quotient)
  PROVE  quotient <= value
<1>1. 0 <= value * numerator - divisor * quotient
  BY AllocationAssumption DEF IsFloor, Amount
<1>2. value * numerator <= divisor * value
  BY SMT
<1>3. divisor * quotient <= divisor * value
  <2>1. value * numerator \in Int /\ divisor * quotient \in Int /\ divisor * value \in Int
    OBVIOUS
  <2> QED
    BY <1>1, <1>2, <2>1
<1> SUFFICES ASSUME value < quotient PROVE FALSE
  OBVIOUS
<1>4. PICK n \in Nat : quotient = value + 1 + n
  <2>1. quotient - value - 1 \in Nat /\ quotient = value + 1 + (quotient - value - 1)
    OBVIOUS
  <2> QED
    BY <2>1
<1>5. divisor * quotient = divisor * value + divisor + divisor * n
  BY <1>4
<1>6. divisor * n \in Nat /\ divisor * value \in Nat
  OBVIOUS
<1> QED
  BY <1>3, <1>5, <1>6

\* All of a share, and none of it.
LEMMA WholeShare ==
  ASSUME NEW n \in Nat, NEW d \in Nat, d # 0
  PROVE  MulDiv(n, d, d) = n /\ MulDiv(n, 0, d) = 0
<1>1. n * d = d * n + 0 /\ n * 0 = d * 0 + 0 /\ 0 \in 0..d - 1 /\ n * d \in Int /\ n * 0 \in Int
  OBVIOUS
<1>2. (n * d) \div d = n
  BY <1>1, QuotientIs
<1>3. (n * 0) \div d = 0
  BY <1>1, QuotientIs
<1> QED
  BY <1>2, <1>3 DEF MulDiv

\* What ByMass computes is what the circuits say of the second output.
LEMMA ByMassIsShare ==
  ASSUME NEW in \in ValidStates, in.q # 0, NEW first \in Nat, first <= in.q
  PROVE  LET parts == ByMass(in, first) IN
         /\ FlooredShare(in, parts.second)
         /\ parts.second.q = in.q - first
         /\ parts.second.a = MulDiv(in.a, in.q - first, in.q)
         /\ parts.second.e = MulDiv(in.e, in.q - first, in.q)
         /\ parts.first = [q |-> first, a |-> in.a - parts.second.a,
                           e |-> in.e - parts.second.e]
<1>1. /\ in.q \in Amount /\ in.a \in Nat /\ in.e \in Nat /\ in.q \in Nat
      /\ in.q - first \in Nat
  BY StateFields
<1>2. PICK second : second = [q |-> in.q - first,
                              a |-> MulDiv(in.a, in.q - first, in.q),
                              e |-> MulDiv(in.e, in.q - first, in.q)]
  OBVIOUS
<1>3. /\ ByMass(in, first).second = second
      /\ ByMass(in, first).first = [q |-> first, a |-> in.a - second.a, e |-> in.e - second.e]
  BY <1>2 DEF ByMass
<1>4. FlooredShare(in, second)
  BY <1>1, <1>2, FloorIsSatisfied DEF FlooredShare
<1> QED
  BY <1>2, <1>3, <1>4

LEMMA NativeIsComputed ==
  Native(request) # <<>> =>
    /\ Native(request) = Computed(request) /\ Computed(request) # <<>>
    /\ \A i \in DOMAIN Native(request) : Native(request)[i] \in ValidStates
BY DEF Native

LEMMA PairOfStates ==
  ASSUME NEW s, NEW t, \A i \in DOMAIN <<s, t>> : <<s, t>>[i] \in ValidStates
  PROVE  s \in ValidStates /\ t \in ValidStates
<1>1. DOMAIN <<s, t>> = 1..2 /\ <<s, t>>[1] = s /\ <<s, t>>[2] = t
  OBVIOUS
<1> QED
  BY <1>1

LEMMA TransferProvable ==
  ASSUME RequestsTyped, request.event = "transfer", Native(request) # <<>>
  PROVE  Satisfied(request, Native(request))
<1> DEFINE in == request.inputs[1]
           parts == ByMass(in, request.q)
           voucher == [parts.first EXCEPT !.e = @ + request.delta]
           change == parts.second
<1>1. in \in ValidStates /\ request.q \in Nat /\ request.delta \in Nat
  BY DEF RequestsTyped
<1>2. request.q # 0 /\ in.q # 0 /\ request.q <= in.q
  BY <1>1, NativeIsComputed, StateFields DEF Computed
<1>3. Native(request) = <<voucher, change>>
  BY <1>1, <1>2, NativeIsComputed, StateFields DEF Computed
<1>4. voucher \in ValidStates /\ change \in ValidStates
  BY <1>3, NativeIsComputed, PairOfStates
<1>5. /\ FlooredShare(in, change)
      /\ change.q = in.q - request.q
      /\ parts.first = [q |-> request.q, a |-> in.a - change.a, e |-> in.e - change.e]
  BY <1>1, <1>2, ByMassIsShare
<1> HIDE DEF parts, in, change
<1>6. /\ voucher.q = request.q /\ voucher.a = in.a - change.a
      /\ voucher.e = (in.e - change.e) + request.delta
  BY <1>5
<1> HIDE DEF voucher
<1>7. TransferConstraints(in, voucher, change, request.delta)
  BY <1>1, <1>2, <1>4, <1>5, <1>6, StateFields DEF TransferConstraints
<1> QED
  BY <1>3, <1>6, <1>7 DEF Satisfied, in

LEMMA SplitProvable ==
  ASSUME RequestsTyped, request.event = "split", Native(request) # <<>>
  PROVE  Satisfied(request, Native(request))
<1> DEFINE in == request.inputs[1]
           parts == ByMass(in, request.q)
           first == parts.first
           second == parts.second
<1>1. in \in ValidStates /\ request.q \in Nat
  BY DEF RequestsTyped
<1>2. in.q # 0 /\ request.q <= in.q
  BY <1>1, NativeIsComputed, StateFields DEF Computed
<1>3. Native(request) = <<first, second>>
  BY <1>1, <1>2, NativeIsComputed, StateFields DEF Computed
<1>4. first \in ValidStates /\ second \in ValidStates
  BY <1>3, NativeIsComputed, PairOfStates
<1>5. /\ FlooredShare(in, second)
      /\ second.q = in.q - request.q
      /\ second.a = MulDiv(in.a, in.q - request.q, in.q)
      /\ second.e = MulDiv(in.e, in.q - request.q, in.q)
      /\ first = [q |-> request.q, a |-> in.a - second.a, e |-> in.e - second.e]
  BY <1>1, <1>2, ByMassIsShare
<1> HIDE DEF parts, in, first, second
<1>6. first.q = 0 => first.a = 0 /\ first.e = 0
  <2> SUFFICES ASSUME first.q = 0 PROVE first.a = 0 /\ first.e = 0
    OBVIOUS
  <2>1. in.q - request.q = in.q
    BY <1>1, <1>5, StateFields
  <2> QED
    BY <1>1, <1>2, <1>5, <2>1, StateFields, WholeShare
<1>7. second.q = 0 => second.a = 0 /\ second.e = 0
  BY <1>1, <1>2, <1>5, StateFields, WholeShare
<1>8. SplitConstraints(in, first, second)
  BY <1>1, <1>2, <1>4, <1>5, <1>6, <1>7, StateFields DEF SplitConstraints
<1> QED
  BY <1>3, <1>5, <1>8 DEF Satisfied, in

LEMMA MergeProvable ==
  ASSUME RequestsTyped, request.event = "merge", Native(request) # <<>>
  PROVE  Satisfied(request, Native(request))
<1> DEFINE out == AddStates(request.inputs[1], request.inputs[2])
<1>1. Native(request) = <<out>>
  BY NativeIsComputed DEF Computed
<1>2. MergeConstraints(request.inputs[1], request.inputs[2], out)
  BY DEF MergeConstraints, AddStates
<1> QED
  BY <1>1, <1>2 DEF Satisfied

LEMMA ProcessProvable ==
  ASSUME RequestsTyped, request.event = "process", Native(request) # <<>>
  PROVE  Satisfied(request, Native(request))
<1> DEFINE ins   == request.inputs
           total == AddStates(AddStates(ins[1], ins[2]), ins[3])
           result == Apply(total)
           lost == MulDiv(total.q, Rates.loss, Rates.denominator)
           kept == total.q - lost
           carbon == MulDiv(total.q, Rates.carbon, Rates.denominator)
<1>1. ins[1] \in ValidStates /\ ins[2] \in ValidStates /\ ins[3] \in ValidStates
  BY DEF RequestsTyped
<1>2. total \in State /\ result.eligible.q # 0
  BY NativeIsComputed DEF Computed
<1>3. Native(request) = <<result.eligible, result.waste>>
  <2> HIDE DEF result, total
  <2> QED
    BY <1>2, NativeIsComputed DEF Computed, total, result
<1>4. result.eligible \in ValidStates /\ result.waste \in ValidStates
  BY <1>3, NativeIsComputed, PairOfStates
<1>5. CheckedSum(ins)
  <2>1. AddStates(ins[1], ins[2]) \in State
    <3>1. PICK s, t, u : s = ins[1] /\ t = ins[2] /\ u = ins[3]
      OBVIOUS
    <3>2. /\ s.q \in Nat /\ s.a \in Nat /\ s.e \in Nat /\ t.q \in Nat /\ t.a \in Nat
          /\ t.e \in Nat /\ u.q \in Nat /\ u.a \in Nat /\ u.e \in Nat
      BY <1>1, <3>1, StateFields
    <3>3. [q |-> (s.q + t.q) + u.q, a |-> (s.a + t.a) + u.a, e |-> (s.e + t.e) + u.e] \in State
      BY <1>2, <3>1 DEF AddStates
    <3>4. s.q + t.q \in Amount /\ s.a + t.a \in Amount /\ s.e + t.e \in Amount
      <4>1. (s.q + t.q) + u.q \in Amount /\ (s.a + t.a) + u.a \in Amount
            /\ (s.e + t.e) + u.e \in Amount
        BY <3>3 DEF State
      <4>2. \A x, y, z \in Nat : (x + y) + z \in Amount => x + y \in Amount
        BY AllocationAssumption DEF Amount
      <4> QED
        BY <3>2, <4>1, <4>2
    <3> QED
      BY <3>1, <3>4 DEF AddStates, State
  <2> QED
    BY <1>2, <2>1 DEF CheckedSum
<1> HIDE DEF total
<1>6. /\ total.q \in Nat /\ total.q \in Amount /\ total.e \in Nat
      /\ Rates.loss \in Nat /\ Rates.carbon \in Nat /\ Rates.waste \in Nat
      /\ Rates.denominator \in Amount /\ Rates.denominator # 0 /\ Rates.denominator \in Nat
      /\ Rates.loss <= Rates.denominator /\ MaxAmount \in Nat
  BY <1>2, AllocationAssumption, RatesAssumption DEF State, Amount
<1>7. /\ lost \in Nat /\ IsFloor(total.q, Rates.loss, Rates.denominator, lost)
      /\ carbon \in Nat /\ IsFloor(total.q, Rates.carbon, Rates.denominator, carbon)
  BY <1>6, FloorIsSatisfied
<1>8. lost <= total.q
  BY <1>6, <1>7, FloorIsBelow
<1> HIDE DEF lost, carbon
<1>9. /\ result.eligible.q = kept - result.waste.q
      /\ result.eligible.a = total.a /\ result.eligible.e = total.e + carbon
      /\ result.waste = [q |-> MulDiv(kept, Rates.waste, Rates.denominator), a |-> 0, e |-> 0]
  BY DEF Apply, lost, carbon
<1> HIDE DEF result
<1>10. kept \in Nat /\ kept = total.q - lost
  BY <1>6, <1>7, <1>8
<1> HIDE DEF kept
<1>11. IsFloor(kept, Rates.waste, Rates.denominator, result.waste.q)
  <2>1. IsFloor(kept, Rates.waste, Rates.denominator,
                MulDiv(kept, Rates.waste, Rates.denominator))
    BY <1>6, <1>10, FloorIsSatisfied
  <2>2. result.waste.q = MulDiv(kept, Rates.waste, Rates.denominator)
    BY <1>9
  <2> QED
    BY <2>1, <2>2
<1>12. result.waste \in WasteStates
  BY <1>4, <1>9 DEF ValidStates, WasteStates, StateAndRoleOK, WASTE
<1>13. lost \in Amount /\ carbon \in Amount /\ total.e + carbon \in Amount
  BY <1>4, <1>6, <1>7, <1>8, <1>9, StateFields DEF Amount
<1>14. ProcessConstraints(ins, result.eligible, result.waste)
  BY <1>2, <1>5, <1>7, <1>8, <1>9, <1>10, <1>11, <1>13 DEF ProcessConstraints, total
<1> QED
  BY <1>3, <1>12, <1>14 DEF Satisfied

\* Whatever the Go code computes without an error satisfies the constraints, for any
\* amounts, rates and inputs: no honest user is turned away by a circuit.
THEOREM CircuitsComplete == CircuitsSpec => []NativeOutputsProvable
<1>1. ASSUME CircuitsInv PROVE NativeOutputsProvable
  <2> SUFFICES ASSUME proof = <<>>, Native(request) # <<>>
               PROVE  Satisfied(request, Native(request))
    BY DEF NativeOutputsProvable
  <2>1. request.event \in {"transfer", "split", "merge", "process"}
    BY <1>1 DEF CircuitsInv, RequestsTyped
  <2> QED
    BY <1>1, <2>1, TransferProvable, SplitProvable, MergeProvable, ProcessProvable
    DEF CircuitsInv
<1> QED
  BY <1>1, CircuitsInvariant, PTL

-----------------------------------------------------------------------------
(* The audit key: arithmetic modulo the order of the group. *)

Congruent(a, b) == \E k \in Int : a = b + k * Order

\* The order is a prime above 3.
LEMMA OrderIsOdd == Order \in Nat /\ Order > 4 /\ Order % 2 = 1
BY OrderAssumption

\* The remainder is the only representative below the order.
LEMMA RemainderIsCongruent ==
  ASSUME NEW a \in Int
  PROVE  a % Order \in 0..Order - 1 /\ Congruent(a % Order, a)
<1>1. PICK n \in Nat : n = Order /\ n > 4
  BY OrderIsOdd
<1>2. a % n \in 0..n - 1 /\ a = n * (a \div n) + (a % n) /\ a \div n \in Int
  BY <1>1
<1>3. PICK k \in Int : k = -(a \div n) /\ k * n = - (n * (a \div n))
  BY <1>1, <1>2
<1>4. a % n = a + k * n
  BY <1>2, <1>3
<1> QED
  BY <1>1, <1>2, <1>4 DEF Congruent

LEMMA SmallCongruentsAreEqual ==
  ASSUME NEW a \in 0..Order - 1, NEW b \in 0..Order - 1, Congruent(a, b)
  PROVE  a = b
<1>1. PICK k \in Int : a = b + k * Order
  BY DEF Congruent
<1>2. CASE k = 0
  BY <1>1, <1>2, OrderIsOdd
<1>3. CASE k >= 1
  BY <1>1, <1>3, OrderIsOdd
<1>4. CASE k <= -1
  BY <1>1, <1>4, OrderIsOdd
<1> QED
  BY <1>2, <1>3, <1>4

\* Congruence is an equivalence that sums and products respect.
LEMMA CongruentSym ==
  ASSUME NEW a \in Int, NEW b \in Int, Congruent(a, b)
  PROVE  Congruent(b, a)
<1>1. PICK k \in Int : a = b + k * Order
  BY DEF Congruent
<1>2. b = a + (-k) * Order /\ -k \in Int
  BY <1>1, OrderIsOdd
<1> QED
  BY <1>2 DEF Congruent

LEMMA CongruentAdd ==
  ASSUME NEW a \in Int, NEW b \in Int, NEW c \in Int, NEW d \in Int,
         Congruent(a, b), Congruent(c, d)
  PROVE  Congruent(a + c, b + d)
<1>1. PICK k \in Int : a = b + k * Order
  BY DEF Congruent
<1>2. PICK l \in Int : c = d + l * Order
  BY DEF Congruent
<1>3. a + c = b + d + (k + l) * Order /\ k + l \in Int
  BY <1>1, <1>2, OrderIsOdd
<1> QED
  BY <1>3 DEF Congruent

LEMMA CongruentMul ==
  ASSUME NEW a \in Int, NEW b \in Int, NEW c \in Int, NEW d \in Int,
         Congruent(a, b), Congruent(c, d)
  PROVE  Congruent(a * c, b * d)
<1>1. PICK k \in Int : a = b + k * Order
  BY DEF Congruent
<1>2. PICK l \in Int : c = d + l * Order
  BY DEF Congruent
<1> DEFINE m == b * l + k * d + k * l * Order
<1>3. a * c = b * d + m * Order /\ m \in Int
  BY <1>1, <1>2, OrderIsOdd
<1> QED
  BY <1>3 DEF Congruent

LEMMA CongruentTrans ==
  ASSUME NEW a \in Int, NEW b \in Int, NEW c \in Int, Congruent(a, b), Congruent(b, c)
  PROVE  Congruent(a, c)
<1>1. PICK k \in Int : a = b + k * Order
  BY DEF Congruent
<1>2. PICK l \in Int : b = c + l * Order
  BY DEF Congruent
<1>3. a = c + (k + l) * Order /\ k + l \in Int
  BY <1>1, <1>2, OrderIsOdd
<1> QED
  BY <1>3 DEF Congruent

LEMMA CongruentRefl == \A a \in Int : Congruent(a, a)
<1> TAKE a \in Int
<1>1. a = a + 0 * Order
  BY OrderIsOdd
<1> QED
  BY <1>1 DEF Congruent

\* Congruent numbers have one remainder.
LEMMA EqualRemainders ==
  ASSUME NEW a \in Int, NEW b \in Int, Congruent(a, b)
  PROVE  a % Order = b % Order
<1>1. Congruent(a % Order, b) /\ Congruent(b, b % Order)
  BY RemainderIsCongruent, CongruentTrans, CongruentSym
<1>2. Congruent(a % Order, b % Order)
  BY <1>1, RemainderIsCongruent, CongruentTrans
<1> QED
  BY <1>2, RemainderIsCongruent, SmallCongruentsAreEqual

\* A prime divides no product of two scalars: the least r whose product with d
\* it divided would have a smaller one, its remainder of the order.
LEMMA ProductIsNotZero ==
  ASSUME NEW r \in Scalars, NEW d \in Scalars
  PROVE  (r * d) % Order \in Scalars
<1> DEFINE bad == {s \in Scalars : Congruent(s * d, 0)}
<1>1. SUFFICES bad = {}
  <2>1. (r * d) % Order \in 0..Order - 1 /\ r * d \in Int
    BY RemainderIsCongruent, OrderIsOdd DEF Scalars
  <2>2. ~ Congruent(r * d, 0)
    BY <1>1
  <2>3. (r * d) % Order # 0
    BY <2>1, <2>2, RemainderIsCongruent, CongruentSym
  <2> QED
    BY <2>1, <2>3, OrderIsOdd DEF Scalars
<1>2. SUFFICES ASSUME bad # {} PROVE FALSE
  OBVIOUS
<1>3. PICK s \in bad : \A t \in bad : ~ (t < s)
  <2>1. bad \subseteq Nat
    BY OrderIsOdd DEF Scalars
  <2> HIDE DEF bad
  <2>2. PICK s \in bad : \A t \in bad : ~ (<<t, s>> \in OpToRel(<, Nat))
    BY <1>2, <2>1, NatLessThanWellFounded, WFMin
  <2>3. \A t \in bad : t < s => <<t, s>> \in OpToRel(<, Nat)
    BY <2>1 DEF OpToRel
  <2> QED
    BY <2>2, <2>3
<1>4. s \in 1..Order - 1 /\ d \in 1..Order - 1 /\ Congruent(s * d, 0)
  BY DEF Scalars
<1>5. CASE s = 1
  <2>1. Congruent(d, 0)
    BY <1>4, <1>5, OrderIsOdd
  <2> QED
    BY <2>1, <1>4, OrderIsOdd, SmallCongruentsAreEqual
<1>6. CASE s # 1
  <2> DEFINE t == Order % s
             n == Order \div s
  <2>1. t # 0
    BY <1>4, <1>6, OrderAssumption
  <2>2. /\ t \in 0..s - 1 /\ Order = s * n + t /\ n \in Int
    BY <1>4, OrderIsOdd
  <2> HIDE DEF t, n
  <2>3. t \in Scalars /\ t < s
    BY <1>4, <2>1, <2>2, OrderIsOdd DEF Scalars
  <2>4. t * d = d * Order + (-n) * (s * d)
    BY <1>4, <2>2, OrderIsOdd
  <2>5. Congruent((-n) * (s * d), 0)
    <3>1. Congruent(-n, -n) /\ -n \in Int /\ s * d \in Int
      BY <1>4, <2>2, CongruentRefl
    <3>2. Congruent((-n) * (s * d), (-n) * 0)
      BY <1>4, <3>1, CongruentMul
    <3> QED
      BY <2>2, <3>2
  <2>6. Congruent(d * Order, 0)
    BY <1>4, OrderIsOdd DEF Congruent
  <2>7. Congruent(t * d, 0)
    <3> DEFINE u == d * Order
               v == (-n) * (s * d)
    <3>1. u \in Int /\ v \in Int
      BY <1>4, <2>2, OrderIsOdd
    <3>2. t * d = u + v /\ Congruent(u, 0) /\ Congruent(v, 0)
      BY <2>4, <2>5, <2>6
    <3> HIDE DEF u, v
    <3>3. Congruent(u + v, 0 + 0)
      BY <3>1, <3>2, CongruentAdd
    <3> QED
      BY <3>2, <3>3
  <2> QED
    BY <1>3, <2>3, <2>7
<1> QED
  BY <1>5, <1>6

\* Factors cancel.
LEMMA ProductIsInjective ==
  ASSUME NEW r \in Scalars, NEW u \in Scalars, NEW v \in Scalars,
         (r * u) % Order = (r * v) % Order
  PROVE  u = v
<1>1. /\ r \in Int /\ u \in Int /\ v \in Int
      /\ u \in 0..Order - 1 /\ v \in 0..Order - 1
  BY OrderIsOdd DEF Scalars
<1>2. Congruent(r * u, r * v)
  <2> DEFINE p == r * u
             q == r * v
  <2>1. p \in Int /\ q \in Int /\ p % Order = q % Order
    BY <1>1
  <2> HIDE DEF p, q
  <2>2. Congruent(p % Order, p) /\ Congruent(q % Order, q) /\ p % Order \in Int
    BY <2>1, RemainderIsCongruent
  <2>3. Congruent(p, p % Order)
    BY <2>1, <2>2, CongruentSym
  <2>4. Congruent(p, q)
    BY <2>1, <2>2, <2>3, CongruentTrans
  <2> QED
    BY <2>4 DEF p, q
<1>3. PICK k \in Int : r * u = r * v + k * Order
  BY <1>2 DEF Congruent
<1>4. ASSUME NEW w \in Scalars, NEW z \in Scalars, NEW l \in Int,
             r * w = r * z + l * Order, w > z
      PROVE  FALSE
  <2>1. w - z \in Scalars /\ w \in Int /\ z \in Int
    BY <1>4, OrderIsOdd DEF Scalars
  <2>2. r * (w - z) = 0 + l * Order /\ r * (w - z) \in Int
    BY <1>1, <1>4, <2>1, OrderIsOdd
  <2>3. Congruent(r * (w - z), 0)
    BY <2>2 DEF Congruent
  <2>4. (r * (w - z)) % Order = 0 % Order
    BY <2>2, <2>3, EqualRemainders
  <2>5. (r * (w - z)) % Order \in Scalars
    BY <2>1, ProductIsNotZero
  <2>6. 0 % Order = 0
    BY OrderIsOdd
  <2> QED
    BY <2>4, <2>5, <2>6, OrderIsOdd DEF Scalars
<1>5. r * v = r * u + (-k) * Order
  BY <1>1, <1>3, OrderIsOdd
<1>6. ~(u > v) /\ ~(v > u)
  BY <1>3, <1>4, <1>5
<1> QED
  BY <1>1, <1>6

\* The differences of two member numbers are 1 and 2, up to sign: they have
\* inverses.
LEMMA DifferenceHasInverse ==
  ASSUME NEW i \in Members, NEW j \in Members, i # j
  PROVE  /\ ModInverse((i - j) % Order) \in Scalars
         /\ Congruent((i - j) * ModInverse((i - j) % Order), 1)
<1> DEFINE d == (i - j) % Order
<1>1. PICK h \in Int : Order = 2 * h - 1 /\ h > 2
  <2>1. PICK n \in Nat : n = Order /\ n > 4 /\ n % 2 = 1
    BY OrderIsOdd
  <2>2. n = 2 * (n \div 2) + 1 /\ n \div 2 \in Int
    BY <2>1
  <2>3. n = 2 * ((n \div 2) + 1) - 1 /\ (n \div 2) + 1 > 2 /\ (n \div 2) + 1 \in Int
    BY <2>1, <2>2
  <2> QED
    BY <2>1, <2>3
<1>2. d \in 0..Order - 1 /\ Congruent(d, i - j) /\ i - j \in Int
  BY RemainderIsCongruent DEF Members
<1>3. \E u \in Scalars : Congruent((i - j) * u, 1)
  <2>1. CASE i - j = 1
    <3>1. 1 \in Scalars /\ (i - j) * 1 = 1
      BY <2>1, OrderIsOdd DEF Scalars
    <3> QED
      BY <3>1, CongruentRefl
  <2>2. CASE i - j = 2
    <3>1. h \in Scalars /\ (i - j) * h = 1 + 1 * Order
      BY <1>1, <2>2 DEF Scalars
    <3> QED
      BY <3>1 DEF Congruent
  <2>3. CASE i - j = -1
    <3>1. Order - 1 \in Scalars /\ (i - j) * (Order - 1) = 1 + (-1) * Order
      BY <2>3, OrderIsOdd DEF Scalars
    <3> QED
      BY <3>1 DEF Congruent
  <2>4. CASE i - j = -2
    <3>1. h - 1 \in Scalars /\ (i - j) * (h - 1) = 1 + (-1) * Order
      BY <1>1, <2>4 DEF Scalars
    <3> QED
      BY <3>1 DEF Congruent
  <2> QED
    BY <2>1, <2>2, <2>3, <2>4 DEF Members
<1>4. ASSUME NEW u \in Scalars
      PROVE  Congruent(d * u, (i - j) * u) /\ d * u \in Int /\ (i - j) * u \in Int
  <2>1. u \in Int /\ d \in Int
    BY <1>2, OrderIsOdd DEF Scalars
  <2> HIDE DEF d
  <2>2. Congruent(u, u)
    BY <2>1, CongruentRefl
  <2> DEFINE e == i - j
  <2>3. e \in Int /\ Congruent(d, e)
    BY <1>2
  <2> HIDE DEF e
  <2>4. Congruent(d * u, e * u) /\ d * u \in Int /\ e * u \in Int
    BY <2>1, <2>2, <2>3, CongruentMul
  <2> QED
    BY <2>4 DEF e
<1> HIDE DEF d
<1>5. 1 % Order = 1
  BY OrderIsOdd
<1>6. \E u \in Scalars : (d * u) % Order = 1
  <2>1. PICK u \in Scalars : Congruent((i - j) * u, 1)
    BY <1>3
  <2>2. Congruent(d * u, 1)
    BY <1>4, <2>1, CongruentTrans
  <2> QED
    BY <1>4, <1>5, <2>2, EqualRemainders
<1> DEFINE inv == ModInverse(d)
<1>7. inv \in Scalars /\ (d * inv) % Order = 1
  BY <1>6 DEF ModInverse
<1> HIDE DEF inv
<1>8. Congruent((d * inv) % Order, d * inv) /\ d * inv \in Int /\ (i - j) * inv \in Int
  BY <1>4, <1>7, RemainderIsCongruent
<1>9. Congruent(1, (i - j) * inv)
  BY <1>4, <1>7, <1>8, CongruentTrans
<1> QED
  BY <1>7, <1>8, <1>9, CongruentSym DEF inv, d

\* Two points of a line at the places of two members give its value at 0.
LEMMA LineThroughTwo ==
  ASSUME NEW i \in Members, NEW j \in Members, i # j,
         NEW a \in Int, NEW x \in Int, NEW p \in Int, NEW q \in Int,
         Congruent(p, a * i + x), Congruent(q, a * j + x)
  PROVE  Interpolate(i, p, j, q) = x % Order
<1> DEFINE u == ModInverse((i - j) % Order)
           w == ModInverse((j - i) % Order)
           L == LagrangeCoefficient(i, j)
           M == LagrangeCoefficient(j, i)
<1>1. /\ u \in Int /\ Congruent((i - j) * u, 1)
      /\ w \in Int /\ Congruent((j - i) * w, 1)
      /\ i \in Int /\ j \in Int
  BY DifferenceHasInverse, OrderIsOdd DEF Scalars, Members
<1>2. /\ (-j) * u \in Int /\ (-i) * w \in Int
      /\ L = ((-j) * u) % Order /\ M = ((-i) * w) % Order
  BY <1>1 DEF LagrangeCoefficient
<1> HIDE DEF u, w, L, M
<1>3. PICK k1 \in Int : (i - j) * u = 1 + k1 * Order
  BY <1>1 DEF Congruent
<1>4. PICK k2 \in Int : (j - i) * w = 1 + k2 * Order
  BY <1>1 DEF Congruent
<1>5. Order \in Int
  BY OrderIsOdd
<1>6. PICK e \in Int : w = -u + e * Order
  <2>1. w * ((i - j) * u) = - (u * ((j - i) * w))
    BY <1>1
  <2>2. w * (1 + k1 * Order) = - (u * (1 + k2 * Order))
    BY <1>3, <1>4, <2>1
  <2>3. w = -u + (-(k1 * w + k2 * u)) * Order /\ -(k1 * w + k2 * u) \in Int
    BY <1>1, <1>5, <2>2
  <2> QED
    BY <2>3
<1> DEFINE P == a * i + x
           Q == a * j + x
           m == e * (-(a * i * j) - x * i) + x * k1
<1>7. P \in Int /\ Q \in Int /\ m \in Int
  BY <1>1
<1>8. ((-j) * u) * P + ((-i) * w) * Q = x + m * Order
  <2>1. ((-j) * u) * P + ((-i) * (-u + e * Order)) * Q
          = x * ((i - j) * u) + (e * (-(a * i * j) - x * i)) * Order
    BY <1>1, <1>5
  <2>2. x * (1 + k1 * Order) + (e * (-(a * i * j) - x * i)) * Order = x + m * Order
    BY <1>1, <1>5
  <2> HIDE DEF P, Q, m
  <2> QED
    BY <1>3, <1>6, <2>1, <2>2
<1>9. Congruent(((-j) * u) * P + ((-i) * w) * Q, x)
  BY <1>7, <1>8 DEF Congruent
<1>10. /\ L \in Int /\ Congruent(L, (-j) * u)
       /\ M \in Int /\ Congruent(M, (-i) * w)
  BY <1>2, <1>5, RemainderIsCongruent
<1>11. Congruent(p, P) /\ Congruent(q, Q)
  OBVIOUS
<1> HIDE DEF P, Q, m
<1> DEFINE A == (-j) * u
           B == (-i) * w
<1>12. A \in Int /\ B \in Int /\ Congruent(L, A) /\ Congruent(M, B)
  BY <1>2, <1>10
<1>13. Congruent(A * P + B * Q, x)
  BY <1>9
<1> HIDE DEF A, B
<1>14. Congruent(L * p, A * P) /\ Congruent(M * q, B * Q)
  BY <1>7, <1>10, <1>11, <1>12, CongruentMul
<1>15. /\ L * p \in Int /\ M * q \in Int /\ A * P \in Int /\ B * Q \in Int
  BY <1>7, <1>10, <1>12
<1>16. Congruent(L * p + M * q, A * P + B * Q)
  <2> DEFINE c1 == L * p
             c2 == M * q
             c3 == A * P
             c4 == B * Q
  <2>1. c1 \in Int /\ c2 \in Int /\ c3 \in Int /\ c4 \in Int
        /\ Congruent(c1, c3) /\ Congruent(c2, c4)
    BY <1>14, <1>15
  <2> HIDE DEF c1, c2, c3, c4
  <2>2. Congruent(c1 + c2, c3 + c4)
    BY <2>1, CongruentAdd
  <2> QED
    BY <2>2 DEF c1, c2, c3, c4
<1> DEFINE s == L * p + M * q
           y == A * P + B * Q
<1>17. s \in Int /\ y \in Int /\ Congruent(s, y) /\ Congruent(y, x)
  BY <1>13, <1>15, <1>16
<1>18. Interpolate(i, p, j, q) = s % Order
  BY DEF Interpolate, L, M
<1> HIDE DEF s, y
<1> QED
  BY <1>17, <1>18, CongruentTrans, EqualRemainders

-----------------------------------------------------------------------------
(* The audit key: committees. *)

Dealt(a, x) == [i \in Members |-> [id |-> i, value |-> (a * i + x) % Order]]

PackageOf(name, x, line) ==
  [sessionId |-> name, publicKey |-> x, publicShares |-> [i \in Members |-> line[i].value]]

\* A committee that is set up holds a line through its secret.
LineDealt(c) ==
  \E x, a \in Scalars, name \in SessionIds :
    /\ name # ""
    /\ secret[c] = x
    /\ shares[c] = Dealt(a, x)
    /\ \A i \in Members : shares[c][i].value # 0
    /\ package[c] = PackageOf(name, x, shares[c])

CommitteesInv ==
  /\ secret = [c \in Committees |-> secret[c]]
  /\ package = [c \in Committees |-> package[c]]
  /\ shares = [c \in Committees |-> shares[c]]
  /\ \A c \in SetUp : LineDealt(c)

ReleasedInv ==
  \A r \in released : \E c, held \in SetUp, i \in Members :
    r = [sessionId |-> package[c].sessionId, packageChecksum |-> package[c],
         share |-> shares[held][i]]

RecoveredInv ==
  \A k \in recovered : \E c \in SetUp : k = [of |-> package[c], key |-> secret[c]]

KeyInv == CommitteesInv /\ ReleasedInv /\ RecoveredInv

\* What the fields of a committee that is set up are.
Consistent(c) ==
  /\ secret[c] \in Scalars /\ package[c].publicKey = secret[c]
  /\ package[c].sessionId # "" /\ package[c] # None
  /\ DOMAIN shares[c] = Members
  /\ \A i \in Members :
       /\ shares[c][i] \in [id : {i}, value : Scalars]
       /\ package[c].publicShares[i] = shares[c][i].value

\* The line that was dealt fixes them.
LEMMA DealtFields ==
  ASSUME NEW c, LineDealt(c)
  PROVE  Consistent(c)
<1>1. PICK x, a \in Scalars, name \in SessionIds :
        /\ name # ""
        /\ secret[c] = x
        /\ shares[c] = Dealt(a, x)
        /\ \A i \in Members : shares[c][i].value # 0
        /\ package[c] = PackageOf(name, x, shares[c])
  BY DEF LineDealt
<1>2. x \in Int /\ a \in Int /\ x # 0
  BY OrderIsOdd DEF Scalars
<1>3. /\ package[c].publicKey = x /\ package[c].sessionId = name
      /\ package[c].publicShares = [i \in Members |-> shares[c][i].value]
  <2>1. package[c] = PackageOf(name, x, shares[c])
    BY <1>1
  <2> DEFINE pack == package[c]
             line == shares[c]
             publics == [i \in Members |-> line[i].value]
  <2>2. pack = [sessionId |-> name, publicKey |-> x, publicShares |-> publics]
    BY <2>1 DEF PackageOf
  <2> HIDE DEF pack, publics
  <2>3. pack.publicKey = x /\ pack.sessionId = name /\ pack.publicShares = publics
    BY <2>2
  <2> QED
    BY <2>3 DEF pack, publics
<1>4. package[c] # None
  <2>1. package[c].sessionId # "" /\ None.sessionId = ""
    BY <1>1, <1>3 DEF None
  <2> QED
    BY <2>1
<1>5. DOMAIN shares[c] = Members
  BY <1>1 DEF Dealt
<1>6. ASSUME NEW i \in Members
      PROVE  shares[c][i] \in [id : {i}, value : Scalars]
  <2>1. shares[c][i] = [id |-> i, value |-> (a * i + x) % Order]
    BY <1>1 DEF Dealt
  <2>2. a * i + x \in Int
    BY <1>2 DEF Members
  <2>3. (a * i + x) % Order \in 0..Order - 1
    BY <2>2, RemainderIsCongruent
  <2>4. shares[c][i].value = (a * i + x) % Order
    BY <2>1
  <2>6. shares[c][i].value # 0
    BY <1>1
  <2>5. (a * i + x) % Order \in Scalars
    BY <2>3, <2>4, <2>6, OrderIsOdd DEF Scalars
  <2> QED
    BY <2>1, <2>5
<1> QED
  BY <1>1, <1>3, <1>4, <1>5, <1>6 DEF Consistent

\* Two shares of a committee interpolate to its secret, multiplied by whatever
\* the shares are multiplied by.
LEMMA SharesGiveSecret ==
  ASSUME NEW c, LineDealt(c), NEW i \in Members, NEW j \in Members, i # j,
         NEW r \in Int, NEW p \in Int, NEW q \in Int,
         Congruent(p, r * shares[c][i].value), Congruent(q, r * shares[c][j].value)
  PROVE  Interpolate(i, p, j, q) = (r * secret[c]) % Order
<1>1. PICK x, a \in Scalars, name \in SessionIds :
        secret[c] = x /\ shares[c] = Dealt(a, x)
  BY DEF LineDealt
<1>2. x \in Int /\ a \in Int /\ r * a \in Int /\ r * x \in Int
  BY OrderIsOdd DEF Scalars
<1>3. ASSUME NEW k \in Members, NEW y \in Int, Congruent(y, r * shares[c][k].value)
      PROVE  Congruent(y, (r * a) * k + r * x)
  <2> DEFINE v == shares[c][k].value
             line == a * k + x
  <2>1. v = line % Order /\ line \in Int
    BY <1>1, <1>2 DEF Dealt, Members
  <2>2. r * line = (r * a) * k + r * x
    BY <1>2 DEF Members
  <2> HIDE DEF line
  <2>3. Congruent(v, line) /\ v \in Int
    BY <2>1, RemainderIsCongruent
  <2>4. Congruent(y, r * v)
    BY <1>3
  <2> HIDE DEF v
  <2>5. Congruent(r, r)
    BY CongruentRefl
  <2>6. Congruent(r * v, r * line)
    BY <2>1, <2>3, <2>5, CongruentMul, Zenon
  <2>7. r * v \in Int /\ r * line \in Int
    BY <2>1, <2>3
  <2>8. Congruent(y, r * line)
    BY <2>4, <2>6, <2>7, CongruentTrans
  <2> QED
    BY <2>2, <2>8
<1> DEFINE b == r * a
           z == r * x
<1>4. Congruent(p, b * i + z) /\ Congruent(q, b * j + z) /\ b \in Int /\ z \in Int
  BY <1>2, <1>3
<1>5. z = r * secret[c]
  BY <1>1
<1> HIDE DEF b, z
<1> QED
  BY <1>4, <1>5, LineThroughTwo

LEMMA InitKeyInv == Init => KeyInv
BY DEF Init, KeyInv, CommitteesInv, ReleasedInv, RecoveredInv, SetUp

\* A recovered key is the secret of the package.
LEMMA RecoveryGivesSecret ==
  ASSUME CommitteesInv, NEW c \in SetUp, NEW r1, NEW r2,
         Genuine(c, r1), Genuine(c, r2), r1.share.id # r2.share.id
  PROVE  RecoverReleased(package[c], r1, r2) = secret[c]
<1>1. LineDealt(c) /\ Consistent(c)
  BY DealtFields DEF CommitteesInv
<1> DOMAIN shares[c] = Members
  BY <1>1 DEF Consistent
<1>2. PICK i \in Members, j \in Members : r1.share = shares[c][i] /\ r2.share = shares[c][j]
  BY DEF Genuine, ToSet
<1>3. r1.share.id = i /\ r2.share.id = j /\ i # j
  BY <1>1, <1>2 DEF Consistent
<1> DEFINE v == r1.share.value
           w == r2.share.value
<1>4. /\ v \in Scalars /\ v = package[c].publicShares[i] /\ v = shares[c][i].value
      /\ w \in Scalars /\ w = package[c].publicShares[j] /\ w = shares[c][j].value
  BY <1>1, <1>2 DEF Consistent
<1>5. \A u \in Scalars : ScalarMultiplication(Generator, u) = u
  BY OrderIsOdd DEF ScalarMultiplication, Generator, Scalars
<1>6. secret[c] \in Scalars /\ package[c].publicKey = secret[c] /\ secret[c] # 0
  <2>1. secret[c] \in Scalars /\ package[c].publicKey = secret[c]
    BY <1>1 DEF Consistent
  <2> QED
    BY <2>1, OrderIsOdd DEF Scalars
<1>7. Interpolate(i, v, j, w) = secret[c]
  <2> HIDE DEF v, w
  <2>1. v \in Int /\ w \in Int /\ 1 * v = v /\ 1 * w = w
    BY <1>4, OrderIsOdd DEF Scalars
  <2>2. Congruent(v, 1 * shares[c][i].value) /\ Congruent(w, 1 * shares[c][j].value)
    BY <1>4, <2>1, CongruentRefl
  <2>3. Interpolate(i, v, j, w) = (1 * secret[c]) % Order
    BY <1>1, <1>3, <2>1, <2>2, SharesGiveSecret
  <2> QED
    BY <1>5, <1>6, <2>3 DEF ScalarMultiplication, Generator
<1>8. ValidateShare(r1.share) /\ ValidateShare(r2.share)
  BY <1>3, <1>4 DEF ValidateShare, ValidScalar
<1>9. RecoverMasterKey(package[c], r1.share, r2.share) = secret[c]
  <2>1. package[c].sessionId # ""
    BY <1>1 DEF Consistent
  <2> HIDE DEF v, w
  <2> QED
    BY <1>3, <1>4, <1>5, <1>6, <1>7, <1>8, <2>1
    DEF RecoverMasterKey, ValidPoint, ValidScalar, v, w
<1> QED
  BY <1>8, <1>9 DEF RecoverReleased, Genuine

\* What is recovered from is genuine: a share with a public share's value is
\* the share dealt.
LEMMA OnlyGenuineRecover ==
  ASSUME CommitteesInv, ReleasedInv, NEW c \in SetUp, NEW r1 \in released, NEW r2 \in released,
         RecoverReleased(package[c], r1, r2) # NoKey
  PROVE  Genuine(c, r1) /\ Genuine(c, r2) /\ r1.share.id # r2.share.id
<1>1. LineDealt(c) /\ Consistent(c)
  BY DealtFields DEF CommitteesInv
<1>2. \A u \in Scalars : ScalarMultiplication(Generator, u) = u
  BY OrderIsOdd DEF ScalarMultiplication, Generator, Scalars
<1> DEFINE s1 == r1.share
           s2 == r2.share
<1>3. /\ ReleasedFor(r1, package[c]) /\ ReleasedFor(r2, package[c])
      /\ RecoverMasterKey(package[c], s1, s2) # NoKey
  BY DEF RecoverReleased
<1>4. /\ s1.id # s2.id
      /\ \A s \in {s1, s2} :
           /\ ValidateShare(s)
           /\ ScalarMultiplication(Generator, s.value) = package[c].publicShares[s.id]
  <2> HIDE DEF s1, s2
  <2> QED
    BY <1>3 DEF RecoverMasterKey
<1>5. ASSUME NEW r \in {r1, r2} PROVE r.share \in ToSet(shares[c])
  <2>1. PICK held \in SetUp, i \in Members : r.share = shares[held][i]
    BY DEF ReleasedInv
  <2>2. r.share \in [id : {i}, value : Scalars]
    <3>1. Consistent(held)
      BY DealtFields DEF CommitteesInv
    <3> QED
      BY <2>1, <3>1 DEF Consistent
  <2>3. /\ r.share.id \in Members /\ r.share.value \in Scalars
        /\ r.share.value = package[c].publicShares[r.share.id]
    BY <1>2, <1>4 DEF ValidateShare, ValidScalar
  <2>4. r.share.id = i
    BY <2>2
  <2>5. shares[c][i] \in [id : {i}, value : Scalars] /\ shares[c][i].value = r.share.value
    BY <1>1, <2>3, <2>4 DEF Consistent
  <2>6. r.share = shares[c][i]
    BY <2>2, <2>5
  <2>7. DOMAIN shares[c] = Members
    BY <1>1 DEF Consistent
  <2> QED
    BY <2>6, <2>7 DEF ToSet
<1> QED
  BY <1>3, <1>4, <1>5 DEF Genuine

\* The invariant says what two released shares recover.
LEMMA KeyInvRecovery ==
  ASSUME KeyInv PROVE RecoveryExact
<1>1. ASSUME NEW c \in SetUp, NEW r1 \in released, NEW r2 \in released
      PROVE  RecoverReleased(package[c], r1, r2) =
               IF Genuine(c, r1) /\ Genuine(c, r2) /\ r1.share.id # r2.share.id
               THEN secret[c] ELSE NoKey
  BY RecoveryGivesSecret, OnlyGenuineRecover DEF KeyInv
<1>2. ASSUME NEW r \in released
      PROVE  r.share \in UNION {ToSet(shares[c]) : c \in SetUp}
  <2>1. PICK held \in SetUp, i \in Members : r.share = shares[held][i]
    BY DEF KeyInv, ReleasedInv
  <2>2. Consistent(held)
    BY DealtFields DEF KeyInv, CommitteesInv
  <2>3. DOMAIN shares[held] = Members
    BY <2>2 DEF Consistent
  <2>4. r.share \in ToSet(shares[held])
    BY <2>1, <2>3 DEF ToSet
  <2> QED
    BY <2>4
<1> QED
  BY <1>1, <1>2 DEF RecoveryExact

\* One lemma per action: the invariant is kept.
LEMMA SetupPreserves ==
  ASSUME KeyInv, NEW c \in Committees, TrustedSetup(c)
  PROVE  KeyInv'
<1>1. PICK x \in Scalars, a \in Scalars, name \in SessionIds :
        /\ \A i \in Members : Dealt(a, x)[i].value # 0
        /\ name # ""
        /\ secret' = [secret EXCEPT ![c] = x]
        /\ shares' = [shares EXCEPT ![c] = Dealt(a, x)]
        /\ package' = [package EXCEPT ![c] =
             [sessionId |-> name, publicKey |-> ScalarMultiplication(Generator, x),
              publicShares |-> [i \in Members |->
                ScalarMultiplication(Generator, Dealt(a, x)[i].value)]]]
  BY DEF TrustedSetup, Dealt
<1>2. package[c] = None /\ released' = released /\ recovered' = recovered
  BY DEF TrustedSetup
<1>3. /\ secret = [d \in Committees |-> secret[d]]
      /\ package = [d \in Committees |-> package[d]]
      /\ shares = [d \in Committees |-> shares[d]]
      /\ \A d \in SetUp : LineDealt(d)
  BY DEF KeyInv, CommitteesInv
<1>4. ScalarMultiplication(Generator, x) = x
  BY OrderIsOdd DEF ScalarMultiplication, Generator, Scalars
<1>5. \A i \in Members :
        ScalarMultiplication(Generator, Dealt(a, x)[i].value) = Dealt(a, x)[i].value
  <2> TAKE i \in Members
  <2> DEFINE y == a * i + x
  <2>1. y \in Int /\ Dealt(a, x)[i].value = y % Order
    BY OrderIsOdd DEF Dealt, Scalars, Members
  <2> HIDE DEF y
  <2>2. y % Order \in 0..Order - 1
    BY <2>1, RemainderIsCongruent
  <2>3. (1 * (y % Order)) % Order = y % Order
    BY <2>2, OrderIsOdd
  <2> QED
    BY <2>1, <2>3 DEF ScalarMultiplication, Generator
<1>6. [i \in Members |-> ScalarMultiplication(Generator, Dealt(a, x)[i].value)]
        = [i \in Members |-> Dealt(a, x)[i].value]
  BY <1>5
<1>7. package' = [package EXCEPT ![c] = PackageOf(name, x, Dealt(a, x))]
  BY <1>1, <1>4, <1>6 DEF PackageOf
<1>8. /\ secret'[c] = x /\ shares'[c] = Dealt(a, x)
      /\ package'[c] = PackageOf(name, x, Dealt(a, x))
  BY <1>1, <1>3, <1>7
<1>9. \A d \in Committees \ {c} :
        secret'[d] = secret[d] /\ shares'[d] = shares[d] /\ package'[d] = package[d]
  BY <1>1, <1>3, <1>7
<1>10. PackageOf(name, x, Dealt(a, x)) # None
  <2>1. PackageOf(name, x, Dealt(a, x)).sessionId = name /\ None.sessionId = ""
    BY DEF PackageOf, None
  <2> QED
    BY <1>1, <2>1
<1>11. SetUp' = SetUp \cup {c} /\ c \notin SetUp
  BY <1>2, <1>8, <1>9, <1>10 DEF SetUp
<1>12. LineDealt(c)'
  <2>1. \A i \in Members : shares'[c][i].value # 0
    BY <1>1, <1>8
  <2> QED
    BY <1>1, <1>8, <2>1 DEF LineDealt
<1>13. ASSUME NEW d \in SetUp PROVE LineDealt(d)'
  <2>1. LineDealt(d) /\ d \in Committees \ {c}
    BY <1>3, <1>11 DEF SetUp
  <2> QED
    BY <1>9, <2>1 DEF LineDealt
<1>14. CommitteesInv'
  <2>1. secret' = [d \in Committees |-> secret'[d]]
    BY <1>1, <1>3
  <2>2. package' = [d \in Committees |-> package'[d]]
    BY <1>3, <1>7
  <2>3. shares' = [d \in Committees |-> shares'[d]]
    BY <1>1, <1>3
  <2>4. \A d \in SetUp' : LineDealt(d)'
    BY <1>11, <1>12, <1>13
  <2> QED
    BY <2>1, <2>2, <2>3, <2>4 DEF CommitteesInv
<1>15. \A d \in SetUp : d \in SetUp' /\ d \in Committees \ {c}
  BY <1>11 DEF SetUp
<1>16. ReleasedInv'
  <2> SUFFICES ASSUME NEW r \in released
               PROVE  \E d, held \in SetUp', i \in Members :
                 r = [sessionId |-> package'[d].sessionId, packageChecksum |-> package'[d],
                      share |-> shares'[held][i]]
    BY <1>2 DEF ReleasedInv
  <2>1. PICK d \in SetUp, held \in SetUp, i \in Members :
          r = [sessionId |-> package[d].sessionId, packageChecksum |-> package[d],
               share |-> shares[held][i]]
    BY DEF KeyInv, ReleasedInv
  <2>2. package'[d] = package[d] /\ shares'[held] = shares[held]
    BY <1>9, <1>15
  <2> QED
    BY <1>15, <2>1, <2>2
<1>17. RecoveredInv'
  <2> SUFFICES ASSUME NEW k \in recovered
               PROVE  \E d \in SetUp' : k = [of |-> package'[d], key |-> secret'[d]]
    BY <1>2 DEF RecoveredInv
  <2>1. PICK d \in SetUp : k = [of |-> package[d], key |-> secret[d]]
    BY DEF KeyInv, RecoveredInv
  <2> QED
    BY <1>9, <1>15, <2>1
<1> QED
  BY <1>14, <1>16, <1>17 DEF KeyInv

LEMMA ReleasePreserves ==
  ASSUME KeyInv, NEW c \in Committees, NEW held \in Committees, NEW i \in Members,
         Release(c, held, i)
  PROVE  KeyInv'
<1>1. /\ c \in SetUp /\ held \in SetUp
      /\ released' = released \cup
           {[sessionId |-> package[c].sessionId, packageChecksum |-> package[c],
             share |-> shares[held][i]]}
      /\ UNCHANGED <<secret, package, shares, recovered>>
  BY DEF Release, SetUp
<1>2. CommitteesInv'
  BY <1>1 DEF KeyInv, CommitteesInv, LineDealt, SetUp
<1>3. RecoveredInv'
  BY <1>1 DEF KeyInv, RecoveredInv, SetUp
<1>4. ReleasedInv'
  BY <1>1 DEF KeyInv, ReleasedInv, SetUp
<1> QED
  BY <1>2, <1>3, <1>4 DEF KeyInv

LEMMA RecoverPreserves ==
  ASSUME KeyInv, NEW c \in Committees, NEW r1 \in released, NEW r2 \in released,
         Recover(c, r1, r2)
  PROVE  KeyInv'
<1> DEFINE key == RecoverReleased(package[c], r1, r2)
<1>1. /\ c \in SetUp
      /\ recovered' = IF key = NoKey THEN recovered
                      ELSE recovered \cup {[of |-> package[c], key |-> key]}
      /\ released' = released
      /\ UNCHANGED <<secret, package, shares>>
  BY DEF Recover, ReleasesAfter, SetUp
<1>2. key # NoKey => key = secret[c]
  BY <1>1, OnlyGenuineRecover, RecoveryGivesSecret DEF KeyInv
<1>3. CommitteesInv'
  BY <1>1 DEF KeyInv, CommitteesInv, LineDealt, SetUp
<1>4. ReleasedInv'
  BY <1>1 DEF KeyInv, ReleasedInv, SetUp
<1>5. RecoveredInv'
  <2> HIDE DEF key
  <2> QED
    BY <1>1, <1>2 DEF KeyInv, RecoveredInv, SetUp
<1> QED
  BY <1>3, <1>4, <1>5 DEF KeyInv

LEMMA KeyInvInductive == KeyInv /\ [Next]_vars => KeyInv'
<1> SUFFICES ASSUME KeyInv, [Next]_vars PROVE KeyInv'
  OBVIOUS
<1>1. CASE \E c \in Committees : TrustedSetup(c)
  BY <1>1, SetupPreserves
<1>2. CASE \E c, held \in Committees, i \in Members : Release(c, held, i)
  BY <1>2, ReleasePreserves
<1>3. CASE \E c \in Committees, r1, r2 \in released : Recover(c, r1, r2)
  BY <1>3, RecoverPreserves
<1>4. CASE UNCHANGED vars
  <2>1. SetUp' = SetUp /\ \A c : LineDealt(c)' <=> LineDealt(c)
    BY <1>4 DEF vars, SetUp, LineDealt
  <2>2. CommitteesInv'
    BY <1>4, <2>1 DEF vars, KeyInv, CommitteesInv
  <2>3. ReleasedInv' /\ RecoveredInv'
    BY <1>4, <2>1 DEF vars, KeyInv, ReleasedInv, RecoveredInv
  <2> QED
    BY <2>2, <2>3 DEF KeyInv
<1> QED
  BY <1>1, <1>2, <1>3, <1>4 DEF Next

\* Two shares recover the key of exactly the package they were released for,
\* for any prime order, committees and sessions (RecoveryExact).
THEOREM AuditKeyRecovery == Spec => []RecoveryExact
<1> QED
  BY InitKeyInv, KeyInvInductive, KeyInvRecovery, PTL DEF Spec

-----------------------------------------------------------------------------
(* The audit key: records. *)

\* Taking off masks gives the message exactly when they are the ones put on.
LEMMA MasksOfTexts ==
  ASSUME NEW text \in Texts, NEW key
  PROVE  /\ Masked(text, key) # <<>> /\ Len(Masked(text, key)) = Len(text)
         /\ \A other : text = Unmasked(Masked(text, key), other) <=> key = other
<1>1. text \in Seq(Elements) /\ Len(text) \in 1..2
  <2>1. CASE \E m \in Elements : text = <<m>>
    BY <2>1
  <2>2. CASE \E m, n \in Elements : text = <<m, n>>
    BY <2>2
  <2> QED
    BY <2>1, <2>2 DEF Texts
<1>2. /\ text = [j \in 1..Len(text) |-> text[j]] /\ DOMAIN text = 1..Len(text)
      /\ 1 \in 1..Len(text) /\ text[1] \in Elements
  BY <1>1
<1> DEFINE data == Masked(text, key)
<1>3. /\ data = [j \in 1..Len(text) |-> [element |-> text[j], mask |-> <<key, j>>]]
      /\ DOMAIN data = 1..Len(text)
  BY <1>2 DEF Masked
<1>4. Len(data) = Len(text)
  <2> HIDE DEF data
  <2> DEFINE entries == {data[j] : j \in 1..Len(text)}
  <2>1. data \in [1..Len(text) -> entries]
    BY <1>3
  <2>2. Len(text) \in Nat
    BY <1>1
  <2> HIDE DEF entries
  <2>3. data \in Seq(entries)
    BY <2>1, <2>2, SeqDef
  <2>4. Len(data) \in Nat /\ DOMAIN data = 1..Len(data)
    BY <2>3, LenProperties
  <2> QED
    BY <1>3, <2>2, <2>4
<1>5. Len(data) = Len(text) /\ data # <<>>
  BY <1>1, <1>4
<1>6. ASSUME NEW other
      PROVE  text = Unmasked(data, other) <=> key = other
  <2>1. Unmasked(data, other) =
          [j \in 1..Len(text) |-> IF <<key, j>> = <<other, j>> THEN text[j] ELSE "garbage"]
    BY <1>3 DEF Unmasked
  <2> HIDE DEF data
  <2>2. CASE key = other
    BY <1>2, <2>1, <2>2
  <2>3. CASE key # other
    <3>1. Unmasked(data, other)[1] = "garbage"
      BY <1>2, <2>1, <2>3
    <3> QED
      BY <1>2, <2>3, <3>1, ElementsAssumption
  <2> QED
    BY <2>2, <2>3
<1> QED
  BY <1>5, <1>6

\* Two partial decryptions of a committee make the key of its masks.
LEMMA PartsCombine ==
  ASSUME NEW c, LineDealt(c), NEW i \in Members, NEW j \in Members, i # j,
         NEW r \in Scalars
  PROVE  CombinePoints(PartialDecrypt(shares[c][i], r), PartialDecrypt(shares[c][j], r))
           = (r * secret[c]) % Order
<1>1. Consistent(c)
  BY DealtFields
<1> DEFINE v == shares[c][i].value
           w == shares[c][j].value
           p == (r * v) % Order
           q == (r * w) % Order
<1>2. v \in Scalars /\ w \in Scalars /\ shares[c][i].id = i /\ shares[c][j].id = j
  BY <1>1 DEF Consistent
<1>3. r \in Int /\ v \in Int /\ w \in Int /\ r * v \in Int /\ r * w \in Int
  BY <1>2, OrderIsOdd DEF Scalars
<1>4. p \in Scalars /\ q \in Scalars
  <2> HIDE DEF v, w
  <2> QED
    BY <1>2, ProductIsNotZero
<1>5. Congruent(p, r * v) /\ Congruent(q, r * w)
  <2> DEFINE rv == r * v
             rw == r * w
  <2>1. rv \in Int /\ rw \in Int
    BY <1>3
  <2> HIDE DEF rv, rw
  <2>2. Congruent(rv % Order, rv) /\ Congruent(rw % Order, rw)
    BY <2>1, RemainderIsCongruent
  <2> QED
    BY <2>2 DEF rv, rw
<1>6. Interpolate(i, p, j, q) = (r * secret[c]) % Order
  <2>1. p \in Int /\ q \in Int
    BY <1>4, OrderIsOdd DEF Scalars
  <2>2. Congruent(p, r * shares[c][i].value) /\ Congruent(q, r * shares[c][j].value)
    BY <1>5
  <2> HIDE DEF p, q
  <2> QED
    BY <1>3, <2>1, <2>2, SharesGiveSecret
<1>7. /\ PartialDecrypt(shares[c][i], r) = [id |-> i, point |-> p]
      /\ PartialDecrypt(shares[c][j], r) = [id |-> j, point |-> q]
  BY <1>2 DEF PartialDecrypt, ScalarMultiplication
<1>8. p # 0 /\ q # 0
  BY <1>4, OrderIsOdd DEF Scalars
<1> HIDE DEF p, q
<1> QED
  BY <1>6, <1>7, <1>8 DEF CombinePoints, ValidPoint

\* The invariant says who can read a record.
LEMMA KeyInvRecords ==
  ASSUME KeyInv PROVE RecordsReadable
<1> SUFFICES ASSUME NEW c \in SetUp, NEW r \in Scalars, NEW text \in Texts
             PROVE
    LET pk == package[c].publicKey IN
    /\ \A i, j \in Members, used, given \in Contexts :
         LET ct == Encrypt(pk, used, text, r) IN
         i # j => (used = given <=>
                     text = CombineAndDecrypt(given, ct,
                              PartialDecrypt(shares[c][i], ct.r1),
                              PartialDecrypt(shares[c][j], ct.r1)))
    /\ \A k \in recovered :
         text = DecryptWithMasterKey(k.key, EncryptWithMasterPublicKey(pk, text, r))
           <=> k.of.publicKey = pk
  BY DEF RecordsReadable
<1> DEFINE pk == package[c].publicKey
<1>1. LineDealt(c) /\ Consistent(c)
  BY DealtFields DEF KeyInv, CommitteesInv
<1>2. pk = secret[c] /\ pk \in Scalars
  BY <1>1 DEF Consistent
<1> HIDE DEF pk
<1>3. ScalarMultiplication(Generator, r) = r /\ r # 0 /\ r \in Int /\ pk \in Int
  BY <1>2, OrderIsOdd DEF ScalarMultiplication, Generator, Scalars
<1>4. ScalarMultiplication(pk, r) = (r * pk) % Order /\ (r * pk) % Order \in Scalars
  <2>1. pk * r = r * pk
    BY <1>3
  <2> QED
    BY <1>2, <2>1, ProductIsNotZero DEF ScalarMultiplication
<1> DEFINE z == (r * pk) % Order
<1>5. z # 0
  BY <1>4, OrderIsOdd DEF Scalars
<1>6. ASSUME NEW i \in Members, NEW j \in Members, i # j,
             NEW used \in Contexts, NEW given \in Contexts
      PROVE  LET ct == Encrypt(pk, used, text, r) IN
             used = given <=>
               text = CombineAndDecrypt(given, ct, PartialDecrypt(shares[c][i], ct.r1),
                                                   PartialDecrypt(shares[c][j], ct.r1))
  <2> DEFINE ct == Encrypt(pk, used, text, r)
             data == Masked(text, <<z, used, Len(text)>>)
             p1 == PartialDecrypt(shares[c][i], r)
             p2 == PartialDecrypt(shares[c][j], r)
  <2>1. ct.r1 = r /\ ct.data = data
    BY <1>3, <1>4 DEF Encrypt
  <2>2. CombinePoints(p1, p2) = z
    BY <1>1, <1>2, <1>6, PartsCombine
  <2>3. data # <<>> /\ Len(data) = Len(text)
    BY MasksOfTexts
  <2>4. text = Unmasked(data, <<z, given, Len(text)>>)
          <=> <<z, used, Len(text)>> = <<z, given, Len(text)>>
    BY MasksOfTexts
  <2> HIDE DEF ct, data, p1, p2, z
  <2>5. CombineAndDecrypt(given, ct, p1, p2) = Unmasked(data, <<z, given, Len(text)>>)
    BY <1>3, <1>5, <2>1, <2>2, <2>3 DEF CombineAndDecrypt, ValidPoint
  <2>6. used = given <=> text = CombineAndDecrypt(given, ct, p1, p2)
    BY <2>4, <2>5
  <2> QED
    BY <2>1, <2>6 DEF ct, p1, p2
<1>7. ASSUME NEW k \in recovered
      PROVE  text = DecryptWithMasterKey(k.key, EncryptWithMasterPublicKey(pk, text, r))
               <=> k.of.publicKey = pk
  <2>1. PICK d \in SetUp : k = [of |-> package[d], key |-> secret[d]]
    BY DEF KeyInv, RecoveredInv
  <2>2. Consistent(d)
    BY DealtFields DEF KeyInv, CommitteesInv
  <2> DEFINE m == k.key
             y == (r * m) % Order
             ct == EncryptWithMasterPublicKey(pk, text, r)
             data == Masked(text, <<z>>)
  <2>3. m \in Scalars /\ k.of.publicKey = m
    BY <2>1, <2>2 DEF Consistent
  <2>4. ct.r1 = r /\ ct.data = data
    BY <1>3, <1>4 DEF EncryptWithMasterPublicKey
  <2>5. data # <<>> /\ (text = Unmasked(data, <<y>>) <=> <<z>> = <<y>>)
    BY MasksOfTexts
  <2>6. z = y <=> pk = m
    <3> HIDE DEF m
    <3> QED
      BY <1>2, <2>3, ProductIsInjective
  <2> HIDE DEF m, y, ct, data, z
  <2>7. DecryptWithMasterKey(m, ct) = Unmasked(data, <<y>>)
    BY <1>3, <2>3, <2>4, <2>5
    DEF DecryptWithMasterKey, ValidScalar, ValidPoint, ScalarMultiplication, y
  <2>8. text = DecryptWithMasterKey(m, ct) <=> k.of.publicKey = pk
    BY <2>3, <2>5, <2>6, <2>7
  <2> QED
    BY <2>8 DEF m, ct
<1> QED
  BY <1>6, <1>7 DEF pk

\* Every record can be read, by exactly those it is encrypted for
\* (RecordsReadable).
THEOREM AuditRecordsReadable == Spec => []RecordsReadable
<1> QED
  BY InitKeyInv, KeyInvInductive, KeyInvRecords, PTL DEF Spec

-----------------------------------------------------------------------------
(* Hash trees. *)

\* Induction over the levels of a tree.
LEMMA LevelInduction ==
  ASSUME NEW D \in Nat, NEW P, 0 \in P, \A l \in 0..D - 1 : l \in P => l + 1 \in P
  PROVE  \A l \in 0..D : l \in P
<1> DEFINE bad == {l \in 0..D : l \notin P}
<1> SUFFICES ASSUME bad # {} PROVE FALSE
  OBVIOUS
<1>1. PICK l \in bad : \A k \in bad : ~ (k < l)
  <2>1. bad \subseteq Nat
    OBVIOUS
  <2> HIDE DEF bad
  <2>2. PICK l \in bad : \A k \in bad : ~ (<<k, l>> \in OpToRel(<, Nat))
    BY <2>1, NatLessThanWellFounded, WFMin
  <2>3. \A k \in bad : k < l => <<k, l>> \in OpToRel(<, Nat)
    BY <2>1 DEF OpToRel
  <2> QED
    BY <2>2, <2>3
<1>2. l \in 0..D /\ l \notin P /\ l # 0
  OBVIOUS
<1>3. l - 1 \in 0..D - 1 /\ (l - 1) + 1 = l /\ l - 1 \in 0..D /\ l - 1 < l
  BY <1>2
<1>4. l - 1 \notin P
  BY <1>2, <1>3
<1> QED
  BY <1>1, <1>3, <1>4

\* The powers of two, as far as n.
IsPow2(f, n) == f = [m \in 0..n |-> IF m = 0 THEN 1 ELSE 2 * f[m - 1]]

LEMMA Pow2Exists == \A n \in Nat : \E f : IsPow2(f, n)
<1> SUFFICES ASSUME NEW n \in Nat PROVE \E f : IsPow2(f, n)
  OBVIOUS
<1> DEFINE P == {k \in 0..n : \E f : IsPow2(f, k)}
<1>1. 0 \in P
  <2> DEFINE f == [m \in 0..0 |-> 1]
  <2>1. IsPow2(f, 0)
    BY DEF IsPow2
  <2> QED
    BY <2>1
<1>2. ASSUME NEW k \in 0..n - 1, k \in P PROVE k + 1 \in P
  <2>1. PICK f : IsPow2(f, k)
    BY <1>2
  <2> DEFINE g == [m \in 0..k + 1 |-> IF m = k + 1 THEN 2 * f[k] ELSE f[m]]
  <2>2. \A m \in 0..k + 1 : g[m] = IF m = 0 THEN 1 ELSE 2 * g[m - 1]
    BY <2>1 DEF IsPow2
  <2>3. IsPow2(g, k + 1)
    BY <2>2 DEF IsPow2
  <2> QED
    BY <2>3
<1> HIDE DEF P
<1>3. n \in P
  BY <1>1, <1>2, LevelInduction
<1> QED
  BY <1>3 DEF P

LEMMA Pow2Unique ==
  ASSUME NEW n \in Nat, NEW k \in Nat, n <= k, NEW f, IsPow2(f, n), NEW g, IsPow2(g, k)
  PROVE  f[n] = g[n]
<1> DEFINE P == {m \in 0..n : f[m] = g[m]}
<1>1. 0 \in P
  BY DEF IsPow2
<1>2. \A m \in 0..n - 1 : m \in P => m + 1 \in P
  <2> SUFFICES ASSUME NEW m \in 0..n - 1, f[m] = g[m] PROVE f[m + 1] = g[m + 1]
    OBVIOUS
  <2>1. f[m + 1] = 2 * f[(m + 1) - 1] /\ g[m + 1] = 2 * g[(m + 1) - 1]
    BY DEF IsPow2
  <2> QED
    BY <2>1
<1> HIDE DEF P
<1>3. n \in P
  BY <1>1, <1>2, LevelInduction
<1> QED
  BY <1>3 DEF P

LEMMA Pow2Def == Pow2 = [n \in Nat |-> IF n = 0 THEN 1 ELSE 2 * Pow2[n - 1]]
<1> DEFINE part(n) == CHOOSE f : IsPow2(f, n)
           g == [n \in Nat |-> part(n)[n]]
<1>1. \A n \in Nat : IsPow2(part(n), n)
  BY Pow2Exists
<1> HIDE DEF part
<1>2. ASSUME NEW n \in Nat PROVE g[n] = IF n = 0 THEN 1 ELSE 2 * g[n - 1]
  <2>1. CASE n = 0
    BY <1>1, <2>1 DEF IsPow2
  <2>2. CASE n # 0
    <3>1. part(n)[n] = 2 * part(n)[n - 1]
      BY <1>1, <2>2 DEF IsPow2
    <3>2. n - 1 \in Nat /\ n - 1 <= n
      BY <2>2
    <3>3. IsPow2(part(n - 1), n - 1) /\ IsPow2(part(n), n)
      BY <1>1, <3>2
    <3>4. part(n - 1)[n - 1] = part(n)[n - 1]
      BY <3>2, <3>3, Pow2Unique
    <3> QED
      BY <2>2, <3>1, <3>2, <3>4
  <2> QED
    BY <2>1, <2>2
<1>3. g = [n \in Nat |-> IF n = 0 THEN 1 ELSE 2 * g[n - 1]]
  BY <1>2
<1> HIDE DEF g
<1> QED
  BY <1>3 DEF Pow2

LEMMA Pow2Facts ==
  /\ Pow2[0] = 1
  /\ \A n \in Nat : Pow2[n + 1] = 2 * Pow2[n] /\ Pow2[n] \in Nat /\ Pow2[n] >= 1
<1>1. Pow2[0] = 1 /\ \A n \in Nat : Pow2[n + 1] = 2 * Pow2[n]
  BY Pow2Def
<1>2. ASSUME NEW n \in Nat PROVE Pow2[n] \in Nat /\ Pow2[n] >= 1
  <2> DEFINE P == {m \in 0..n : Pow2[m] \in Nat /\ Pow2[m] >= 1}
  <2>1. 0 \in P
    BY <1>1
  <2>2. \A m \in 0..n - 1 : m \in P => m + 1 \in P
    BY <1>1
  <2> HIDE DEF P
  <2>3. n \in P
    BY <2>1, <2>2, LevelInduction
  <2> QED
    BY <2>3 DEF P
<1> QED
  BY <1>1, <1>2

LEMMA HalfQuotient ==
  ASSUME NEW i \in Nat, NEW m \in Nat, m >= 1
  PROVE  i \div (2 * m) = (i \div m) \div 2
<1>1. PICK q \in Nat, r \in 0..m - 1 : i = m * q + r /\ q = i \div m
  <2>1. i \div m \in Nat /\ i % m \in 0..m - 1 /\ i = m * (i \div m) + (i % m)
    OBVIOUS
  <2> QED
    BY <2>1
<1>2. PICK p \in Nat, s \in 0..1 : q = 2 * p + s /\ p = q \div 2
  <2>1. q \div 2 \in Nat /\ q % 2 \in 0..1 /\ q = 2 * (q \div 2) + (q % 2)
    BY DivisionOf
  <2> QED
    BY <2>1
<1>3. m * q = (2 * m) * p + m * s
  <2>1. m * (2 * p + s) = (2 * m) * p + m * s
    BY <1>2
  <2> QED
    BY <1>2, <2>1
<1>4. m * s \in {0, m}
  BY <1>2
<1>5. PICK t \in Nat : t = m * s
  BY <1>4
<1>6. t + r \in 0..2 * m - 1
  BY <1>1, <1>4, <1>5
<1>7. i = (2 * m) * p + (t + r)
  BY <1>1, <1>3, <1>5
<1>8. 2 * m \in Nat /\ i \in Int /\ p \in Int
  BY <1>2
<1>9. i \div (2 * m) = p
  BY <1>6, <1>7, <1>8, QuotientIs
<1> QED
  BY <1>1, <1>2, <1>9

\* A node and its neighbour are the two children of the node above.
Parent(a, b) ==
  /\ IsLeft(a) => a = 2 * b /\ Neighbour(a) = 2 * b + 1
  /\ ~ IsLeft(a) => a = 2 * b + 1 /\ Neighbour(a) = 2 * b

LEMMA AncestorFacts ==
  ASSUME NEW D \in Nat, NEW index \in 0..Pow2[D] - 1
  PROVE  /\ Ancestor(index, 0) = index /\ Ancestor(index, D) = 0
         /\ \A l \in 0..D :
              /\ Ancestor(index, l) \in 0..Pow2[D - l] - 1
              /\ Ancestor(index, l) \in Nat
         /\ \A l \in 0..D - 1 :
              /\ Neighbour(Ancestor(index, l)) \in 0..Pow2[D - l] - 1
              /\ Neighbour(Ancestor(index, l)) # Ancestor(index, l)
              /\ Parent(Ancestor(index, l), Ancestor(index, l + 1))
<1>1. index \in Nat
  BY Pow2Facts
<1>2. \A l \in Nat : Ancestor(index, l) \in Nat
  <2> SUFFICES ASSUME NEW l \in Nat PROVE Ancestor(index, l) \in Nat
    OBVIOUS
  <2>1. PICK m \in Nat : m = Pow2[l] /\ m >= 1
    BY Pow2Facts
  <2>2. index \div m \in Nat
    BY <1>1, <2>1
  <2> QED
    BY <2>1, <2>2 DEF Ancestor
<1>3. ASSUME NEW l \in Nat
      PROVE  Ancestor(index, l + 1) = Ancestor(index, l) \div 2
  <2>1. PICK m \in Nat : m = Pow2[l] /\ m >= 1 /\ Pow2[l + 1] = 2 * m
    BY Pow2Facts
  <2>2. index \div (2 * m) = (index \div m) \div 2
    BY <1>1, <2>1, HalfQuotient
  <2> QED
    BY <2>1, <2>2 DEF Ancestor
<1>4. ASSUME NEW l \in Nat PROVE Parent(Ancestor(index, l), Ancestor(index, l + 1))
  <2>1. PICK a \in Nat : a = Ancestor(index, l)
    BY <1>2
  <2>2. Ancestor(index, l + 1) = a \div 2
    BY <1>3, <2>1
  <2>3. a = 2 * (a \div 2) + (a % 2) /\ a % 2 \in 0..1
    BY <2>1
  <2> QED
    BY <2>1, <2>2, <2>3 DEF Parent, IsLeft, Neighbour
<1>5. Ancestor(index, 0) = index
  BY <1>1, Pow2Facts DEF Ancestor
<1>6. \A l \in 0..D : Ancestor(index, l) \in 0..Pow2[D - l] - 1
  <2> DEFINE P == {l \in 0..D : Ancestor(index, l) \in 0..Pow2[D - l] - 1}
  <2>1. 0 \in P
    BY <1>5
  <2>2. ASSUME NEW l \in 0..D - 1, l \in P PROVE l + 1 \in P
    <3>1. PICK w \in Nat : w = Pow2[D - (l + 1)] /\ Pow2[D - l] = 2 * w
      <4>1. D - (l + 1) \in Nat /\ (D - (l + 1)) + 1 = D - l
        OBVIOUS
      <4> QED
        BY <4>1, Pow2Facts
    <3>2. Ancestor(index, l) \in 0..2 * w - 1
      BY <2>2, <3>1
    <3>3. Ancestor(index, l + 1) \in Nat /\ Parent(Ancestor(index, l), Ancestor(index, l + 1))
      BY <1>2, <1>4
    <3>4. Ancestor(index, l + 1) \in 0..w - 1
      BY <3>1, <3>2, <3>3 DEF Parent
    <3> QED
      BY <3>1, <3>4
  <2> HIDE DEF P
  <2>3. \A l \in 0..D : l \in P
    BY <2>1, <2>2, LevelInduction
  <2> QED
    BY <2>3 DEF P
<1>7. Ancestor(index, D) = 0
  BY <1>6, Pow2Facts
<1>8. ASSUME NEW l \in 0..D - 1
      PROVE  /\ Neighbour(Ancestor(index, l)) \in 0..Pow2[D - l] - 1
             /\ Neighbour(Ancestor(index, l)) # Ancestor(index, l)
  <2>1. PICK w \in Nat : w = Pow2[D - (l + 1)] /\ Pow2[D - l] = 2 * w
    <3>1. D - (l + 1) \in Nat /\ (D - (l + 1)) + 1 = D - l
      OBVIOUS
    <3> QED
      BY <3>1, Pow2Facts
  <2>2. Ancestor(index, l + 1) \in 0..w - 1
    <3>1. l + 1 \in 0..D
      OBVIOUS
    <3> QED
      BY <1>6, <2>1, <3>1
  <2> QED
    BY <1>4, <2>1, <2>2 DEF Parent
<1> QED
  BY <1>2, <1>4, <1>5, <1>6, <1>7, <1>8

\* The three recursions over levels.
IsEmptyHashes(f, empty, k) ==
  f = [l \in 0..k |-> IF l = 0 THEN empty ELSE Compress(f[l - 1], f[l - 1])]

LEMMA EmptyHashesDef ==
  ASSUME NEW empty, NEW D \in Nat
  PROVE  /\ EmptyHashes(empty, D)[0] = empty
         /\ \A l \in 0..D - 1 :
              EmptyHashes(empty, D)[l + 1] =
                Compress(EmptyHashes(empty, D)[l], EmptyHashes(empty, D)[l])
<1> DEFINE P == {k \in 0..D : \E f : IsEmptyHashes(f, empty, k)}
<1>1. 0 \in P
  <2> DEFINE f == [l \in 0..0 |-> empty]
  <2>1. IsEmptyHashes(f, empty, 0)
    BY DEF IsEmptyHashes
  <2> QED
    BY <2>1
<1>2. ASSUME NEW k \in 0..D - 1, k \in P PROVE k + 1 \in P
  <2>1. PICK f : IsEmptyHashes(f, empty, k)
    BY <1>2
  <2> DEFINE g == [l \in 0..k + 1 |-> IF l = k + 1 THEN Compress(f[k], f[k]) ELSE f[l]]
  <2>2. ASSUME NEW l \in 0..k + 1
        PROVE  g[l] = IF l = 0 THEN empty ELSE Compress(g[l - 1], g[l - 1])
    <3>1. CASE l = k + 1
      <4>1. g[l - 1] = f[k] /\ l # 0
        BY <3>1
      <4> QED
        BY <3>1, <4>1
    <3>2. CASE l # k + 1
      <4>1. l \in 0..k
        BY <3>2
      <4>2. f[l] = IF l = 0 THEN empty ELSE Compress(f[l - 1], f[l - 1])
        BY <2>1, <4>1 DEF IsEmptyHashes
      <4>3. l # 0 => g[l - 1] = f[l - 1]
        BY <4>1
      <4> QED
        BY <4>1, <4>2, <4>3
    <3> QED
      BY <3>1, <3>2
  <2>3. g = [l \in 0..k + 1 |-> g[l]]
    OBVIOUS
  <2> HIDE DEF g
  <2>4. IsEmptyHashes(g, empty, k + 1)
    BY <2>2, <2>3 DEF IsEmptyHashes
  <2> QED
    BY <2>4
<1> HIDE DEF P
<1>3. D \in P
  BY <1>1, <1>2, LevelInduction
<1>4. \E f : IsEmptyHashes(f, empty, D)
  BY <1>3 DEF P
<1>5. IsEmptyHashes(EmptyHashes(empty, D), empty, D)
  BY <1>4 DEF IsEmptyHashes, EmptyHashes
<1> DEFINE z == EmptyHashes(empty, D)
<1> HIDE DEF z
<1>6. IsEmptyHashes(z, empty, D)
  BY <1>5 DEF z
<1>7. z[0] = empty
  BY <1>6 DEF IsEmptyHashes
<1>8. ASSUME NEW l \in 0..D - 1 PROVE z[l + 1] = Compress(z[l], z[l])
  <2>1. l + 1 \in 0..D /\ l + 1 # 0 /\ (l + 1) - 1 = l
    OBVIOUS
  <2> QED
    BY <1>6, <2>1 DEF IsEmptyHashes
<1> QED
  BY <1>7, <1>8 DEF z

IsHashes(f, leaf, index, siblings, k) ==
  f = [l \in 0..k |->
         IF l = 0 THEN leaf
         ELSE IF IsLeft(Ancestor(index, l - 1))
              THEN Compress(f[l - 1], siblings[l - 1])
              ELSE Compress(siblings[l - 1], f[l - 1])]

\* The hash above h, on the way from index.
Above(h, index, siblings, l) ==
  IF IsLeft(Ancestor(index, l)) THEN Compress(h, siblings[l]) ELSE Compress(siblings[l], h)

LEMMA HashesDef ==
  ASSUME NEW leaf, NEW index, NEW siblings, NEW D \in Nat
  PROVE  /\ IsHashes(Hashes(leaf, index, siblings, D), leaf, index, siblings, D)
         /\ Hashes(leaf, index, siblings, D)[0] = leaf
         /\ \A l \in 0..D - 1 :
              Hashes(leaf, index, siblings, D)[l + 1] =
                Above(Hashes(leaf, index, siblings, D)[l], index, siblings, l)
<1> DEFINE Is(f, k) == IsHashes(f, leaf, index, siblings, k)
           P == {k \in 0..D : \E f : Is(f, k)}
<1>1. 0 \in P
  <2> DEFINE f == [l \in 0..0 |-> leaf]
  <2>1. Is(f, 0)
    BY DEF IsHashes
  <2> QED
    BY <2>1
<1>2. ASSUME NEW k \in 0..D - 1, k \in P PROVE k + 1 \in P
  <2>1. PICK f : Is(f, k)
    BY <1>2
  <2> DEFINE g == [l \in 0..k + 1 |-> IF l = k + 1 THEN Above(f[k], index, siblings, k)
                                                     ELSE f[l]]
  <2>2. ASSUME NEW l \in 0..k + 1
        PROVE  g[l] = IF l = 0 THEN leaf ELSE Above(g[l - 1], index, siblings, l - 1)
    <3>1. CASE l = k + 1
      <4>1. g[l - 1] = f[k] /\ l # 0 /\ l - 1 = k
        BY <3>1
      <4> HIDE DEF g
      <4>2. g[l] = Above(f[k], index, siblings, k)
        BY <3>1 DEF g
      <4> QED
        BY <4>1, <4>2
    <3>2. CASE l # k + 1
      <4>1. l \in 0..k
        BY <3>2
      <4>2. f[l] = IF l = 0 THEN leaf ELSE Above(f[l - 1], index, siblings, l - 1)
        BY <2>1, <4>1 DEF IsHashes, Above
      <4>3. l # 0 => g[l - 1] = f[l - 1]
        BY <4>1
      <4>4. g[l] = f[l]
        BY <3>2
      <4> HIDE DEF g
      <4> QED
        BY <4>2, <4>3, <4>4
    <3> QED
      BY <3>1, <3>2
  <2>3. g = [l \in 0..k + 1 |-> g[l]]
    OBVIOUS
  <2> HIDE DEF g
  <2>4. g = [l \in 0..k + 1 |-> IF l = 0 THEN leaf
                                ELSE Above(g[l - 1], index, siblings, l - 1)]
    BY <2>2, <2>3
  <2>5. Is(g, k + 1)
    BY <2>4 DEF IsHashes, Above
  <2> QED
    BY <2>5
<1> HIDE DEF P
<1>3. D \in P
  BY <1>1, <1>2, LevelInduction
<1>4. \E f : Is(f, D)
  BY <1>3 DEF P
<1>5. Is(Hashes(leaf, index, siblings, D), D)
  BY <1>4 DEF IsHashes, Hashes
<1> DEFINE c == Hashes(leaf, index, siblings, D)
<1> HIDE DEF c
<1>6. IsHashes(c, leaf, index, siblings, D)
  BY <1>5 DEF c
<1>7. c[0] = leaf
  BY <1>6 DEF IsHashes
<1>8. ASSUME NEW l \in 0..D - 1 PROVE c[l + 1] = Above(c[l], index, siblings, l)
  <2>1. l + 1 \in 0..D /\ l + 1 # 0 /\ (l + 1) - 1 = l
    OBVIOUS
  <2> QED
    BY <1>6, <2>1 DEF IsHashes, Above
<1> QED
  BY <1>5, <1>7, <1>8 DEF c

LEMMA HashesUnique ==
  ASSUME NEW leaf, NEW index, NEW siblings, NEW D \in Nat,
         NEW f, IsHashes(f, leaf, index, siblings, D)
  PROVE  \A l \in 0..D : f[l] = Hashes(leaf, index, siblings, D)[l]
<1> DEFINE c == Hashes(leaf, index, siblings, D)
           P == {l \in 0..D : f[l] = c[l]}
<1>1. 0 \in P
  BY HashesDef DEF IsHashes
<1>2. ASSUME NEW l \in 0..D - 1, l \in P PROVE l + 1 \in P
  <2>1. l + 1 \in 0..D /\ l + 1 # 0 /\ (l + 1) - 1 = l
    OBVIOUS
  <2>2. f[l + 1] = Above(f[l], index, siblings, l)
    BY <2>1 DEF IsHashes, Above
  <2>3. c[l + 1] = Above(c[l], index, siblings, l)
    BY HashesDef
  <2> QED
    BY <1>2, <2>1, <2>2, <2>3
<1> HIDE DEF P, c
<1>3. \A l \in 0..D : l \in P
  BY <1>1, <1>2, LevelInduction
<1> QED
  BY <1>3 DEF P, c

Row(below, l, D) ==
  [p \in 0..Pow2[D - l] - 1 |-> Compress(below[2 * p], below[2 * p + 1])]

IsTree(f, leaves, D, k) ==
  f = [l \in 0..k |-> IF l = 0 THEN leaves ELSE Row(f[l - 1], l, D)]

LEMMA CompleteTreeDef ==
  ASSUME NEW leaves, NEW D \in Nat
  PROVE  /\ CompleteTree(leaves, D)[0] = leaves
         /\ \A l \in 0..D - 1 : \A p \in 0..Pow2[D - (l + 1)] - 1 :
              CompleteTree(leaves, D)[l + 1][p] =
                Compress(CompleteTree(leaves, D)[l][2 * p],
                         CompleteTree(leaves, D)[l][2 * p + 1])
<1> DEFINE Is(f, k) == IsTree(f, leaves, D, k)
           P == {k \in 0..D : \E f : Is(f, k)}
<1>1. 0 \in P
  <2> DEFINE f == [l \in 0..0 |-> leaves]
  <2>1. Is(f, 0)
    BY DEF IsTree
  <2> QED
    BY <2>1
<1>2. ASSUME NEW k \in 0..D - 1, k \in P PROVE k + 1 \in P
  <2>1. PICK f : Is(f, k)
    BY <1>2
  <2> DEFINE g == [l \in 0..k + 1 |-> IF l = k + 1 THEN Row(f[k], k + 1, D) ELSE f[l]]
  <2>2. ASSUME NEW l \in 0..k + 1
        PROVE  g[l] = IF l = 0 THEN leaves ELSE Row(g[l - 1], l, D)
    <3>1. CASE l = k + 1
      <4>1. g[l - 1] = f[k] /\ l # 0
        BY <3>1
      <4>2. g[l] = Row(f[k], k + 1, D)
        BY <3>1
      <4> HIDE DEF g
      <4> QED
        BY <3>1, <4>1, <4>2
    <3>2. CASE l # k + 1
      <4>1. l \in 0..k
        BY <3>2
      <4>2. f[l] = IF l = 0 THEN leaves ELSE Row(f[l - 1], l, D)
        BY <2>1, <4>1 DEF IsTree
      <4>3. l # 0 => g[l - 1] = f[l - 1]
        BY <4>1
      <4>4. g[l] = f[l]
        BY <3>2
      <4> HIDE DEF g
      <4> QED
        BY <4>2, <4>3, <4>4
    <3> QED
      BY <3>1, <3>2
  <2>3. g = [l \in 0..k + 1 |-> g[l]]
    OBVIOUS
  <2> HIDE DEF g
  <2>4. Is(g, k + 1)
    BY <2>2, <2>3 DEF IsTree
  <2> QED
    BY <2>4
<1> HIDE DEF P
<1>3. D \in P
  BY <1>1, <1>2, LevelInduction
<1>4. \E f : Is(f, D)
  BY <1>3 DEF P
<1>5. Is(CompleteTree(leaves, D), D)
  BY <1>4 DEF IsTree, CompleteTree, Row
<1> DEFINE t == CompleteTree(leaves, D)
<1> HIDE DEF t
<1>6. IsTree(t, leaves, D, D)
  BY <1>5 DEF t
<1>7. t[0] = leaves
  BY <1>6 DEF IsTree
<1>8. ASSUME NEW l \in 0..D - 1, NEW p \in 0..Pow2[D - (l + 1)] - 1
      PROVE  t[l + 1][p] = Compress(t[l][2 * p], t[l][2 * p + 1])
  <2>1. l + 1 \in 0..D /\ l + 1 # 0 /\ (l + 1) - 1 = l
    OBVIOUS
  <2>2. t[l + 1] = Row(t[l], l + 1, D)
    BY <1>6, <2>1 DEF IsTree
  <2>3. Row(t[l], l + 1, D)[p] = Compress(t[l][2 * p], t[l][2 * p + 1])
    BY DEF Row
  <2> QED
    BY <2>2, <2>3
<1> QED
  BY <1>7, <1>8 DEF t

LEMMA CompressInjective ==
  \A a, b, c, d : Compress(a, b) = Compress(c, d) <=> a = c /\ b = d
BY DEF Compress

\* The positions of a level of a tree of depth D.
LEMMA ChildrenAreInTree ==
  ASSUME NEW D \in Nat, NEW l \in 0..D - 1, NEW p \in 0..Pow2[D - (l + 1)] - 1
  PROVE  /\ p \in Nat
         /\ 2 * p \in 0..Pow2[D - l] - 1
         /\ 2 * p + 1 \in 0..Pow2[D - l] - 1
<1>1. D - (l + 1) \in Nat /\ (D - (l + 1)) + 1 = D - l
  OBVIOUS
<1>2. PICK w \in Nat : w = Pow2[D - (l + 1)] /\ Pow2[D - l] = 2 * w
  BY <1>1, Pow2Facts
<1> QED
  BY <1>2

\* The hash of a node is that of the two below it, one on the way up from
\* index, the other its neighbour.
LEMMA NodeOnTheWay ==
  ASSUME NEW leaves, NEW D \in Nat, NEW index \in 0..Pow2[D] - 1, NEW siblings,
         NEW l \in 0..D - 1,
         siblings[l] = CompleteTree(leaves, D)[l][Neighbour(Ancestor(index, l))]
  PROVE  CompleteTree(leaves, D)[l + 1][Ancestor(index, l + 1)] =
           Above(CompleteTree(leaves, D)[l][Ancestor(index, l)], index, siblings, l)
<1> DEFINE t == CompleteTree(leaves, D)
           a == Ancestor(index, l)
           b == Ancestor(index, l + 1)
<1>1. l + 1 \in 0..D
  OBVIOUS
<1>2. b \in 0..Pow2[D - (l + 1)] - 1 /\ Parent(a, b)
  BY <1>1, AncestorFacts
<1>3. t[l + 1][b] = Compress(t[l][2 * b], t[l][2 * b + 1])
  BY <1>2, CompleteTreeDef
<1> HIDE DEF t, a, b
<1>4. CASE IsLeft(a)
  <2>1. 2 * b = a /\ 2 * b + 1 = Neighbour(a)
    BY <1>2, <1>4 DEF Parent
  <2>2. Above(t[l][a], index, siblings, l) = Compress(t[l][a], siblings[l])
    BY <1>4 DEF Above, a
  <2> QED
    BY <1>3, <2>1, <2>2 DEF t, a, b
<1>5. CASE ~ IsLeft(a)
  <2>1. 2 * b + 1 = a /\ 2 * b = Neighbour(a)
    BY <1>2, <1>5 DEF Parent
  <2>2. Above(t[l][a], index, siblings, l) = Compress(siblings[l], t[l][a])
    BY <1>5 DEF Above, a
  <2> QED
    BY <1>3, <2>1, <2>2 DEF t, a, b
<1> QED
  BY <1>4, <1>5

AreSiblings(siblings, leaves, D, index) ==
  \A l \in 0..D - 1 :
    siblings[l] = CompleteTree(leaves, D)[l][Neighbour(Ancestor(index, l))]

\* Siblings taken from a complete tree open its root to the leaf that is there
\* and to no other.
LEMMA HashesOpen ==
  ASSUME NEW leaves, NEW D \in Nat, NEW index \in 0..Pow2[D] - 1, NEW siblings, NEW leaf,
         AreSiblings(siblings, leaves, D, index)
  PROVE  \A l \in 0..D :
           Hashes(leaf, index, siblings, D)[l] = CompleteTree(leaves, D)[l][Ancestor(index, l)]
             <=> leaf = leaves[index]
<1> DEFINE h == Hashes(leaf, index, siblings, D)
           t == CompleteTree(leaves, D)
           P == {l \in 0..D : h[l] = t[l][Ancestor(index, l)] <=> leaf = leaves[index]}
<1>1. 0 \in P
  BY HashesDef, CompleteTreeDef, AncestorFacts
<1>2. ASSUME NEW l \in 0..D - 1, l \in P PROVE l + 1 \in P
  <2>1. h[l + 1] = Above(h[l], index, siblings, l)
    BY HashesDef
  <2>2. t[l + 1][Ancestor(index, l + 1)] = Above(t[l][Ancestor(index, l)], index, siblings, l)
    BY NodeOnTheWay DEF AreSiblings
  <2> HIDE DEF h, t
  <2>3. h[l + 1] = t[l + 1][Ancestor(index, l + 1)] <=> h[l] = t[l][Ancestor(index, l)]
    BY <2>1, <2>2, CompressInjective DEF Above
  <2> QED
    BY <1>2, <2>3
<1> HIDE DEF P
<1>3. \A l \in 0..D : l \in P
  BY <1>1, <1>2, LevelInduction
<1> QED
  BY <1>3 DEF P

SameElsewhere(f, g, D, index) == \A p \in 0..Pow2[D] - 1 : p # index => f[p] = g[p]

\* A leaf is hashed into its ancestors only.
LEMMA TreeElsewhere ==
  ASSUME NEW leaves, NEW other, NEW D \in Nat, NEW index \in 0..Pow2[D] - 1,
         SameElsewhere(leaves, other, D, index)
  PROVE  \A l \in 0..D : \A p \in 0..Pow2[D - l] - 1 :
           p # Ancestor(index, l)
             => CompleteTree(leaves, D)[l][p] = CompleteTree(other, D)[l][p]
<1> DEFINE t == CompleteTree(leaves, D)
           u == CompleteTree(other, D)
           P == {l \in 0..D : \A p \in 0..Pow2[D - l] - 1 :
                                p # Ancestor(index, l) => t[l][p] = u[l][p]}
<1>1. 0 \in P
  BY CompleteTreeDef, AncestorFacts DEF SameElsewhere
<1>2. ASSUME NEW l \in 0..D - 1, l \in P PROVE l + 1 \in P
  <2> SUFFICES ASSUME NEW p \in 0..Pow2[D - (l + 1)] - 1, p # Ancestor(index, l + 1)
               PROVE  t[l + 1][p] = u[l + 1][p]
    OBVIOUS
  <2>1. t[l + 1][p] = Compress(t[l][2 * p], t[l][2 * p + 1])
        /\ u[l + 1][p] = Compress(u[l][2 * p], u[l][2 * p + 1])
    BY CompleteTreeDef
  <2>2. p \in Nat /\ 2 * p \in 0..Pow2[D - l] - 1 /\ 2 * p + 1 \in 0..Pow2[D - l] - 1
    BY ChildrenAreInTree
  <2>3. 2 * p # Ancestor(index, l) /\ 2 * p + 1 # Ancestor(index, l)
    <3>1. Parent(Ancestor(index, l), Ancestor(index, l + 1))
      BY AncestorFacts
    <3>2. l + 1 \in 0..D
      OBVIOUS
    <3>3. Ancestor(index, l + 1) \in Nat
      BY <3>2, AncestorFacts
    <3> QED
      BY <2>2, <3>1, <3>3 DEF Parent
  <2>4. t[l][2 * p] = u[l][2 * p] /\ t[l][2 * p + 1] = u[l][2 * p + 1]
    BY <1>2, <2>2, <2>3
  <2> QED
    BY <2>1, <2>4
<1> HIDE DEF P
<1>3. \A l \in 0..D : l \in P
  BY <1>1, <1>2, LevelInduction
<1> QED
  BY <1>3 DEF P

\* Replacing a leaf replaces the hashes on its way to the root, by those computed
\* from its siblings, and no others.
LEMMA LeafReplaced ==
  ASSUME NEW D \in Nat, NEW leaves, NEW new, NEW index \in 0..Pow2[D] - 1, NEW siblings,
         SameElsewhere(new, leaves, D, index), AreSiblings(siblings, leaves, D, index)
  PROVE  \A l \in 0..D : \A p \in 0..Pow2[D - l] - 1 :
           CompleteTree(new, D)[l][p] =
             IF p = Ancestor(index, l) THEN Hashes(new[index], index, siblings, D)[l]
                                       ELSE CompleteTree(leaves, D)[l][p]
<1>2. ASSUME NEW l \in 0..D, NEW p \in 0..Pow2[D - l] - 1, p # Ancestor(index, l)
      PROVE  CompleteTree(new, D)[l][p] = CompleteTree(leaves, D)[l][p]
  BY <1>2, TreeElsewhere
<1>3. AreSiblings(siblings, new, D, index)
  <2> SUFFICES ASSUME NEW l \in 0..D - 1
               PROVE  siblings[l] = CompleteTree(new, D)[l][Neighbour(Ancestor(index, l))]
    BY DEF AreSiblings
  <2>1. /\ Neighbour(Ancestor(index, l)) \in 0..Pow2[D - l] - 1
        /\ Neighbour(Ancestor(index, l)) # Ancestor(index, l)
        /\ l \in 0..D
    BY AncestorFacts
  <2> QED
    BY <1>2, <2>1 DEF AreSiblings
<1>4. \A l \in 0..D :
        Hashes(new[index], index, siblings, D)[l] = CompleteTree(new, D)[l][Ancestor(index, l)]
  BY <1>3, HashesOpen
<1> QED
  BY <1>2, <1>4

\* The tree over empty leaves holds the hashes of empty subtrees.
LEMMA EmptyTree ==
  ASSUME NEW D \in Nat, NEW leaves, NEW empty,
         \A p \in 0..Pow2[D] - 1 : leaves[p] = empty
  PROVE  \A l \in 0..D : \A p \in 0..Pow2[D - l] - 1 :
           CompleteTree(leaves, D)[l][p] = EmptyHashes(empty, D)[l]
<1> DEFINE t == CompleteTree(leaves, D)
           z == EmptyHashes(empty, D)
           P == {l \in 0..D : \A p \in 0..Pow2[D - l] - 1 : t[l][p] = z[l]}
<1>1. 0 \in P
  BY CompleteTreeDef, EmptyHashesDef
<1>2. ASSUME NEW l \in 0..D - 1, l \in P PROVE l + 1 \in P
  <2> SUFFICES ASSUME NEW p \in 0..Pow2[D - (l + 1)] - 1 PROVE t[l + 1][p] = z[l + 1]
    OBVIOUS
  <2>1. t[l + 1][p] = Compress(t[l][2 * p], t[l][2 * p + 1])
    BY CompleteTreeDef
  <2>2. z[l + 1] = Compress(z[l], z[l])
    BY EmptyHashesDef
  <2>3. 2 * p \in 0..Pow2[D - l] - 1 /\ 2 * p + 1 \in 0..Pow2[D - l] - 1
    BY ChildrenAreInTree
  <2> QED
    BY <1>2, <2>1, <2>2, <2>3
<1> HIDE DEF P
<1>3. \A l \in 0..D : l \in P
  BY <1>1, <1>2, LevelInduction
<1> QED
  BY <1>3 DEF P

\* Trees with different leaves have different roots.
LEMMA RootsDiffer ==
  ASSUME NEW D \in Nat, NEW leaves, NEW other, NEW index \in 0..Pow2[D] - 1,
         leaves[index] # other[index]
  PROVE  CompleteTree(leaves, D)[D][0] # CompleteTree(other, D)[D][0]
<1> DEFINE t == CompleteTree(leaves, D)
           u == CompleteTree(other, D)
           P == {l \in 0..D : t[l][Ancestor(index, l)] # u[l][Ancestor(index, l)]}
<1>1. 0 \in P
  BY CompleteTreeDef, AncestorFacts
<1>2. ASSUME NEW l \in 0..D - 1, l \in P PROVE l + 1 \in P
  <2> DEFINE a == Ancestor(index, l)
             b == Ancestor(index, l + 1)
  <2>1. l + 1 \in 0..D
    OBVIOUS
  <2>2. b \in 0..Pow2[D - (l + 1)] - 1 /\ Parent(a, b)
    BY <2>1, AncestorFacts
  <2>3. t[l + 1][b] = Compress(t[l][2 * b], t[l][2 * b + 1])
        /\ u[l + 1][b] = Compress(u[l][2 * b], u[l][2 * b + 1])
    BY <2>2, CompleteTreeDef
  <2>4. a = 2 * b \/ a = 2 * b + 1
    BY <2>2 DEF Parent
  <2>5. t[l][a] # u[l][a]
    BY <1>2
  <2> HIDE DEF t, u, a, b
  <2>6. t[l + 1][b] # u[l + 1][b]
    BY <2>3, <2>4, <2>5, CompressInjective
  <2> QED
    BY <2>1, <2>6 DEF a, b
<1> HIDE DEF P
<1>3. \A l \in 0..D : l \in P
  BY <1>1, <1>2, LevelInduction
<1>4. D \in 0..D
  OBVIOUS
<1> QED
  BY <1>3, <1>4, AncestorFacts DEF P
\* g is f with a hash stored at level l, at the ancestor of index.
HasStored(g, f, index, hashes, l, p) ==
  /\ <<l, p>> \in DOMAIN g <=> p = Ancestor(index, l) \/ <<l, p>> \in DOMAIN f
  /\ p = Ancestor(index, l) => g[<<l, p>>] = hashes[l]
  /\ p # Ancestor(index, l) /\ <<l, p>> \in DOMAIN f => g[<<l, p>>] = f[<<l, p>>]

LEMMA StoredNodes ==
  ASSUME NEW D \in Nat, NEW f, NEW index, NEW hashes, NEW l \in 0..D, NEW p
  PROVE  HasStored(Stored(f, index, hashes, D), f, index, hashes, l, p)
<1> DEFINE way == {<<k, Ancestor(index, k)>> : k \in 0..D}
<1>1. <<l, p>> \in way <=> p = Ancestor(index, l)
  OBVIOUS
<1> HIDE DEF way
<1>2. Stored(f, index, hashes, D) =
        [key \in way \cup DOMAIN f |-> IF key \in way THEN hashes[key[1]] ELSE f[key]]
  BY DEF Stored, way
<1>3. <<l, p>>[1] = l
  OBVIOUS
<1> QED
  BY <1>1, <1>2, <1>3 DEF HasStored

-----------------------------------------------------------------------------
(* The commitment trees. *)

\* The bit of an index that the circuit selects with.
LEMMA BitOfIndex ==
  ASSUME NEW i \in Nat, NEW m \in Nat, m >= 1
  PROVE  (i % (2 * m)) \div m = (i \div m) % 2
<1>1. PICK q \in Nat, r \in 0..m - 1 : i = m * q + r /\ q = i \div m
  <2>1. i \div m \in Nat /\ i % m \in 0..m - 1 /\ i = m * (i \div m) + (i % m)
    OBVIOUS
  <2> QED
    BY <2>1
<1>2. PICK p \in Nat, s \in 0..1 : q = 2 * p + s /\ s = q % 2
  <2>1. q \div 2 \in Nat /\ q % 2 \in 0..1 /\ q = 2 * (q \div 2) + (q % 2)
    BY DivisionOf
  <2> QED
    BY <2>1
<1>3. m * q = (2 * m) * p + m * s
  <2>1. m * (2 * p + s) = (2 * m) * p + m * s
    BY <1>2
  <2> QED
    BY <1>2, <2>1
<1>4. m * s \in {0, m}
  BY <1>2
<1>5. PICK t \in Nat : t = m * s
  BY <1>4
<1>6. t + r \in 0..2 * m - 1 /\ t + r \in Int
  BY <1>1, <1>4, <1>5
<1>7. i = (2 * m) * p + (t + r)
  BY <1>1, <1>3, <1>5
<1>8. 2 * m \in Nat /\ i \in Int /\ p \in Int
  BY <1>2
<1>9. i % (2 * m) = t + r
  BY <1>6, <1>7, <1>8, QuotientIs
<1>10. (t + r) \div m = s
  <2>1. t + r = m * s + r /\ s \in Int
    BY <1>5
  <2> QED
    BY <1>6, <2>1, QuotientIs
<1> QED
  BY <1>1, <1>2, <1>9, <1>10

LEMMA Pow2Grows == \A a, b \in Nat : a <= b => Pow2[a] <= Pow2[b]
<1> SUFFICES ASSUME NEW a \in Nat, NEW b \in Nat, a <= b PROVE Pow2[a] <= Pow2[b]
  OBVIOUS
<1> DEFINE D == b - a
           P == {m \in 0..D : Pow2[a] <= Pow2[a + m]}
<1>1. 0 \in P
  BY Pow2Facts
<1>2. ASSUME NEW m \in 0..D - 1, m \in P PROVE m + 1 \in P
  <2>1. a + m \in Nat /\ (a + m) + 1 = a + (m + 1) /\ m + 1 \in 0..D
    OBVIOUS
  <2>2. Pow2[a] \in Nat /\ Pow2[a + m] \in Nat /\ Pow2[a] <= Pow2[a + m]
        /\ Pow2[(a + m) + 1] = 2 * Pow2[a + m]
    BY <1>2, <2>1, Pow2Facts
  <2> QED
    BY <2>1, <2>2
<1>3. D \in Nat
  OBVIOUS
<1> HIDE DEF P
<1>4. D \in P
  BY <1>1, <1>2, <1>3, LevelInduction
<1> QED
  BY <1>3, <1>4 DEF P

LEMMA DepthIsNat == Depth \in Nat
BY DepthAssumption

InTree(l, p) == l \in 0..Depth /\ p \in 0..Pow2[Depth - l] - 1

\* The contract keeps every node in a slot of its own.
LEMMA SlotsDiffer ==
  ASSUME NEW l, NEW p, NEW k, NEW q, InTree(l, p), InTree(k, q), l < k
  PROVE  NodeIndex(l, p) # NodeIndex(k, q)
<1>1. /\ Depth - k \in Nat /\ Depth - l \in Nat /\ (Depth - k) + 1 \in Nat
      /\ (Depth - k) + 1 <= Depth - l
  BY DepthIsNat DEF InTree
<1>2. /\ Pow2[Depth - k] \in Nat /\ Pow2[Depth - l] \in Nat
      /\ Pow2[(Depth - k) + 1] = 2 * Pow2[Depth - k]
  BY <1>1, Pow2Facts
<1>3. Pow2[(Depth - k) + 1] <= Pow2[Depth - l]
  BY <1>1, Pow2Grows
<1> QED
  BY <1>2, <1>3 DEF NodeIndex, InTree

LEMMA SlotsInjective ==
  ASSUME NEW l, NEW p, NEW k, NEW q, InTree(l, p), InTree(k, q),
         NodeIndex(l, p) = NodeIndex(k, q)
  PROVE  l = k /\ p = q
<1>1. l = k
  <2>1. ~ (l < k) /\ ~ (k < l)
    BY SlotsDiffer
  <2> QED
    BY <2>1, DepthIsNat DEF InTree
<1>2. Pow2[Depth - l] \in Nat
  BY DepthIsNat, Pow2Facts DEF InTree
<1> QED
  BY <1>1, <1>2 DEF NodeIndex, InTree

LEMMA SlotsInStorage ==
  ASSUME NEW l, NEW p, InTree(l, p)
  PROVE  NodeIndex(l, p) \in 0..2 * Capacity - 2
<1>1. Depth - l \in Nat /\ Depth - l <= Depth
  BY DepthIsNat DEF InTree
<1>2. /\ Pow2[Depth - l] \in Nat /\ Pow2[Depth - l] >= 1 /\ Pow2[Depth] \in Nat
      /\ Pow2[Depth - l] <= Pow2[Depth]
  BY <1>1, DepthIsNat, Pow2Facts, Pow2Grows
<1> QED
  BY <1>2 DEF NodeIndex, InTree, Capacity

LEMMA CapacityFacts == Capacity \in Nat /\ Capacity >= 1
BY DepthIsNat, Pow2Facts DEF Capacity

\* No hash on the way from a commitment is taken for an empty node.
LEMMA HashesNotEmpty ==
  ASSUME NEW n \in Nat, NEW index, NEW siblings, NEW l \in 0..Depth
  PROVE  Hashes(Commitment(n), index, siblings, Depth)[l] # Empty
<1> DEFINE h == Hashes(Commitment(n), index, siblings, Depth)
<1>1. CASE l = 0
  <2>1. h[0] = Commitment(n)
    BY DepthIsNat, HashesDef
  <2>2. Commitment(n) # Empty
    BY DEF Commitment, Empty
  <2> HIDE DEF h
  <2>3. h[l] # Empty
    BY <1>1, <2>1, <2>2
  <2> QED
    BY <2>3 DEF h
<1>2. CASE l # 0
  <2>1. l - 1 \in 0..Depth - 1 /\ (l - 1) + 1 = l
    BY <1>2, DepthIsNat
  <2>2. h[(l - 1) + 1] = Above(h[l - 1], index, siblings, l - 1)
    BY <2>1, DepthIsNat, HashesDef
  <2>3. \A a, b : Compress(a, b) # Empty
    <3>1. \A a, b : Len(<<a, b>>) = 2
      OBVIOUS
    <3>2. Len(<<0>>) = 1
      OBVIOUS
    <3> QED
      BY <3>1, <3>2 DEF Compress, Empty
  <2> HIDE DEF h
  <2>4. h[l] # Empty
    BY <2>1, <2>2, <2>3 DEF Above
  <2> QED
    BY <2>4 DEF h
<1> QED
  BY <1>1, <1>2

\* Appending a commitment replaces the leaf after the last one.
LEMMA LeafAppended ==
  ASSUME NEW k \in Nat, k < Capacity
  PROVE  /\ SameElsewhere(Leaves(k + 1), Leaves(k), Depth, k)
         /\ Leaves(k + 1)[k] = Commitment(k)
         /\ k \in 0..Pow2[Depth] - 1
<1>1. k \in 0..Capacity - 1
  BY CapacityFacts
<1>2. Leaves(k + 1)[k] = Commitment(k)
  BY <1>1 DEF Leaves
<1>3. ASSUME NEW p \in 0..Capacity - 1, p # k PROVE Leaves(k + 1)[p] = Leaves(k)[p]
  <2>1. p < k + 1 <=> p < k
    BY <1>3, CapacityFacts
  <2> QED
    BY <2>1 DEF Leaves
<1> QED
  BY <1>1, <1>2, <1>3 DEF SameElsewhere, Capacity

TreeAt(k) == CompleteTree(Leaves(k), Depth)

\* The tree after an append, from the hashes it computed.
LEMMA TreeAppended ==
  ASSUME NEW k \in Nat, k < Capacity, NEW siblings,
         AreSiblings(siblings, Leaves(k), Depth, k)
  PROVE  /\ \A l \in 0..Depth : \A p \in 0..Pow2[Depth - l] - 1 :
              TreeAt(k + 1)[l][p] =
                IF p = Ancestor(k, l) THEN Hashes(Commitment(k), k, siblings, Depth)[l]
                                      ELSE TreeAt(k)[l][p]
         /\ RootOf(k + 1) = Hashes(Commitment(k), k, siblings, Depth)[Depth]
<1>1. PICK before, after : before = Leaves(k) /\ after = Leaves(k + 1)
  OBVIOUS
<1>2. SameElsewhere(after, before, Depth, k) /\ after[k] = Commitment(k)
      /\ k \in 0..Pow2[Depth] - 1
  BY <1>1, LeafAppended
<1>3. AreSiblings(siblings, before, Depth, k)
  BY <1>1
<1>4. \A l \in 0..Depth : \A p \in 0..Pow2[Depth - l] - 1 :
        CompleteTree(after, Depth)[l][p] =
          IF p = Ancestor(k, l) THEN Hashes(after[k], k, siblings, Depth)[l]
                                ELSE CompleteTree(before, Depth)[l][p]
  BY <1>2, <1>3, DepthIsNat, LeafReplaced
<1>5. Depth \in 0..Depth /\ 0 \in 0..Pow2[Depth - Depth] - 1
  <2>1. Depth - Depth = 0 /\ Pow2[0] = 1
    BY DepthIsNat, Pow2Facts
  <2> QED
    BY <2>1, DepthIsNat
<1>6. Ancestor(k, Depth) = 0
  BY <1>2, DepthIsNat, AncestorFacts
<1>7. CompleteTree(after, Depth)[Depth][0] = Hashes(after[k], k, siblings, Depth)[Depth]
  BY <1>4, <1>5, <1>6
<1> QED
  BY <1>1, <1>2, <1>4, <1>7 DEF TreeAt, RootOf

\* The roots of different prefixes differ.
LEMMA PrefixRootsDiffer ==
  ASSUME NEW j \in 0..Capacity, NEW k \in 0..Capacity, j < k
  PROVE  RootOf(j) # RootOf(k)
<1>1. j \in 0..Capacity - 1 /\ j \in 0..Pow2[Depth] - 1
  BY CapacityFacts DEF Capacity
<1>2. Leaves(j)[j] = Empty /\ Leaves(k)[j] = Commitment(j)
  BY <1>1 DEF Leaves
<1>3. Commitment(j) # Empty
  BY CapacityFacts DEF Commitment, Empty
<1>4. Leaves(j)[j] # Leaves(k)[j]
  BY <1>2, <1>3
<1> QED
  BY <1>1, <1>4, DepthIsNat, RootsDiffer DEF RootOf

-----------------------------------------------------------------------------
(* The two appenders. *)

TreesInv ==
  /\ leafCount \in 0..Capacity /\ count \in 0..Capacity
  /\ DOMAIN storage = 0..2 * Capacity - 2
  /\ \A l \in 0..Depth : \A p \in 0..Pow2[Depth - l] - 1 :
       /\ NodeOnChain(l, p) = TreeAt(leafCount)[l][p]
       /\ Node(l, p) = TreeAt(count)[l][p]
  /\ currentRoot = RootOf(leafCount) /\ root = RootOf(count)
  /\ acceptedRoots = {RootOf(k) : k \in 0..leafCount}
  /\ IsFiniteSet(acceptedRoots) /\ Cardinality(acceptedRoots) = leafCount + 1

LEMMA TreesInitially == TreesInit => TreesInv
<1> SUFFICES ASSUME TreesInit PROVE TreesInv
  OBVIOUS
<1>1. \A p \in 0..Pow2[Depth] - 1 : Leaves(0)[p] = Empty
  BY DEF Leaves, Capacity
<1>2. \A l \in 0..Depth : \A p \in 0..Pow2[Depth - l] - 1 : TreeAt(0)[l][p] = zeroes[l]
  BY <1>1, DepthIsNat, EmptyTree DEF TreeAt, zeroes
<1>3. ASSUME NEW l \in 0..Depth, NEW p \in 0..Pow2[Depth - l] - 1
      PROVE  NodeOnChain(l, p) = zeroes[l] /\ Node(l, p) = zeroes[l]
  <2>1. storage[NodeIndex(l, p)] = Empty
    BY SlotsInStorage DEF InTree, TreesInit
  <2> QED
    BY <2>1 DEF NodeOnChain, Node, TreesInit
<1>4. RootOf(0) = zeroes[Depth]
  <2>1. Depth - Depth = 0 /\ Pow2[0] = 1 /\ Depth \in 0..Depth
    BY DepthIsNat, Pow2Facts
  <2> QED
    BY <1>2, <2>1 DEF RootOf, TreeAt
<1>5. acceptedRoots = {RootOf(k) : k \in 0..leafCount}
  <2>1. 0..leafCount = {0}
    BY DEF TreesInit
  <2> QED
    BY <1>4, <2>1 DEF TreesInit
<1>6. IsFiniteSet(acceptedRoots) /\ Cardinality(acceptedRoots) = 1
  BY FS_Singleton DEF TreesInit
<1> QED
  BY <1>2, <1>3, <1>4, <1>5, <1>6, CapacityFacts DEF TreesInv, TreesInit

LEMMA ChainAppends ==
  ASSUME TreesInv, AppendOnChain
  PROVE  TreesInv'
<1> DEFINE k == leafCount
           siblings == [l \in Levels |-> NodeOnChain(l, Neighbour(Ancestor(k, l)))]
           current == Hashes(Commitment(k), k, siblings, Depth)
           written == {NodeIndex(l, Ancestor(k, l)) : l \in 0..Depth}
           LevelOf(i) == CHOOSE l \in 0..Depth : i = NodeIndex(l, Ancestor(k, l))
<1>1. k \in Nat /\ k < Capacity /\ k \in 0..Pow2[Depth] - 1 /\ k + 1 \in 0..Capacity
  BY CapacityFacts DEF TreesInv, AppendOnChain, Capacity
<1>2. /\ storage' = [i \in DOMAIN storage |-> IF i \in written THEN current[LevelOf(i)]
                                                               ELSE storage[i]]
      /\ leafCount' = k + 1
      /\ currentRoot' = current[Depth]
      /\ acceptedRoots' = acceptedRoots \cup {current[Depth]}
      /\ count' = count /\ nodes' = nodes /\ root' = root
  BY DEF AppendOnChain, proverVars
<1>3. AreSiblings(siblings, Leaves(k), Depth, k)
  <2> SUFFICES ASSUME NEW l \in 0..Depth - 1
               PROVE  siblings[l] = TreeAt(k)[l][Neighbour(Ancestor(k, l))]
    BY DEF AreSiblings, TreeAt
  <2>1. Neighbour(Ancestor(k, l)) \in 0..Pow2[Depth - l] - 1 /\ l \in 0..Depth
    BY <1>1, DepthIsNat, AncestorFacts
  <2> QED
    BY <2>1 DEF Levels, TreesInv
<1> HIDE DEF siblings
<1>4. /\ \A l \in 0..Depth : \A p \in 0..Pow2[Depth - l] - 1 :
           TreeAt(k + 1)[l][p] = IF p = Ancestor(k, l) THEN current[l] ELSE TreeAt(k)[l][p]
      /\ RootOf(k + 1) = current[Depth]
  BY <1>1, <1>3, TreeAppended
<1>5. \A l \in 0..Depth : current[l] # Empty
  BY <1>1, HashesNotEmpty
<1>6. \A l \in 0..Depth : InTree(l, Ancestor(k, l))
  BY <1>1, DepthIsNat, AncestorFacts DEF InTree
<1> HIDE DEF current, k
<1>7. ASSUME NEW l \in 0..Depth, NEW p \in 0..Pow2[Depth - l] - 1
      PROVE  NodeOnChain(l, p)' = TreeAt(k + 1)[l][p]
  <2> DEFINE i == NodeIndex(l, p)
  <2>1. InTree(l, p) /\ i \in DOMAIN storage
    BY SlotsInStorage DEF InTree, TreesInv
  <2>2. i \in written <=> p = Ancestor(k, l)
    BY <1>6, <2>1, SlotsInjective
  <2>3. p = Ancestor(k, l) => LevelOf(i) = l
    BY <1>6, <2>1, SlotsInjective
  <2>4. NodeOnChain(l, p)' = IF storage'[i] = Empty THEN zeroes[l] ELSE storage'[i]
    BY DEF NodeOnChain, NodeIndex, zeroes
  <2>5. NodeOnChain(l, p) = IF storage[i] = Empty THEN zeroes[l] ELSE storage[i]
    BY DEF NodeOnChain
  <2>6. NodeOnChain(l, p) = TreeAt(k)[l][p]
    BY DEF TreesInv, k
  <2> HIDE DEF i, written, LevelOf
  <2>7. CASE p = Ancestor(k, l)
    BY <1>2, <1>4, <1>5, <2>1, <2>2, <2>3, <2>4, <2>7
  <2>8. CASE p # Ancestor(k, l)
    BY <1>2, <1>4, <2>1, <2>2, <2>4, <2>5, <2>6, <2>8
  <2> QED
    BY <2>7, <2>8
<1>8. \A l \in 0..Depth : \A p \in 0..Pow2[Depth - l] - 1 :
        /\ NodeOnChain(l, p)' = TreeAt(leafCount')[l][p]
        /\ Node(l, p)' = TreeAt(count')[l][p]
  <2>1. \A l, p : Node(l, p)' = Node(l, p)
    BY <1>2 DEF Node, zeroes
  <2> QED
    BY <1>2, <1>7, <2>1 DEF TreesInv
<1>9. acceptedRoots' = {RootOf(j) : j \in 0..leafCount'}
  <2>1. 0..k + 1 = 0..k \cup {k + 1}
    BY <1>1
  <2>2. acceptedRoots = {RootOf(j) : j \in 0..k}
    BY DEF TreesInv, k
  <2> QED
    BY <1>2, <1>4, <2>1, <2>2
<1>10. current[Depth] \notin acceptedRoots
  <2>1. ASSUME NEW j \in 0..k PROVE RootOf(j) # RootOf(k + 1)
    <3>1. j \in 0..Capacity /\ j < k + 1
      BY <1>1, CapacityFacts
    <3> QED
      BY <1>1, <3>1, PrefixRootsDiffer
  <2> QED
    BY <1>4, <2>1 DEF TreesInv, k
<1>11. IsFiniteSet(acceptedRoots') /\ Cardinality(acceptedRoots') = leafCount' + 1
  <2>1. IsFiniteSet(acceptedRoots) /\ Cardinality(acceptedRoots) = k + 1
    BY DEF TreesInv, k
  <2>2. /\ IsFiniteSet(acceptedRoots \cup {current[Depth]})
        /\ Cardinality(acceptedRoots \cup {current[Depth]}) = Cardinality(acceptedRoots) + 1
    BY <1>10, <2>1, FS_AddElement
  <2> QED
    BY <1>2, <2>1, <2>2
<1>12. DOMAIN storage' = 0..2 * Capacity - 2
  <2>1. DOMAIN storage' = DOMAIN storage
    BY <1>2
  <2> QED
    BY <2>1 DEF TreesInv
<1>13. /\ leafCount' \in 0..Capacity /\ count' \in 0..Capacity
       /\ currentRoot' = RootOf(leafCount') /\ root' = RootOf(count')
  BY <1>1, <1>2, <1>4 DEF TreesInv
<1> QED
  BY <1>8, <1>9, <1>11, <1>12, <1>13 DEF TreesInv

LEMMA PathIsComplete ==
  ASSUME TreesInv, NEW index \in 0..Pow2[Depth] - 1
  PROVE  AreSiblings(Path(index), Leaves(count), Depth, index)
<1> SUFFICES ASSUME NEW l \in 0..Depth - 1
             PROVE  Path(index)[l] = TreeAt(count)[l][Neighbour(Ancestor(index, l))]
  BY DEF AreSiblings, TreeAt
<1>1. Neighbour(Ancestor(index, l)) \in 0..Pow2[Depth - l] - 1 /\ l \in 0..Depth
  BY DepthIsNat, AncestorFacts
<1> QED
  BY <1>1 DEF Path, Levels, TreesInv

LEMMA ProverAppends ==
  ASSUME TreesInv, AppendInProver
  PROVE  TreesInv'
<1> DEFINE k == count
           current == Hashes(Commitment(k), k, Path(k), Depth)
<1>1. k \in Nat /\ k < Capacity /\ k \in 0..Pow2[Depth] - 1 /\ k + 1 \in 0..Capacity
  BY CapacityFacts DEF TreesInv, AppendInProver, Capacity
<1>2. /\ nodes' = Stored(nodes, k, current, Depth)
      /\ count' = k + 1
      /\ root' = current[Depth]
      /\ UNCHANGED <<leafCount, storage, currentRoot, acceptedRoots>>
  BY DEF AppendInProver, contractVars, Path
<1>3. AreSiblings(Path(k), Leaves(k), Depth, k)
  BY <1>1, PathIsComplete
<1>4. /\ \A l \in 0..Depth : \A p \in 0..Pow2[Depth - l] - 1 :
           TreeAt(k + 1)[l][p] = IF p = Ancestor(k, l) THEN current[l] ELSE TreeAt(k)[l][p]
      /\ RootOf(k + 1) = current[Depth]
  BY <1>1, <1>3, TreeAppended
<1> HIDE DEF current, k
<1>5. ASSUME NEW l \in 0..Depth, NEW p \in 0..Pow2[Depth - l] - 1
      PROVE  Node(l, p)' = TreeAt(k + 1)[l][p]
  <2>1. /\ <<l, p>> \in DOMAIN nodes' <=> p = Ancestor(k, l) \/ <<l, p>> \in DOMAIN nodes
        /\ p = Ancestor(k, l) => nodes'[<<l, p>>] = current[l]
        /\ p # Ancestor(k, l) /\ <<l, p>> \in DOMAIN nodes
              => nodes'[<<l, p>>] = nodes[<<l, p>>]
    <3>1. HasStored(Stored(nodes, k, current, Depth), nodes, k, current, l, p)
      BY DepthIsNat, StoredNodes
    <3>2. HasStored(nodes', nodes, k, current, l, p)
      BY <1>2, <3>1
    <3> QED
      BY <3>2 DEF HasStored
  <2>2. Node(l, p)' = IF <<l, p>> \in DOMAIN nodes' THEN nodes'[<<l, p>>] ELSE zeroes[l]
    BY DEF Node, zeroes
  <2>3. Node(l, p) = IF <<l, p>> \in DOMAIN nodes THEN nodes[<<l, p>>] ELSE zeroes[l]
    BY DEF Node
  <2>4. Node(l, p) = TreeAt(k)[l][p]
    BY DEF TreesInv, k
  <2> QED
    BY <1>4, <2>1, <2>2, <2>3, <2>4
<1>6. \A l \in 0..Depth : \A p \in 0..Pow2[Depth - l] - 1 :
        /\ NodeOnChain(l, p)' = TreeAt(leafCount')[l][p]
        /\ Node(l, p)' = TreeAt(count')[l][p]
  <2>1. \A l, p : NodeOnChain(l, p)' = NodeOnChain(l, p)
    BY <1>2 DEF NodeOnChain, NodeIndex, zeroes
  <2> QED
    BY <1>2, <1>5, <2>1 DEF TreesInv
<1> QED
  BY <1>1, <1>2, <1>4, <1>6 DEF TreesInv

LEMMA TreesInvariant == TreesSpec => []TreesInv
<1>1. TreesInv /\ [TreesNext]_treeVars => TreesInv'
  <2> SUFFICES ASSUME TreesInv, [TreesNext]_treeVars PROVE TreesInv'
    OBVIOUS
  <2>1. CASE TreesNext
    BY <2>1, ChainAppends, ProverAppends DEF TreesNext
  <2>2. CASE UNCHANGED treeVars
    BY <2>2 DEF treeVars, contractVars, proverVars, TreesInv, NodeOnChain, Node
  <2> QED
    BY <2>1, <2>2
<1> QED
  BY <1>1, TreesInitially, PTL DEF TreesSpec

\* The incremental append, in the contract and in the prover, computes the roots
\* of the complete padded trees, at any depth and for any order of the two, and
\* accepts a root per prefix, all different.
THEOREM CommitmentTrees == TreesSpec => []RootsAreOfCompleteTrees
<1>1. TreesInv => RootsAreOfCompleteTrees
  BY DEF TreesInv, RootsAreOfCompleteTrees
<1> QED
  BY <1>1, TreesInvariant, PTL

\* The circuit opens a root to the same leaf as the prover's tree does.
LEMMA CircuitOpens ==
  ASSUME NEW top, NEW leaf, NEW index \in 0..Pow2[Depth] - 1, NEW siblings
  PROVE  AssertMembership(top, leaf, index, siblings) <=> Verify(top, leaf, index, siblings)
<1> DEFINE bits == [level \in Levels |-> (index % Pow2[level + 1]) \div Pow2[level]]
           h == Hashes(leaf, index, siblings, Depth)
           Is(f) == f = [level \in 0..Depth |->
                           IF level = 0 THEN leaf
                           ELSE Compress(IF bits[level - 1] = 1 THEN siblings[level - 1]
                                                                ELSE f[level - 1],
                                         IF bits[level - 1] = 1 THEN f[level - 1]
                                                                ELSE siblings[level - 1])]
           c == CHOOSE f : Is(f)
<1>1. AssertMembership(top, leaf, index, siblings) <=> c[Depth] = top
  BY DEF AssertMembership
<1>2. \A l \in Levels : bits[l] = 1 <=> ~ IsLeft(Ancestor(index, l))
  <2> SUFFICES ASSUME NEW l \in Levels PROVE bits[l] = 1 <=> ~ IsLeft(Ancestor(index, l))
    OBVIOUS
  <2>1. PICK m \in Nat : m = Pow2[l] /\ m >= 1 /\ Pow2[l + 1] = 2 * m
    BY DepthIsNat, Pow2Facts DEF Levels
  <2>2. index \in Nat /\ Ancestor(index, l) \in Nat
    BY DepthIsNat, AncestorFacts, Pow2Facts DEF Levels
  <2>3. (index % (2 * m)) \div m = (index \div m) % 2
    BY <2>1, <2>2, BitOfIndex
  <2>4. bits[l] = Ancestor(index, l) % 2
    BY <2>1, <2>3 DEF Ancestor
  <2>5. Ancestor(index, l) % 2 \in 0..1
    BY <2>2, DivisionOf
  <2> HIDE DEF bits
  <2> QED
    BY <2>4, <2>5 DEF IsLeft
<1> HIDE DEF bits
<1>3. \A f : Is(f) <=> IsHashes(f, leaf, index, siblings, Depth)
  BY <1>2, DepthIsNat DEF IsHashes, Levels
<1>4. Is(h)
  BY <1>3, DepthIsNat, HashesDef
<1>5. Is(c)
  BY <1>4
<1>6. c[Depth] = h[Depth]
  <2>1. IsHashes(c, leaf, index, siblings, Depth)
    BY <1>3, <1>5
  <2> HIDE DEF c
  <2> QED
    BY <2>1, DepthIsNat, HashesUnique
<1> QED
  BY <1>1, <1>6 DEF Verify

\* The path of a prover that is not ahead opens a root the contract accepts to the
\* commitment at its position and to no other, in tree.go and in the circuits.
THEOREM PathsOpenRoots == TreesSpec => []PathsOpenAcceptedRoots
<1>1. ASSUME TreesInv PROVE PathsOpenAcceptedRoots
  <2> SUFFICES ASSUME count <= leafCount,
                      NEW index \in 0..count - 1, NEW k \in 0..Capacity - 1
               PROVE
                 LET member == /\ root \in acceptedRoots
                               /\ Verify(root, Commitment(k), index, Path(index))
                 IN  /\ member <=> k = index
                     /\ member <=> AssertMembership(root, Commitment(k), index, Path(index))
    BY DEF PathsOpenAcceptedRoots
  <2>1. /\ index \in 0..Capacity - 1 /\ index \in 0..Pow2[Depth] - 1 /\ index < count
        /\ count \in 0..leafCount
    BY <1>1, CapacityFacts DEF TreesInv, Capacity
  <2>2. root \in acceptedRoots /\ root = RootOf(count)
    BY <1>1, <2>1 DEF TreesInv
  <2>3. AreSiblings(Path(index), Leaves(count), Depth, index)
    BY <1>1, <2>1, PathIsComplete
  <2>4. Leaves(count)[index] = Commitment(index)
    BY <2>1 DEF Leaves
  <2>5. Ancestor(index, Depth) = 0 /\ Depth \in 0..Depth
    BY <2>1, DepthIsNat, AncestorFacts
  <2>6. Hashes(Commitment(k), index, Path(index), Depth)[Depth] =
          CompleteTree(Leaves(count), Depth)[Depth][Ancestor(index, Depth)]
          <=> Commitment(k) = Leaves(count)[index]
    BY <2>1, <2>3, <2>5, DepthIsNat, HashesOpen
  <2>7. Commitment(k) = Commitment(index) <=> k = index
    BY <2>1, CapacityFacts DEF Commitment
  <2>8. Verify(root, Commitment(k), index, Path(index)) <=> k = index
    BY <2>2, <2>4, <2>5, <2>6, <2>7 DEF Verify, RootOf
  <2>9. AssertMembership(root, Commitment(k), index, Path(index))
          <=> Verify(root, Commitment(k), index, Path(index))
    BY <2>1, CircuitOpens
  <2> QED
    BY <2>2, <2>8, <2>9
<1> QED
  BY <1>1, TreesInvariant, PTL

-----------------------------------------------------------------------------
(* The sparse tree of statuses. *)

LEMMA ElementsDiffer == \A s, t \in Status : Element(s) = Element(t) <=> s = t
BY DEF Status, Element

StatusHashes == CompleteTree(StatusLeaves, StatusDepth)

\* The parts of SparseTreeIsComplete.
NodesAreComplete ==
  \A l \in 0..StatusDepth : \A p \in 0..Pow2[StatusDepth - l] - 1 :
    /\ StatusNode(l, p) = StatusHashes[l][p]
    /\ <<l, p>> \in DOMAIN statusNodes <=> StatusHashes[l][p] # statusZeroes[l]

StatusTreeInv ==
  /\ statuses \in [Indices -> Status]
  /\ NodesAreComplete
  /\ statusRoot = StatusHashes[StatusDepth][0]

LEMMA StatusDepthIsNat == StatusDepth \in Nat
BY StatusDepthAssumption

\* What is read on the way is what the complete tree has there.
LEMMA StatusPathIsComplete ==
  ASSUME NodesAreComplete, NEW index \in Indices
  PROVE  AreSiblings(StatusPath(index), StatusLeaves, StatusDepth, index)
<1> SUFFICES ASSUME NEW l \in 0..StatusDepth - 1
             PROVE  StatusPath(index)[l] = StatusHashes[l][Neighbour(Ancestor(index, l))]
  BY DEF AreSiblings, StatusHashes
<1>1. Neighbour(Ancestor(index, l)) \in 0..Pow2[StatusDepth - l] - 1 /\ l \in 0..StatusDepth
  BY StatusDepthIsNat, AncestorFacts DEF Indices
<1> QED
  BY <1>1 DEF NodesAreComplete, StatusPath

LEMMA StatusTreeInitially == StatusTreeInit => StatusTreeInv
<1> SUFFICES ASSUME StatusTreeInit PROVE StatusTreeInv
  OBVIOUS
<1>1. statuses \in [Indices -> Status]
  BY DEF StatusTreeInit, Status
<1>2. \A p \in 0..Pow2[StatusDepth] - 1 : StatusLeaves[p] = Element("ACTIVE")
  BY DEF StatusTreeInit, StatusLeaves, Indices
<1>3. \A l \in 0..StatusDepth : \A p \in 0..Pow2[StatusDepth - l] - 1 :
        StatusHashes[l][p] = statusZeroes[l]
  BY <1>2, StatusDepthIsNat, EmptyTree DEF StatusHashes, statusZeroes
<1>4. NodesAreComplete
  BY <1>3 DEF NodesAreComplete, StatusNode, StatusTreeInit
<1>5. StatusDepth \in 0..StatusDepth /\ 0 \in 0..Pow2[StatusDepth - StatusDepth] - 1
  BY StatusDepthIsNat, Pow2Facts
<1>6. statusRoot = StatusHashes[StatusDepth][0]
  BY <1>3, <1>5 DEF StatusTreeInit
<1> QED
  BY <1>1, <1>4, <1>6 DEF StatusTreeInv

LEMMA StatusApplied ==
  ASSUME StatusTreeInv, NEW index \in Indices, NEW old \in Status, NEW new \in Status,
         ApplyStatus(index, old, new)
  PROVE  StatusTreeInv'
<1> DEFINE D == StatusDepth
           current == Hashes(Element(new), index, StatusPath(index), D)
           written == Stored(statusNodes, index, current, D)
<1>1. statuses' = [statuses EXCEPT ![index] = new] /\ statuses' \in [Indices -> Status]
  BY DEF ApplyStatus, StatusTreeInv
<1>2. StatusLeaves' = [StatusLeaves EXCEPT ![index] = Element(new)]
  BY <1>1 DEF StatusLeaves, StatusTreeInv
<1>3. index \in 0..Pow2[D] - 1
  BY DEF Indices
<1>4. AreSiblings(StatusPath(index), StatusLeaves, D, index)
  BY StatusPathIsComplete DEF StatusTreeInv
<1>5. ASSUME NEW l \in 0..D, NEW p \in 0..Pow2[D - l] - 1
      PROVE  StatusHashes'[l][p] = IF p = Ancestor(index, l) THEN current[l]
                                                           ELSE StatusHashes[l][p]
  <2>1. PICK before, after : before = StatusLeaves /\ after = StatusLeaves'
    OBVIOUS
  <2>2. SameElsewhere(after, before, D, index) /\ after[index] = Element(new)
    BY <1>2, <2>1 DEF SameElsewhere, StatusLeaves, Indices
  <2>3. AreSiblings(StatusPath(index), before, D, index)
    BY <1>4, <2>1
  <2>4. CompleteTree(after, D)[l][p] =
             IF p = Ancestor(index, l)
             THEN Hashes(after[index], index, StatusPath(index), D)[l]
             ELSE CompleteTree(before, D)[l][p]
    BY <1>3, <2>2, <2>3, StatusDepthIsNat, LeafReplaced
  <2> QED
    BY <2>1, <2>2, <2>4 DEF StatusHashes
<1>6. statusNodes' = SetNodes(written) /\ statusRoot' = current[D]
  BY DEF ApplyStatus
<1> HIDE DEF current, written
<1>7. ASSUME NEW l \in 0..D, NEW p \in 0..Pow2[D - l] - 1
      PROVE  /\ StatusNode(l, p)' = StatusHashes'[l][p]
             /\ <<l, p>> \in DOMAIN statusNodes' <=> StatusHashes'[l][p] # statusZeroes[l]
  <2>1. <<l, p>>[1] = l
    OBVIOUS
  <2>2. /\ StatusNode(l, p) = StatusHashes[l][p]
        /\ <<l, p>> \in DOMAIN statusNodes <=> StatusHashes[l][p] # statusZeroes[l]
    BY DEF StatusTreeInv, NodesAreComplete
  <2>3. /\ <<l, p>> \in DOMAIN written
             <=> p = Ancestor(index, l) \/ <<l, p>> \in DOMAIN statusNodes
        /\ p = Ancestor(index, l) => written[<<l, p>>] = current[l]
        /\ p # Ancestor(index, l) /\ <<l, p>> \in DOMAIN statusNodes
              => written[<<l, p>>] = statusNodes[<<l, p>>]
    BY StatusDepthIsNat, StoredNodes DEF written, HasStored
  <2>4. <<l, p>> \in DOMAIN statusNodes'
          <=> <<l, p>> \in DOMAIN written /\ written[<<l, p>>] # statusZeroes[l]
    BY <1>6, <2>1 DEF SetNodes
  <2>5. <<l, p>> \in DOMAIN statusNodes' => statusNodes'[<<l, p>>] = written[<<l, p>>]
    BY <1>6 DEF SetNodes
  <2>6. StatusNode(l, p)' = IF <<l, p>> \in DOMAIN statusNodes' THEN statusNodes'[<<l, p>>]
                                                                ELSE statusZeroes[l]
    BY DEF StatusNode, statusZeroes
  <2>7. CASE p = Ancestor(index, l)
    BY <1>5, <2>3, <2>4, <2>5, <2>6, <2>7
  <2>8. CASE p # Ancestor(index, l)
    BY <1>5, <2>2, <2>3, <2>4, <2>5, <2>6, <2>8 DEF StatusNode
  <2> QED
    BY <2>7, <2>8
<1>8. NodesAreComplete'
  BY <1>7 DEF NodesAreComplete, StatusNode, statusZeroes
<1>9. statusRoot' = StatusHashes'[D][0]
  <2>1. D \in 0..D /\ D - D = 0 /\ 0 \in 0..Pow2[0] - 1
    BY StatusDepthIsNat, Pow2Facts
  <2>2. Ancestor(index, D) = 0
    BY <1>3, StatusDepthIsNat, AncestorFacts
  <2> QED
    BY <1>5, <1>6, <2>1, <2>2
<1> QED
  BY <1>1, <1>8, <1>9 DEF StatusTreeInv

LEMMA StatusTreeImplies == StatusTreeInv => SparseTreeIsComplete
<1> SUFFICES ASSUME StatusTreeInv PROVE SparseTreeIsComplete
  OBVIOUS
<1>1. ASSUME NEW index \in Indices, NEW s \in Status
      PROVE  ComputeRoot(s, index, StatusPath(index)) = statusRoot <=> s = statuses[index]
  <2>1. StatusDepth \in 0..StatusDepth /\ Ancestor(index, StatusDepth) = 0
        /\ index \in 0..Pow2[StatusDepth] - 1
    BY StatusDepthIsNat, AncestorFacts DEF Indices
  <2>2. AreSiblings(StatusPath(index), StatusLeaves, StatusDepth, index)
    BY StatusPathIsComplete DEF StatusTreeInv
  <2>3. Hashes(Element(s), index, StatusPath(index), StatusDepth)[StatusDepth]
          = CompleteTree(StatusLeaves, StatusDepth)[StatusDepth][Ancestor(index, StatusDepth)]
          <=> Element(s) = StatusLeaves[index]
    BY <2>1, <2>2, StatusDepthIsNat, HashesOpen
  <2>4. StatusLeaves[index] = Element(statuses[index]) /\ statuses[index] \in Status
    BY DEF StatusLeaves, StatusTreeInv
  <2>5. Element(s) = Element(statuses[index]) <=> s = statuses[index]
    BY <2>4, ElementsDiffer
  <2> QED
    BY <2>1, <2>3, <2>4, <2>5 DEF ComputeRoot, StatusTreeInv, StatusHashes
<1> QED
  BY <1>1 DEF StatusTreeInv, NodesAreComplete, StatusHashes, SparseTreeIsComplete

\* The sparse tree of statuses is the complete one after any updates, at any depth:
\* it stores what differs from empty subtrees, its root is the complete tree's and
\* its paths prove the status that was applied last, and no other.
THEOREM SparseTree == StatusTreeSpec => []SparseTreeIsComplete
<1>1. StatusTreeInv /\ [StatusTreeNext]_statusVars => StatusTreeInv'
  <2> SUFFICES ASSUME StatusTreeInv, [StatusTreeNext]_statusVars PROVE StatusTreeInv'
    OBVIOUS
  <2>1. CASE StatusTreeNext
    BY <2>1, StatusApplied DEF StatusTreeNext
  <2>2. CASE UNCHANGED statusVars
    BY <2>2
    DEF statusVars, StatusTreeInv, NodesAreComplete, StatusHashes, StatusLeaves, StatusNode
  <2> QED
    BY <2>1, <2>2
<1> QED
  BY <1>1, StatusTreeInitially, StatusTreeImplies, PTL DEF StatusTreeSpec
=============================================================================
