------------------------------ MODULE Circuits ------------------------------
(***************************************************************************)
(* The circuits of features/v2events and their base circuits as a prover   *)
(* may use them: for given inputs and public choices it may fill in any    *)
(* witness that satisfies the constraints, not only the one the Go code    *)
(* computes.  Constraints are field equations and 64-bit range checks; no  *)
(* product in them reaches the field size, so they are equations over the  *)
(* integers.                                                               *)
(***************************************************************************)
EXTENDS Allocation, Integers

CONSTANT ProcessInputs  \* states tried as inputs of Process, a bound

\* Rates have 64 bits, like quantities.
ASSUME RatesAssumption == Rates.denominator \in Amount

VARIABLES
  request,   \* the event, its inputs and public choices
  proof      \* the outputs of the accepted witness, <<>> before that

circuitVars == <<request, proof>>

ValidStates == {s \in State : StateAndRoleOK(s, ELIGIBLE)}

WasteStates == {s \in State : StateAndRoleOK(s, WASTE)}

ASSUME InputsAssumption == ProcessInputs \subseteq ValidStates

\* Mutant: the remainder is only range checked.
IsQuotient(value, numerator, divisor, quotient) ==
  value * numerator - divisor * quotient \in Amount

\* Mutant: an off-by-one in the bound of the remainder.
IsStrictFloor(value, numerator, divisor, quotient) ==
  LET remainder == value * numerator - divisor * quotient
  IN  remainder \in Amount /\ remainder + 1 < divisor

\* The remainder witness of a floor division: it is determined by the equation
\* value * numerator = divisor * quotient + remainder.
IsFloor(value, numerator, divisor, quotient) ==
  LET remainder == value * numerator - divisor * quotient
  IN  remainder \in Amount /\ remainder + 1 <= divisor

\* The second output carries the floored share of the input.
FlooredShare(in, second) ==
  /\ IsFloor(in.a, second.q, in.q, second.a)
  /\ IsFloor(in.e, second.q, in.q, second.e)

TransferConstraints(in, voucher, change, delta) ==
  /\ voucher.q # 0
  /\ in.q = voucher.q + change.q
  /\ FlooredShare(in, change)
  /\ in.a = voucher.a + change.a
  /\ voucher.e = in.e - change.e + delta

SplitConstraints(in, first, second) ==
  /\ in.q # 0
  /\ in.q = first.q + second.q
  /\ FlooredShare(in, second)
  /\ in.a = first.a + second.a
  /\ in.e = first.e + second.e
  /\ \A out \in {first, second} : out.q = 0 => out.a = 0 /\ out.e = 0

MergeConstraints(in1, in2, out) ==
  /\ out.q = in1.q + in2.q
  /\ out.a = in1.a + in2.a
  /\ out.e = in1.e + in2.e

\* checkedAdd: every partial sum is in range.
CheckedSum(states) ==
  /\ AddStates(states[1], states[2]) \in State
  /\ AddStates(AddStates(states[1], states[2]), states[3]) \in State

ProcessConstraints(ins, eligible, waste) ==
  LET total == AddStates(AddStates(ins[1], ins[2]), ins[3])
  IN  /\ CheckedSum(ins)
      /\ \E qLoss, carbonAdd \in Amount :
           /\ IsFloor(total.q, Rates.loss, Rates.denominator, qLoss)
           /\ IsFloor(total.q, Rates.carbon, Rates.denominator, carbonAdd)
           /\ qLoss <= total.q
           /\ total.e + carbonAdd \in Amount
           /\ IsFloor(total.q - qLoss, Rates.waste, Rates.denominator, waste.q)
           /\ eligible.q = total.q - qLoss - waste.q
           /\ eligible.q # 0
           /\ eligible.a = total.a
           /\ eligible.e = total.e + carbonAdd

\* The circuits of the four events, over the outputs that a request is to have.
Satisfied(r, outputs) ==
  \/ /\ r.event = "transfer"
     /\ outputs[1].q = r.q
     /\ TransferConstraints(r.inputs[1], outputs[1], outputs[2], r.delta)
  \/ /\ r.event = "split"
     /\ outputs[1].q = r.q
     /\ SplitConstraints(r.inputs[1], outputs[1], outputs[2])
  \/ /\ r.event = "merge"
     /\ MergeConstraints(r.inputs[1], r.inputs[2], outputs[1])
  \/ /\ r.event = "process"
     /\ outputs[2] \in WasteStates
     /\ ProcessConstraints(r.inputs, outputs[1], outputs[2])

-----------------------------------------------------------------------------
Request(event, inputs, q, delta) ==
  [event |-> event, inputs |-> inputs, q |-> q, delta |-> delta]

\* A user asks for a proof: which inputs, how much to the first output, which
\* transport emissions.
CircuitsInit ==
  /\ proof = <<>>
  /\ \/ \E in \in ValidStates, q, delta \in Amount :
          request = Request("transfer", <<in>>, q, delta)
     \/ \E in \in ValidStates, q \in Amount : request = Request("split", <<in>>, q, 0)
     \/ \E in1, in2 \in ValidStates : request = Request("merge", <<in1, in2>>, 0, 0)
     \/ \E in1, in2, in3 \in ProcessInputs :
          request = Request("process", <<in1, in2, in3>>, 0, 0)

Accept(outputs) ==
  /\ proof = <<>>
  /\ Satisfied(request, outputs)
  /\ proof' = outputs
  /\ UNCHANGED request

ProveTransfer ==
  /\ request.event = "transfer"
  /\ \E voucher, change \in ValidStates : Accept(<<voucher, change>>)

ProveSplit ==
  /\ request.event = "split"
  /\ \E first, second \in ValidStates : Accept(<<first, second>>)

ProveMerge ==
  /\ request.event = "merge"
  /\ \E out \in ValidStates : Accept(<<out>>)

ProveProcess ==
  /\ request.event = "process"
  /\ \E eligible \in ValidStates, waste \in WasteStates : Accept(<<eligible, waste>>)

CircuitsNext == ProveTransfer \/ ProveSplit \/ ProveMerge \/ ProveProcess

CircuitsSpec == CircuitsInit /\ [][CircuitsNext]_circuitVars

-----------------------------------------------------------------------------
\* What the Go code computes for a request, <<>> when it returns an error.
Computed(r) ==
  LET in    == r.inputs[1]
      parts == ByMass(in, r.q)
  IN  CASE r.event = "transfer" ->
             IF r.q = 0 \/ in.q = 0 \/ r.q > in.q THEN <<>>
             ELSE <<[parts.first EXCEPT !.e = @ + r.delta], parts.second>>
        [] r.event = "split" ->
             IF in.q = 0 \/ r.q > in.q THEN <<>> ELSE <<parts.first, parts.second>>
        [] r.event = "merge" -> <<AddStates(in, r.inputs[2])>>
        [] r.event = "process" ->
             LET total  == AddStates(AddStates(in, r.inputs[2]), r.inputs[3])
                 result == Apply(total)
             IN  IF total \notin State \/ result.eligible.q = 0 THEN <<>>
                 ELSE <<result.eligible, result.waste>>

\* An output that is no valid state is an error too.
Native(r) ==
  IF \A i \in DOMAIN Computed(r) : Computed(r)[i] \in ValidStates THEN Computed(r) ELSE <<>>

\* Soundness: whatever witness a prover fills in, the outputs are those the Go
\* code computes; the floor constraints leave no room to shift recycled mass or
\* emissions between the outputs, nor to wrap around 64 bits.
OnlyNativeOutputs == proof # <<>> => proof = Native(request)

\* Completeness: what the Go code computes without error can be proved, at the
\* boundaries (nothing kept, everything kept, the largest amounts) too.
NativeOutputsProvable ==
  proof = <<>> /\ Native(request) # <<>> => Satisfied(request, Native(request))
=============================================================================
