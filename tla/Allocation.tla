----------------------------- MODULE Allocation -----------------------------
(***************************************************************************)
(* The arithmetic on asset states of internal/core/allocation, policy and  *)
(* issuepolicy.  Quantities are unsigned integers of 64 bits in the code,  *)
(* 0..MaxAmount here; a result outside the range is an error.              *)
(***************************************************************************)
EXTENDS Naturals

CONSTANTS
  MaxAmount,        \* 2^64 - 1
  Rates,            \* [denominator, loss, carbon, waste] of the Process policy
  IssueConfigs      \* issue policy version -> [minRecycled, maxCarbon]

ASSUME AllocationAssumption ==
  /\ MaxAmount \in Nat
  /\ Rates \in [denominator : Nat \ {0}, loss : Nat, carbon : Nat, waste : Nat]
  /\ Rates.loss <= Rates.denominator /\ Rates.waste <= Rates.denominator
  /\ \A version \in DOMAIN IssueConfigs :
       /\ version \in Nat \ {0}
       /\ IssueConfigs[version] \in [minRecycled : Nat, maxCarbon : Nat]

ELIGIBLE == 0
WASTE    == 1

Amount == 0..MaxAmount

\* Mass, recycled mass and emissions.
State == [q : Amount, a : Amount, e : Amount]

\* AssertStateAndRole: ranges, recycled mass within the mass, and waste carries
\* neither recycled mass nor emissions.
StateAndRoleOK(state, role) ==
  /\ state \in State
  /\ state.a <= state.q
  /\ role \in {ELIGIBLE, WASTE}
  /\ role = WASTE => state.a = 0 /\ state.e = 0

\* mulDivRem: floor(value * numerator / denominator).
MulDiv(value, numerator, denominator) == (value * numerator) \div denominator

\* ByMass: the second part gets its floored share, the first part the rest.
ByMass(input, qFirst) ==
  LET qSecond == input.q - qFirst
      second  == [q |-> qSecond,
                  a |-> MulDiv(input.a, qSecond, input.q),
                  e |-> MulDiv(input.e, qSecond, input.q)]
  IN  [first  |-> [q |-> qFirst, a |-> input.a - second.a, e |-> input.e - second.e],
       second |-> second]

AddStates(s, t) == [q |-> s.q + t.q, a |-> s.a + t.a, e |-> s.e + t.e]

\* Mutant: the loss is not taken off.
ApplyWithoutLoss(total) ==
  LET waste  == MulDiv(total.q, Rates.waste, Rates.denominator)
      carbon == MulDiv(total.q, Rates.carbon, Rates.denominator)
  IN  [eligible |-> [q |-> total.q - waste, a |-> total.a, e |-> total.e + carbon],
       waste    |-> [q |-> waste, a |-> 0, e |-> 0]]

\* Apply of core/policy: loss, then added carbon, then the waste share.
Apply(total) ==
  LET lost  == MulDiv(total.q, Rates.loss, Rates.denominator)
      kept  == total.q - lost
      waste == MulDiv(kept, Rates.waste, Rates.denominator)
      carbon == MulDiv(total.q, Rates.carbon, Rates.denominator)
  IN  [eligible |-> [q |-> kept - waste, a |-> total.a, e |-> total.e + carbon],
       waste    |-> [q |-> waste, a |-> 0, e |-> 0]]

\* Validate of issuepolicy: the state meets the thresholds of this version.
MeetsThresholds(state, version) ==
  /\ state.q # 0
  /\ state.q * IssueConfigs[version].minRecycled <= state.a * Rates.denominator
  /\ state.e * Rates.denominator <= state.q * IssueConfigs[version].maxCarbon
=============================================================================
