------------------------------- MODULE Assets -------------------------------
(***************************************************************************)
(* The private objects of zkDPP and what the event circuits prove of them  *)
(* (features/v2events/circuits.go and the base circuits it wraps).         *)
(*                                                                         *)
(* Hashes are collision-free: a commitment is the record that opens it, a  *)
(* nullifier the record of what it hashes.  A proof exists exactly when    *)
(* its statement has a witness, so each event is modelled by the set of    *)
(* witnesses of its statement for given inputs.  The quantities are those  *)
(* of Allocation; Circuits checks that the constraints admit no others.    *)
(***************************************************************************)
EXTENDS Allocation, PolicyRegistry

CONSTANTS
  Users,            \* owners; an address H(sk) is named by its owner
  Documents,        \* document hashes
  Openings,         \* commitment randomness
  Nonces,           \* claim nonces
  Deadlines,        \* voucher deadline blocks a sender chooses from
  DeltaTransports   \* transport emissions a sender adds

ASSUME AssetsAssumption ==
  /\ Deadlines \subseteq Nat
  /\ DeltaTransports \subseteq 0..MaxAmount

Notes ==
  {n \in [doc : Documents, role : {ELIGIBLE, WASTE}, state : State,
          owner : Users, opening : Openings] : StateAndRoleOK(n.state, n.role)}

Vouchers ==
  {v \in [doc : Documents, role : {ELIGIBLE}, state : State, sender : Users,
          receiver : Users, deadline : Deadlines, opening : Openings] :
     StateAndRoleOK(v.state, v.role)}

\* Nullifier: H(cm, sk) with sk the secret behind the owner's address.
Nullifier(n) == [cm |-> n, sk |-> n.owner]

\* VoucherNullifier: H(rv, H(opening)).
VoucherNullifier(v) == [rv |-> v, secret |-> v.opening]

\* Handle of a claim: H(document, issue policy, nonce).
Handle(doc, ref, nonce) == [doc |-> doc, policy |-> ref, nonce |-> nonce]

-----------------------------------------------------------------------------
Note(doc, role, state, owner, opening) ==
  [doc |-> doc, role |-> role, state |-> state, owner |-> owner, opening |-> opening]

Voucher(doc, state, sender, receiver, deadline, opening) ==
  [doc |-> doc, role |-> ELIGIBLE, state |-> state, sender |-> sender,
   receiver |-> receiver, deadline |-> deadline, opening |-> opening]

\* EntryCircuit: a note of eligible, non-zero mass whose owner knows the key.
EntryNotes ==
  {n \in Notes : n.role = ELIGIBLE /\ n.state.q # 0}

\* TransferCircuit: part of an eligible note goes to a voucher, which also
\* takes the transport emission; the change stays with the sender.
TransferOutputs(n) ==
  {o \in
     {LET parts == ByMass(n.state, q) IN
        [voucher |-> Voucher(n.doc, [parts.first EXCEPT !.e = @ + delta],
                             n.owner, receiver, deadline, vOpening),
         change  |-> Note(n.doc, ELIGIBLE, parts.second, n.owner, cOpening)] :
        q \in 1..n.state.q, delta \in DeltaTransports, receiver \in Users,
        deadline \in Deadlines, vOpening \in Openings, cOpening \in Openings} :
     /\ n.role = ELIGIBLE
     /\ o.voucher \in Vouchers
     /\ o.change \in Notes}

\* ProceedCircuit and RecallCircuit: the voucher's state becomes a note of its
\* receiver or of its sender.
ResolveOutputs(v, owner) ==
  {m \in {Note(v.doc, ELIGIBLE, v.state, owner, opening) : opening \in Openings} :
     m \in Notes}

\* Two different notes of one owner and one document.
SameLot(n1, n2) == n1 # n2 /\ n1.owner = n2.owner /\ n1.doc = n2.doc

Mergeable(n1, n2) ==
  SameLot(n1, n2) /\ n1.role = ELIGIBLE /\ n2.role = ELIGIBLE

\* MergeCircuit: the sum of two eligible notes.
MergeOutputs(n1, n2) ==
  {m \in {Note(n1.doc, ELIGIBLE, AddStates(n1.state, n2.state), n1.owner, opening) :
            opening \in Openings} :
     Mergeable(n1, n2) /\ m \in Notes}

\* SplitCircuit: an eligible note of non-zero mass in two different notes.
SplitOutputs(n) ==
  {o \in
     {LET parts == ByMass(n.state, q) IN
        <<Note(n.doc, ELIGIBLE, parts.first, n.owner, opening1),
          Note(n.doc, ELIGIBLE, parts.second, n.owner, opening2)>> :
        q \in IF n.state.q = 0 THEN {} ELSE 0..n.state.q,
        opening1 \in Openings, opening2 \in Openings} :
     /\ n.role = ELIGIBLE
     /\ o[1] \in Notes /\ o[2] \in Notes
     /\ o[1] # o[2]}

\* The reference compiled in the Process circuit (policy.CanonicalRef).
CanonicalRef == PolicyRef(PROCESS, 1, 1, 1)

\* ProcessCircuit: three different eligible notes of one owner become an
\* eligible and a waste note; documents are free.
ProcessOutputs(n1, n2, n3) ==
  LET total  == AddStates(AddStates(n1.state, n2.state), n3.state)
      result == Apply(total)
  IN  {o \in
         {<<Note(doc1, ELIGIBLE, result.eligible, n1.owner, opening1),
            Note(doc2, WASTE, result.waste, n1.owner, opening2)>> :
            doc1 \in Documents, doc2 \in Documents,
            opening1 \in Openings, opening2 \in Openings} :
         /\ n1 # n2 /\ n1 # n3 /\ n2 # n3
         /\ \A n \in {n1, n2, n3} : n.role = ELIGIBLE /\ n.owner = n1.owner
         /\ total \in State
         /\ result.eligible.q # 0
         /\ o[1] \in Notes /\ o[2] \in Notes}

\* The scope the Process circuit binds to the owner: H(sk, policyRef).
ScopeRef(owner, ref) == [sk |-> owner, policy |-> ref]

\* The references compiled in the Issue circuits: policy 2 of authority 1, one
\* circuit per version.
IssueRef(version) == PolicyRef(ISSUE, 1, 2, version)

Claims == [doc : Documents, policy : {IssueRef(version) : version \in DOMAIN IssueConfigs},
           nonce : Nonces]

\* Mutant: the thresholds are not checked.
QualifiesByRole(n, version) == n.role = ELIGIBLE

Qualifies(n, version) == n.role = ELIGIBLE /\ MeetsThresholds(n.state, version)

\* IssueCircuit: an eligible note that meets the thresholds compiled for this
\* version.
IssueClaims(n, version) ==
  {Handle(n.doc, IssueRef(version), nonce) :
     nonce \in IF Qualifies(n, version) THEN Nonces ELSE {}}
=============================================================================
