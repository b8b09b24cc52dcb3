----------------------------- MODULE ClaimLedger -----------------------------
(***************************************************************************)
(* contracts/src/ZkDPPClaimLedger.sol: the ledger before the current one.  *)
(* Every event leaves an audit record whose id the ledger keeps for the    *)
(* nullifiers it spent and the objects it produced.  Exit turns a note     *)
(* into a passport (DPP) with a commitment of its own, and issue then      *)
(* states of that DPP, any number of policies one by one, that it meets    *)
(* the policy's thresholds.  Objects and claims are frozen and revoked by  *)
(* one status authority, objects by the nullifier that will spend them.    *)
(*                                                                         *)
(* A commitment is the record that opens it.  Amounts are left out but for *)
(* a grade, what the thresholds of the issue policies tell apart; the      *)
(* circuits tie it to the amounts, so an event that divides or adds them   *)
(* may give its outputs any grade of the same role (Circuits).             *)
(***************************************************************************)
EXTENDS Naturals, FiniteSets, SequencesExt, SolidityMapping

CONSTANTS
  Users,            \* owners; an address is named by its owner
  Openings,         \* commitment randomness
  Grades,           \* grades of eligible notes
  Accepted,         \* issue policy -> grades that meet its thresholds
  ProcessInputs,    \* inputs of Process, 3
  EntryNotes,       \* notes entered in an instance
  Watched,          \* notes and vouchers whose status changes in an instance
  MaxRecords,       \* bound on the audit records of an instance
  MaxStatusChanges  \* bound on the status changes of an instance

VARIABLES
  enabled,          \* registered policy -> whether it is still enabled
  records,          \* audit records by id, decrypted
  producerOf,       \* note, voucher or DPP -> id
  spentIn,          \* nullifier -> id
  statusByNf,       \* nullifier -> status
  claimRecordOf,    \* <<DPP, policy>> -> id
  claimStatus,      \* <<DPP, policy>> -> status
  changes           \* number of status changes

claimVars == <<enabled, records, producerOf, spentIn, statusByNf, claimRecordOf,
               claimStatus, changes>>

ACTIVE  == 0
FROZEN  == 1
REVOKED == 2

WASTE == "waste"

Notes == [grade : Grades \cup {WASTE}, owner : Users, opening : Openings]

Vouchers == [grade : Grades \cup {WASTE}, sender : Users, receiver : Users,
             opening : Openings]

DPPs == [grade : Grades \cup {WASTE}, dpp : Openings]

Spendable == Notes \cup Vouchers
Objects   == Spendable \cup DPPs

Policies == DOMAIN Accepted
Claims   == DPPs \X Policies

Note(grade, owner, opening) == [grade |-> grade, owner |-> owner, opening |-> opening]
Nullifier(n)                == [cm |-> n, secret |-> n.owner]
VoucherNullifier(v)         == [rv |-> v, secret |-> v.opening]

NullifierOf(x) == IF x \in Notes THEN Nullifier(x) ELSE VoucherNullifier(x)

SameRole(g1, g2) == (g1 = WASTE) <=> (g2 = WASTE)

\* Notes and vouchers on the ledger, and those an event may still take.
NotesHeld    == DOMAIN producerOf \cap Notes
VouchersHeld == DOMAIN producerOf \cap Vouchers

\* Mutant: the status is not read.
Unspent(x) == At(spentIn, NullifierOf(x)) = 0

\* _active, of an object whose membership is proved.
Active(x) ==
  /\ At(spentIn, NullifierOf(x)) = 0
  /\ At(statusByNf, NullifierOf(x)) = ACTIVE

-----------------------------------------------------------------------------
ClaimInit ==
  /\ enabled = EmptyMapping
  /\ records = <<>>
  /\ producerOf = EmptyMapping
  /\ spentIn = EmptyMapping
  /\ statusByNf = EmptyMapping
  /\ claimRecordOf = EmptyMapping
  /\ claimStatus = EmptyMapping
  /\ changes = 0

\* _complete, and the same steps in exit: active inputs, new and distinct
\* outputs, then one record for them all.
Complete(kind, inputs, outputs) ==
  LET aid == Len(records) + 1 IN
    /\ aid <= MaxRecords
    /\ \A x \in inputs : Active(x)
    /\ Range(outputs) \cap DOMAIN producerOf = {}
    /\ IsInjective(outputs)
    /\ spentIn' = Put(spentIn, {NullifierOf(x) : x \in inputs}, aid)
    /\ producerOf' = Put(producerOf, Range(outputs), aid)
    /\ records' = Append(records, [kind |-> kind, inputs |-> inputs,
                                   outputs |-> Range(outputs), claim |-> <<>>])
    /\ UNCHANGED <<enabled, statusByNf, claimRecordOf, claimStatus, changes>>

Entry(n) ==
  Complete("entry", {}, <<n>>)

\* The recall deadline is in the voucher (StatusLedger).
Transfer(n, v, change) ==
  /\ v.sender = n.owner /\ change.owner = n.owner
  /\ SameRole(v.grade, n.grade) /\ SameRole(change.grade, n.grade)
  /\ Complete("transfer", {n}, <<v, change>>)

Proceed(v, opening) ==
  Complete("proceed", {v}, <<Note(v.grade, v.receiver, opening)>>)

Recall(v, opening) ==
  Complete("recall", {v}, <<Note(v.grade, v.sender, opening)>>)

Merge(n1, n2, out) ==
  /\ Nullifier(n1) # Nullifier(n2)
  /\ n1.owner = n2.owner /\ out.owner = n1.owner
  /\ SameRole(n1.grade, n2.grade) /\ SameRole(out.grade, n1.grade)
  /\ Complete("merge", {n1, n2}, <<out>>)

Split(n, out1, out2) ==
  /\ out1.owner = n.owner /\ out2.owner = n.owner
  /\ SameRole(out1.grade, n.grade) /\ SameRole(out2.grade, n.grade)
  /\ Complete("split", {n}, <<out1, out2>>)

\* The policy is one that is compiled into the circuit and granted to the scope
\* (PolicyRegistry).
Process(ins, out, waste) ==
  /\ Cardinality({Nullifier(n) : n \in ins}) = ProcessInputs
  /\ \A n \in ins : n.owner = out.owner /\ n.grade # WASTE
  /\ out.owner = waste.owner /\ out.grade # WASTE /\ waste.grade = WASTE
  /\ Complete("process", ins, <<out, waste>>)

\* The DPP repeats what the note says, under a new opening.
Exit(n, opening) ==
  Complete("exit", {n}, <<[grade |-> n.grade, dpp |-> opening]>>)

\* Mutant: a DPP can be given the same claim again.
IssuableAgain(dpp, policy) == policy \in DOMAIN enabled /\ enabled[policy]

\* The claim is new, its policy enabled.
Issuable(dpp, policy) ==
  /\ policy \in DOMAIN enabled /\ enabled[policy]
  /\ At(claimRecordOf, <<dpp, policy>>) = 0

\* By anyone who can open the DPP; the record has no inputs and no outputs.
Issue(dpp, policy) ==
  LET aid == Len(records) + 1 IN
    /\ aid <= MaxRecords
    /\ At(producerOf, dpp) # 0
    /\ records[At(producerOf, dpp)].kind = "exit"
    /\ Issuable(dpp, policy)
    /\ dpp.grade \in Accepted[policy]
    /\ records' = Append(records, [kind |-> "issue", inputs |-> {}, outputs |-> {},
                                   claim |-> <<dpp, policy>>])
    /\ claimRecordOf' = Put(claimRecordOf, {<<dpp, policy>>}, aid)
    /\ UNCHANGED <<enabled, producerOf, spentIn, statusByNf, claimStatus, changes>>

\* The status machine, for objects and for claims.
StatusChange(old, new) ==
  \/ old = ACTIVE /\ new = FROZEN
  \/ old = FROZEN /\ new \in {ACTIVE, REVOKED}

\* setStatus, of an unspent nullifier, whether its object exists or not.
SetStatus(nf, new) ==
  /\ changes < MaxStatusChanges
  /\ At(spentIn, nf) = 0
  /\ StatusChange(At(statusByNf, nf), new)
  /\ statusByNf' = Put(statusByNf, {nf}, new)
  /\ changes' = changes + 1
  /\ UNCHANGED <<enabled, records, producerOf, spentIn, claimRecordOf, claimStatus>>

SetClaimStatus(claim, new) ==
  /\ changes < MaxStatusChanges
  /\ At(claimRecordOf, claim) # 0
  /\ StatusChange(At(claimStatus, claim), new)
  /\ claimStatus' = Put(claimStatus, {claim}, new)
  /\ changes' = changes + 1
  /\ UNCHANGED <<enabled, records, producerOf, spentIn, statusByNf, claimRecordOf>>

\* registerPolicy and disablePolicy of an issue policy, as far as issue reads
\* the registry (PolicyRegistry has the whole of it): once each.
SetEnabled(policy) ==
  /\ enabled' = Put(enabled, {policy}, policy \notin DOMAIN enabled)
  /\ UNCHANGED <<records, producerOf, spentIn, statusByNf, claimRecordOf,
                 claimStatus, changes>>

ClaimNext ==
  \/ \E n \in EntryNotes \cap Notes : Entry(n)
  \/ \E n \in NotesHeld :
       \/ \E v \in Vouchers, change \in Notes : Transfer(n, v, change)
       \/ \E n2 \in NotesHeld, out \in Notes : Merge(n, n2, out)
       \/ \E out1, out2 \in Notes : Split(n, out1, out2)
       \/ \E opening \in Openings : Exit(n, opening)
  \/ \E v \in VouchersHeld, opening \in Openings : Proceed(v, opening) \/ Recall(v, opening)
  \/ \E ins \in SUBSET NotesHeld, out, waste \in Notes : Process(ins, out, waste)
  \/ \E dpp \in DPPs, policy \in Policies : Issue(dpp, policy)
  \/ \E x \in Watched \cap Spendable, new \in {ACTIVE, FROZEN, REVOKED} :
       SetStatus(NullifierOf(x), new)
  \/ \E claim \in Claims, new \in {ACTIVE, FROZEN, REVOKED} : SetClaimStatus(claim, new)
  \/ \E policy \in Policies : SetEnabled(policy)

ClaimSpec == ClaimInit /\ [][ClaimNext]_claimVars

-----------------------------------------------------------------------------
\* What a nullifier spends; the two kinds have different fields.
SpentBy(nf) == IF "cm" \in DOMAIN nf THEN nf.cm ELSE nf.rv

Held(statuses) ==
  {SpentBy(nf) : nf \in {s \in DOMAIN statusByNf : statusByNf[s] \in statuses}}

\* What the records consumed and created; an issue neither.
Events == [i \in DOMAIN records |-> [inputs  |-> records[i].inputs,
                                    outputs |-> records[i].outputs]]

ClaimFlow == INSTANCE AssetFlow WITH
  events    <- Events,
  blocked   <- Held({FROZEN, REVOKED}),
  revoked   <- Held({REVOKED})

\* The records are a history of AssetFlow in which issue changes nothing: spent
\* and status by nullifier let an object be consumed once, and not while it is
\* blocked; a DPP is made once and never consumed.
ClaimImplementsFlow == ClaimFlow!Spec

\* A claim stands on the record it points to, and through it on an exit: there
\* is one issue record for it, made after the exit of a note of the same grade,
\* which meets the policy, whatever was disabled, frozen or revoked since; and
\* no claim has a status that was not issued.
ClaimsStand ==
  /\ \A claim \in DOMAIN claimRecordOf :
       LET id   == claimRecordOf[claim]
           exit == At(producerOf, claim[1])
       IN  /\ {i \in DOMAIN records : records[i].claim = claim} = {id}
           /\ exit \in 1..id - 1
           /\ \E n \in records[exit].inputs :
                n.grade = claim[1].grade /\ n.grade \in Accepted[claim[2]]
  /\ \A i \in DOMAIN records :
       records[i].claim # <<>> => At(claimRecordOf, records[i].claim) = i
  /\ DOMAIN claimStatus \subseteq DOMAIN claimRecordOf
=============================================================================
