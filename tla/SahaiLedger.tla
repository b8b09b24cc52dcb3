----------------------------- MODULE SahaiLedger -----------------------------
(***************************************************************************)
(* contracts/src/SahaiLedger.sol of the comparison ledger, with its gadget *)
(* circuits: participants move documents, each consumed at most once, and  *)
(* every document names the documents it came from.                        *)
(*                                                                         *)
(* A document has leaves of four attributes and salts.  Its id is the root *)
(* of the tree over the attributes, so it is named by them: the salts go   *)
(* into the commitments a proof publishes, not into the tree.  A path      *)
(* proof opens one leaf, whichever the prover chose; equality and addition *)
(* are then proved of attributes of opened leaves.                         *)
(***************************************************************************)
EXTENDS Naturals, FiniteSets, SequencesExt

CONSTANTS
  Administrator,    \* the deployer, registered from the start
  Accounts,         \* who else it may register
  Documents,        \* [leaves : leaf -> attributes, salts]
  MaxTransactions   \* bound on the transitions of an instance

VARIABLES
  participants,
  documents,        \* id -> [inDocs, terminal, consumed], existing ones only
  transitions       \* the accepted events, as the chain keeps them

sahaiVars == <<participants, documents, transitions>>

\* Mutant: the leaves are hashed from the salted commitments.
SaltedRoot(d) == <<d.leaves, d.salts>>

\* PoseidonLeaf hashes the attributes of a leaf, not their commitments.
DocHash(d) == d.leaves

Ids == {DocHash(d) : d \in Documents}

-----------------------------------------------------------------------------
\* _verifyEntry and _verifyExit: sender and recipient of an opened leaf agree.
VerifySelf(id) == \E l \in DOMAIN id : id[l].sender = id[l].recipient

\* _verifyShip: passed on, with item and quantity.
VerifyShip(from, to) ==
  \E k \in DOMAIN from, l \in DOMAIN to :
    /\ from[k].recipient = to[l].sender
    /\ from[k].item = to[l].item
    /\ from[k].quantity = to[l].quantity

\* _verifyCombine: both recipients are the new sender, quantities add up.
VerifyCombine(first, second, to) ==
  \E j \in DOMAIN first, k \in DOMAIN second, l \in DOMAIN to :
    /\ first[j].recipient = to[l].sender
    /\ second[k].recipient = to[l].sender
    /\ first[j].quantity + second[k].quantity = to[l].quantity

\* _verifySplit.
VerifySplit(from, to1, to2) ==
  \E j \in DOMAIN from, k \in DOMAIN to1, l \in DOMAIN to2 :
    /\ from[j].recipient = to1[k].sender
    /\ from[j].recipient = to2[l].sender
    /\ to1[k].quantity + to2[l].quantity = from[j].quantity

-----------------------------------------------------------------------------
SahaiInit ==
  /\ participants = {Administrator}
  /\ documents = [id \in {} |-> {}]
  /\ transitions = <<>>

RegisterParticipant(account) ==
  /\ participants' = participants \cup {account}
  /\ UNCHANGED <<documents, transitions>>

\* Mutant: a consumed document can be loaded.
LoadableConsumed(id) ==
  /\ id \in DOMAIN documents
  /\ ~documents[id].terminal

\* _loadInput.
Loadable(id) ==
  /\ id \in DOMAIN documents
  /\ ~documents[id].terminal
  /\ ~documents[id].consumed

\* Mutant: a document can be stored again, over the first one.
TransitionOverwriting(kind, inputs, outputs, terminal) ==
  /\ Len(transitions) < MaxTransactions
  /\ \A id \in inputs : Loadable(id)
  /\ LET news == {DocHash(d) : d \in outputs} IN
       documents' =
         [id \in DOMAIN documents \cup news |->
            IF id \in news
            THEN [inDocs |-> inputs, terminal |-> terminal, consumed |-> FALSE]
            ELSE [documents[id] EXCEPT !.consumed = @ \/ id \in inputs]]
  /\ transitions' = Append(transitions, [kind |-> kind, inputs |-> inputs,
                                         outputs |-> outputs, terminal |-> terminal])
  /\ UNCHANGED participants

\* What the events share: load the inputs, consume them, and _store each output
\* under an id that does not exist.
Transition(kind, inputs, outputs, terminal) ==
  /\ Len(transitions) < MaxTransactions
  /\ \A id \in inputs : Loadable(id)
  /\ LET news == {DocHash(d) : d \in outputs} IN
       /\ Cardinality(news) = Cardinality(outputs)
       /\ news \cap DOMAIN documents = {}
       /\ documents' =
            [id \in DOMAIN documents \cup news |->
               IF id \in news
               THEN [inDocs |-> inputs, terminal |-> terminal, consumed |-> FALSE]
               ELSE [documents[id] EXCEPT !.consumed = @ \/ id \in inputs]]
  /\ transitions' = Append(transitions, [kind |-> kind, inputs |-> inputs,
                                         outputs |-> outputs, terminal |-> terminal])
  /\ UNCHANGED participants

Entry(sender, d) ==
  /\ sender \in participants
  /\ VerifySelf(DocHash(d))
  /\ Transition("entry", {}, {d}, FALSE)

Ship(sender, id, d) ==
  /\ sender \in participants
  /\ VerifyShip(id, DocHash(d))
  /\ Transition("ship", {id}, {d}, FALSE)

\* merge and process: _combine under either name.
Combine(sender, kind, id1, id2, d) ==
  /\ sender \in participants
  /\ id1 # id2
  /\ VerifyCombine(id1, id2, DocHash(d))
  /\ Transition(kind, {id1, id2}, {d}, FALSE)

Split(sender, id, d1, d2) ==
  /\ sender \in participants
  /\ DocHash(d1) # DocHash(d2)
  /\ VerifySplit(id, DocHash(d1), DocHash(d2))
  /\ Transition("split", {id}, {d1, d2}, FALSE)

\* The proofs of an exit are about the new document only.
Exit(sender, id, d) ==
  /\ sender \in participants
  /\ VerifySelf(DocHash(d))
  /\ Transition("exit", {id}, {d}, TRUE)

SahaiNext ==
  \/ \E account \in Accounts : RegisterParticipant(account)
  \/ \E sender \in participants, d \in Documents :
       \/ Entry(sender, d)
       \/ \E id \in DOMAIN documents : Ship(sender, id, d) \/ Exit(sender, id, d)
       \/ \E id1, id2 \in DOMAIN documents, kind \in {"merge", "process"} :
            Combine(sender, kind, id1, id2, d)
       \/ \E id \in DOMAIN documents, d2 \in Documents : Split(sender, id, d, d2)

SahaiSpec == SahaiInit /\ [][SahaiNext]_sahaiVars

-----------------------------------------------------------------------------
\* A document with the terminal flag it was stored with.
Stored(id, terminal) == [id |-> id, terminal |-> terminal]

Storable   == {Stored(id, terminal) : id \in Ids, terminal \in BOOLEAN}
Consumable == {Stored(id, FALSE) : id \in Ids}

OutputIds(i) == {DocHash(d) : d \in transitions[i].outputs}

LoadedBy(i) == {Stored(id, FALSE) : id \in transitions[i].inputs}
StoredBy(i) == {Stored(id, transitions[i].terminal) : id \in OutputIds(i)}

\* What the transitions consumed and created.
Events == [i \in DOMAIN transitions |-> [inputs |-> LoadedBy(i), outputs |-> StoredBy(i)]]

SahaiFlow == INSTANCE AssetFlow WITH
  Objects   <- Storable,
  Spendable <- Consumable,
  events    <- Events,
  blocked   <- {},
  revoked   <- {}

\* The flags of the documents are enough: no document is consumed twice, before
\* it exists or after it became terminal, and none is created twice.
SahaiImplementsFlow == SahaiFlow!Spec

\* The provenance on the ledger is the history: the InDocs of a document are the
\* inputs of the one event that stored it, and a document is marked consumed
\* exactly when it is among the InDocs of a document stored after it.
InDocsAreHistory ==
  /\ \A i \in DOMAIN transitions : \A id \in OutputIds(i) :
       /\ id \in DOMAIN documents
       /\ documents[id].inDocs = transitions[i].inputs
       /\ documents[id].terminal = transitions[i].terminal
  /\ \A id \in DOMAIN documents :
       /\ Cardinality({i \in DOMAIN transitions : id \in OutputIds(i)}) = 1
       /\ documents[id].consumed
            <=> \E other \in DOMAIN documents : id \in documents[other].inDocs
  /\ \A i, j \in DOMAIN transitions :
       transitions[i].inputs \cap OutputIds(j) # {} => j < i

\* DocHash is a salted commitment: a document that is not on the ledger yet can
\* be entered, also when one with the same attributes and other salts is.
SaltsMakeDocumentsDistinct ==
  \A d \in Documents :
    /\ VerifySelf(d.leaves)
    /\ \A i \in DOMAIN transitions : d \notin transitions[i].outputs
    /\ Len(transitions) < MaxTransactions
    => ENABLED Entry(Administrator, d)
=============================================================================
