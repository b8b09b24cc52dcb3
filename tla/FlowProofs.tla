------------------------------ MODULE FlowProofs ------------------------------
(***************************************************************************)
(* What AssetFlow promises, and the ledger that is nearest to it: the      *)
(* comparison ledger implements AssetFlow and records its provenance, for  *)
(* any participants, documents and bounds.                                 *)
(***************************************************************************)
EXTENDS AssetFlow, SahaiLedger, FlowHistory, FiniteSetTheorems

\* The history is a sequence, of whatever events.
FlowInv == (\E S : events \in Seq(S)) /\ Sound

\* A step keeps the promises and undoes nothing.
Proper == FlowInv' /\ Continues(events', events) /\ revoked \subseteq revoked'

LEMMA FlowSteps ==
  ASSUME FlowInv, [Next]_flowVars
  PROVE  Proper
<1>1. ASSUME NEW event, Record(event)
      PROVE  Proper
  <2>1. PICK S : events \in Seq(S)
    BY DEF FlowInv
  <2> DEFINE T == S \cup {event}
  <2>2. events \in Seq(T) /\ event \in T
    BY <2>1
  <2>3. /\ event.inputs \subseteq LiveIn(events) \ blocked
        /\ event.outputs \cap Created(events) = {}
        /\ events' = Append(events, event) /\ UNCHANGED <<blocked, revoked>>
    BY <1>1 DEF Record, Acceptable
  <2>4. /\ events' \in Seq(T) /\ Causal(events') /\ Continues(events', events)
        /\ Consumed(events') = Consumed(events) \cup event.inputs
    BY <2>2, <2>3, CausalAppend DEF FlowInv, Sound
  <2> QED
    BY <2>3, <2>4 DEF FlowInv, Sound, Proper
<1>2. ASSUME UNCHANGED events,
             \/ \E object : Block(object) \/ Release(object) \/ Revoke(object)
             \/ UNCHANGED flowVars
      PROVE  Proper
  BY <1>2 DEF FlowInv, Sound, Proper, Continues, Block, Release, Revoke, flowVars
<1> QED
  BY <1>1, <1>2 DEF Next, Block, Release, Revoke, flowVars

\* Whatever implements AssetFlow lets no object be consumed twice, before it was
\* created or while it is blocked, and undoes no event and no revocation.
THEOREM FlowIsSound == Spec => []Sound /\ Lasting
<1>1. Init => FlowInv
  <2>1. <<>> \in Seq({})
    OBVIOUS
  <2> QED
    BY <2>1 DEF Init, FlowInv, Sound, Causal, Consumed
<1>2. FlowInv /\ [Next]_flowVars => FlowInv'
  BY FlowSteps DEF Proper
<1>3. FlowInv => Sound
  BY DEF FlowInv
<1>4. FlowInv /\ [Next]_flowVars
        => [/\ \A i \in DOMAIN events : i \in DOMAIN events' /\ events'[i] = events[i]
            /\ revoked \subseteq revoked']_flowVars
  BY FlowSteps DEF Proper, Continues
<1> QED
  BY <1>1, <1>2, <1>3, <1>4, PTL DEF Spec, Lasting

-----------------------------------------------------------------------------
(* The comparison ledger. *)

Transitions == [kind : {"entry", "ship", "merge", "process", "split", "exit"},
                inputs : SUBSET Ids, outputs : SUBSET Documents, terminal : BOOLEAN]

States == [inDocs : SUBSET Ids, terminal : BOOLEAN, consumed : BOOLEAN]

Steps == DOMAIN transitions

Roots(outputs) == {DocHash(d) : d \in outputs}

SahaiTypes ==
  /\ transitions \in Seq(Transitions)
  /\ documents \in [DOMAIN documents -> States]
  /\ DOMAIN documents \subseteq Ids

\* What exists was stored by one transition, as it says.
StoredOnce ==
  /\ \A id \in DOMAIN documents : \E i \in Steps : id \in OutputIds(i)
  /\ \A i \in Steps : \A id \in OutputIds(i) :
       /\ id \in DOMAIN documents
       /\ documents[id].inDocs = transitions[i].inputs
       /\ documents[id].terminal = transitions[i].terminal
  /\ \A i, j \in Steps : \A id \in OutputIds(i) : id \in OutputIds(j) => i = j
  /\ \A i \in Steps : OutputIds(i) # {}

\* What was loaded is marked consumed, was not terminal and stored before.
LoadedOnce ==
  /\ \A i \in Steps : \A id \in transitions[i].inputs :
       /\ id \in DOMAIN documents
       /\ documents[id].consumed /\ ~documents[id].terminal
  /\ \A id \in DOMAIN documents : documents[id].consumed =>
       \E i \in Steps : id \in transitions[i].inputs
  /\ \A i, j \in Steps : \A id \in transitions[i].inputs : id \in OutputIds(j) => j < i

SahaiInv == SahaiTypes /\ StoredOnce /\ LoadedOnce

\* What every event but a registration does.
Moves(kind, inputs, outputs, terminal) ==
  /\ kind \in {"entry", "ship", "merge", "process", "split", "exit"}
  /\ inputs \subseteq DOMAIN documents
  /\ outputs \subseteq Documents /\ outputs # {}
  /\ terminal \in BOOLEAN
  /\ Transition(kind, inputs, outputs, terminal)

-----------------------------------------------------------------------------
\* A step registers a participant or moves documents.
LEMMA SahaiSteps ==
  ASSUME [SahaiNext]_sahaiVars
  PROVE  \/ UNCHANGED <<documents, transitions>>
         \/ \E kind, inputs, outputs, terminal : Moves(kind, inputs, outputs, terminal)
<1>1. ASSUME NEW sender, NEW d \in Documents, Entry(sender, d)
      PROVE  Moves("entry", {}, {d}, FALSE)
  BY <1>1 DEF Entry, Moves
<1>2. ASSUME NEW sender, NEW d \in Documents, NEW id \in DOMAIN documents,
             Ship(sender, id, d)
      PROVE  Moves("ship", {id}, {d}, FALSE)
  BY <1>2 DEF Ship, Moves
<1>3. ASSUME NEW sender, NEW d \in Documents, NEW id \in DOMAIN documents,
             Exit(sender, id, d)
      PROVE  Moves("exit", {id}, {d}, TRUE)
  BY <1>3 DEF Exit, Moves
<1>4. ASSUME NEW sender, NEW d \in Documents, NEW id1 \in DOMAIN documents,
             NEW id2 \in DOMAIN documents, NEW kind \in {"merge", "process"},
             Combine(sender, kind, id1, id2, d)
      PROVE  Moves(kind, {id1, id2}, {d}, FALSE)
  BY <1>4 DEF Combine, Moves
<1>5. ASSUME NEW sender, NEW d \in Documents, NEW d2 \in Documents,
             NEW id \in DOMAIN documents, Split(sender, id, d, d2)
      PROVE  Moves("split", {id}, {d, d2}, FALSE)
  BY <1>5 DEF Split, Moves
<1>6. ASSUME NEW account, RegisterParticipant(account)
      PROVE  UNCHANGED <<documents, transitions>>
  BY <1>6 DEF RegisterParticipant
<1>7. CASE UNCHANGED sahaiVars
  BY <1>7 DEF sahaiVars
<1> QED
  BY <1>1, <1>2, <1>3, <1>4, <1>5, <1>6, <1>7 DEF SahaiNext

\* What a move does to the history.
LEMMA MoveHistory ==
  ASSUME SahaiTypes, NEW kind, NEW inputs, NEW outputs, NEW terminal,
         Moves(kind, inputs, outputs, terminal),
         NEW news, news = Roots(outputs),
         NEW n, n = Len(transitions) + 1
  PROVE  /\ n \in Nat /\ Steps = 1..(n - 1) /\ Steps' = 1..n /\ n \in Steps' /\ n \notin Steps
         /\ transitions' \in Seq(Transitions)
         /\ \A i \in Steps : transitions'[i] = transitions[i]
         /\ transitions'[n] = [kind |-> kind, inputs |-> inputs, outputs |-> outputs,
                               terminal |-> terminal]
         /\ \A i \in Steps : OutputIds(i)' = OutputIds(i)
         /\ OutputIds(n)' = news
<1> DEFINE t == [kind |-> kind, inputs |-> inputs, outputs |-> outputs,
                 terminal |-> terminal]
<1>1. transitions' = Append(transitions, t)
  BY DEF Moves, Transition, Roots
<1>2. inputs \in SUBSET Ids /\ outputs \in SUBSET Documents /\ outputs # {}
      /\ terminal \in BOOLEAN /\ inputs \subseteq DOMAIN documents
  BY DEF Moves, SahaiTypes
<1>3. t \in Transitions
  BY <1>2 DEF Transitions, Moves
<1> HIDE DEF t
<1>4. transitions \in Seq(Transitions) /\ n \in Nat /\ Len(transitions) = n - 1
      /\ Steps = 1..(n - 1)
  BY DEF SahaiTypes, Steps
<1>5. /\ transitions' \in Seq(Transitions)
      /\ Len(transitions') = n
      /\ \A i \in 1..(n - 1) : transitions'[i] = transitions[i]
      /\ transitions'[n] = t
  BY <1>1, <1>3, <1>4, AppendProperties
<1>6. Steps' = 1..n /\ n \in Steps' /\ n \notin Steps
  BY <1>4, <1>5 DEF Steps
<1>7. \A i \in Steps : OutputIds(i)' = OutputIds(i)
  BY <1>4, <1>5 DEF OutputIds
<1>8. t.outputs = outputs
  BY DEF t
<1>9. OutputIds(n)' = news
  BY <1>5, <1>8 DEF OutputIds, Roots
<1> QED
  BY <1>4, <1>5, <1>6, <1>7, <1>9 DEF t

\* What a move loads, and what it stores.
LEMMA MoveLoads ==
  ASSUME SahaiTypes, NEW kind, NEW inputs, NEW outputs, NEW terminal,
         Moves(kind, inputs, outputs, terminal),
         NEW news, news = Roots(outputs)
  PROVE  /\ news \subseteq Ids /\ news # {} /\ news \cap DOMAIN documents = {}
         /\ inputs \subseteq DOMAIN documents
         /\ \A id \in inputs : ~documents[id].terminal /\ ~documents[id].consumed
         /\ DOMAIN documents' = DOMAIN documents \cup news
<1>1. news \subseteq Ids /\ news # {} /\ inputs \subseteq DOMAIN documents
  BY DEF Moves, Ids, Roots
<1>2. \A id \in inputs : ~documents[id].terminal /\ ~documents[id].consumed
  BY DEF Moves, Transition, Loadable
<1>3. /\ news \cap DOMAIN documents = {}
      /\ DOMAIN documents' = DOMAIN documents \cup news
  BY DEF Moves, Transition, Roots
<1> QED
  BY <1>1, <1>2, <1>3

\* What a move does to the documents.
LEMMA MoveDocuments ==
  ASSUME SahaiTypes, NEW kind, NEW inputs, NEW outputs, NEW terminal,
         Moves(kind, inputs, outputs, terminal),
         NEW news, news = Roots(outputs)
  PROVE  /\ documents' \in [DOMAIN documents' -> States]
         /\ \A id \in news : /\ documents'[id].inDocs = inputs
                             /\ documents'[id].terminal = terminal
                             /\ ~documents'[id].consumed
         /\ \A id \in DOMAIN documents :
              /\ documents'[id].inDocs = documents[id].inDocs
              /\ documents'[id].terminal = documents[id].terminal
              /\ documents'[id].consumed <=> documents[id].consumed \/ id \in inputs
<1>2. /\ DOMAIN documents' = DOMAIN documents \cup news
      /\ news \cap DOMAIN documents = {}
      /\ \A id \in news : documents'[id] = [inDocs |-> inputs, terminal |-> terminal,
                                            consumed |-> FALSE]
      /\ \A id \in DOMAIN documents :
           documents'[id] = [documents[id] EXCEPT !.consumed = @ \/ id \in inputs]
  BY DEF Moves, Transition, Roots
<1>3. documents' = [id \in DOMAIN documents' |-> documents'[id]]
  BY DEF Moves, Transition, Roots
<1>4. inputs \in SUBSET Ids /\ terminal \in BOOLEAN
  BY DEF Moves, SahaiTypes
<1>5. ASSUME NEW id \in news
      PROVE  /\ documents'[id] \in States
             /\ documents'[id].inDocs = inputs
             /\ documents'[id].terminal = terminal
             /\ ~documents'[id].consumed
  <2>1. PICK new : new = documents'[id]
    OBVIOUS
  <2>2. new = [inDocs |-> inputs, terminal |-> terminal, consumed |-> FALSE]
    BY <1>2, <2>1
  <2>3. new \in States /\ new.inDocs = inputs /\ new.terminal = terminal /\ ~new.consumed
    BY <1>4, <2>2 DEF States
  <2> QED
    BY <2>1, <2>3
<1>6. ASSUME NEW id \in DOMAIN documents
      PROVE  /\ documents'[id] \in States
             /\ documents'[id].inDocs = documents[id].inDocs
             /\ documents'[id].terminal = documents[id].terminal
             /\ documents'[id].consumed <=> documents[id].consumed \/ id \in inputs
  <2>1. documents[id] \in States
    BY DEF SahaiTypes
  <2>2. documents'[id] = [documents[id] EXCEPT !.consumed = @ \/ id \in inputs]
    BY <1>2
  <2> QED
    BY <2>1, <2>2 DEF States
<1> QED
  BY <1>2, <1>3, <1>5, <1>6

LEMMA SahaiInductive ==
  ASSUME SahaiInv, [SahaiNext]_sahaiVars
  PROVE  SahaiInv'
<1>1. CASE UNCHANGED <<documents, transitions>>
  BY <1>1 DEF SahaiInv, SahaiTypes, StoredOnce, LoadedOnce, Steps, OutputIds
<1>2. ASSUME NEW kind, NEW inputs, NEW outputs, NEW terminal,
             Moves(kind, inputs, outputs, terminal)
      PROVE  SahaiInv'
  <2>1. PICK n, news : n = Len(transitions) + 1 /\ news = Roots(outputs)
    OBVIOUS
  <2>2. SahaiTypes
    BY DEF SahaiInv
  <2>3. /\ n \in Nat /\ Steps = 1..(n - 1) /\ Steps' = 1..n /\ n \in Steps' /\ n \notin Steps
        /\ transitions' \in Seq(Transitions)
        /\ \A i \in Steps : transitions'[i] = transitions[i]
        /\ transitions'[n] = [kind |-> kind, inputs |-> inputs, outputs |-> outputs,
                              terminal |-> terminal]
        /\ \A i \in Steps : OutputIds(i)' = OutputIds(i)
        /\ OutputIds(n)' = news
    BY <1>2, <2>1, <2>2, MoveHistory
  <2>4. /\ news \subseteq Ids /\ news # {} /\ news \cap DOMAIN documents = {}
        /\ inputs \subseteq DOMAIN documents
        /\ \A id \in inputs : ~documents[id].terminal /\ ~documents[id].consumed
        /\ DOMAIN documents' = DOMAIN documents \cup news
    BY <1>2, <2>1, <2>2, MoveLoads
  <2>5. /\ documents' \in [DOMAIN documents' -> States]
        /\ \A id \in news : /\ documents'[id].inDocs = inputs
                            /\ documents'[id].terminal = terminal
                            /\ ~documents'[id].consumed
        /\ \A id \in DOMAIN documents :
             /\ documents'[id].inDocs = documents[id].inDocs
             /\ documents'[id].terminal = documents[id].terminal
             /\ documents'[id].consumed <=> documents[id].consumed \/ id \in inputs
    BY <1>2, <2>1, <2>2, MoveDocuments
  <2>6. /\ transitions'[n].inputs = inputs /\ transitions'[n].terminal = terminal
        /\ \A i \in Steps : /\ transitions'[i].inputs = transitions[i].inputs
                            /\ transitions'[i].terminal = transitions[i].terminal
        /\ \A i \in Steps' : i \in Steps \/ i = n
        /\ \A i \in Steps : i < n
    BY <2>3
  <2>7. SahaiTypes'
    BY <2>2, <2>3, <2>4, <2>5 DEF SahaiTypes
  <2>8. StoredOnce'
    <3>1. \A id \in DOMAIN documents' : \E i \in Steps' : id \in OutputIds(i)'
      BY <2>3, <2>4, <2>5, <2>6 DEF SahaiInv, StoredOnce
    <3>2. ASSUME NEW i \in Steps', NEW id \in OutputIds(i)'
          PROVE  /\ id \in DOMAIN documents'
                 /\ documents'[id].inDocs = transitions'[i].inputs
                 /\ documents'[id].terminal = transitions'[i].terminal
      <4>1. CASE i \in Steps
        BY <2>3, <2>4, <2>5, <2>6, <4>1 DEF SahaiInv, StoredOnce
      <4>2. CASE i = n
        BY <2>3, <2>4, <2>5, <2>6, <4>2
      <4> QED
        BY <2>6, <4>1, <4>2
    <3>3. ASSUME NEW i \in Steps', NEW j \in Steps', NEW id \in OutputIds(i)',
                 id \in OutputIds(j)'
          PROVE  i = j
      <4>1. \A k \in Steps : id \in OutputIds(k)' => id \in DOMAIN documents
        BY <2>3, <2>4, <2>5 DEF SahaiInv, StoredOnce
      <4>2. CASE i \in Steps /\ j \in Steps
        BY <2>3, <2>4, <2>5, <3>3, <4>2 DEF SahaiInv, StoredOnce
      <4>3. CASE i = n \/ j = n
        BY <2>3, <2>4, <2>5, <2>6, <3>3, <4>1, <4>3
      <4> QED
        BY <2>6, <4>2, <4>3
    <3>4. \A i \in Steps' : OutputIds(i)' # {}
      BY <2>3, <2>4, <2>5, <2>6 DEF SahaiInv, StoredOnce
    <3> QED
      BY <3>1, <3>2, <3>3, <3>4 DEF StoredOnce
  <2>9. LoadedOnce'
    <3>1. ASSUME NEW i \in Steps', NEW id \in transitions'[i].inputs
          PROVE  /\ id \in DOMAIN documents'
                 /\ documents'[id].consumed /\ ~documents'[id].terminal
      <4>1. CASE i \in Steps
        BY <2>3, <2>4, <2>5, <2>6, <4>1 DEF SahaiInv, LoadedOnce
      <4>2. CASE i = n
        BY <2>3, <2>4, <2>5, <2>6, <4>2
      <4> QED
        BY <2>6, <4>1, <4>2
    <3>2. ASSUME NEW id \in DOMAIN documents', documents'[id].consumed
          PROVE  \E i \in Steps' : id \in transitions'[i].inputs
      <4>1. id \in DOMAIN documents /\ (documents[id].consumed \/ id \in inputs)
        BY <2>3, <2>4, <2>5, <3>2
      <4>2. CASE documents[id].consumed
        <5>1. PICK i \in Steps : id \in transitions[i].inputs
          BY <4>1, <4>2 DEF SahaiInv, LoadedOnce
        <5> QED
          BY <2>3, <2>4, <2>5, <2>6, <5>1
      <4>3. CASE id \in inputs
        BY <2>3, <2>4, <2>5, <2>6, <4>3
      <4> QED
        BY <4>1, <4>2, <4>3
    <3>3. ASSUME NEW i \in Steps', NEW j \in Steps', NEW id \in transitions'[i].inputs,
                 id \in OutputIds(j)'
          PROVE  j < i
      <4>1. CASE i \in Steps /\ j \in Steps
        BY <2>3, <2>4, <2>5, <2>6, <3>3, <4>1 DEF SahaiInv, LoadedOnce
      <4>2. id \in DOMAIN documents
        <5>1. CASE i \in Steps
          BY <2>3, <2>4, <2>5, <2>6, <5>1 DEF SahaiInv, LoadedOnce
        <5>2. CASE i = n
          BY <2>3, <2>4, <2>5, <2>6, <5>2
        <5> QED
          BY <2>6, <5>1, <5>2
      <4>3. j \in Steps
        BY <2>3, <2>4, <2>5, <2>6, <3>3, <4>2
      <4>4. CASE i = n
        BY <2>6, <4>3, <4>4
      <4> QED
        BY <2>6, <4>1, <4>3, <4>4
    <3> QED
      BY <3>1, <3>2, <3>3 DEF LoadedOnce
  <2> QED
    BY <2>7, <2>8, <2>9 DEF SahaiInv
<1> QED
  BY <1>1, <1>2, SahaiSteps

LEMMA SahaiInvariant == SahaiSpec => []SahaiInv
<1>1. SahaiInit => SahaiInv
  <2> SUFFICES ASSUME SahaiInit PROVE SahaiInv
    OBVIOUS
  <2>1. transitions = <<>> /\ Steps = {} /\ DOMAIN documents = {}
    BY DEF SahaiInit, Steps
  <2>2. transitions \in Seq(Transitions) /\ documents \in [DOMAIN documents -> States]
    BY <2>1 DEF SahaiInit
  <2> QED
    BY <2>1, <2>2 DEF SahaiInv, SahaiTypes, StoredOnce, LoadedOnce
<1> QED
  BY <1>1, SahaiInductive, PTL DEF SahaiSpec

-----------------------------------------------------------------------------
\* The provenance the contract keeps is the history: for every set of documents,
\* the InDocs of each are the inputs of the one event that stored it, each input
\* was stored before, and consumed means named as an input.
THEOREM SahaiProvenance == SahaiSpec => []InDocsAreHistory
<1>1. ASSUME SahaiInv
      PROVE  InDocsAreHistory
  <2>1. \A i \in DOMAIN transitions : \A id \in OutputIds(i) :
          /\ id \in DOMAIN documents
          /\ documents[id].inDocs = transitions[i].inputs
          /\ documents[id].terminal = transitions[i].terminal
    BY <1>1 DEF SahaiInv, StoredOnce, Steps
  <2>2. ASSUME NEW id \in DOMAIN documents
        PROVE  Cardinality({i \in DOMAIN transitions : id \in OutputIds(i)}) = 1
    <3>1. PICK i \in Steps : id \in OutputIds(i)
      BY <1>1 DEF SahaiInv, StoredOnce
    <3>2. {j \in DOMAIN transitions : id \in OutputIds(j)} = {i}
      BY <1>1, <3>1 DEF SahaiInv, StoredOnce, Steps
    <3>3. Cardinality({i}) = 1
      BY FS_Singleton
    <3> QED
      BY <3>2, <3>3
  <2>3. ASSUME NEW id \in DOMAIN documents, documents[id].consumed
        PROVE  \E other \in DOMAIN documents : id \in documents[other].inDocs
    <3>1. PICK i \in Steps : id \in transitions[i].inputs
      BY <1>1, <2>3 DEF SahaiInv, LoadedOnce
    <3>2. PICK other : other \in OutputIds(i)
      BY <1>1, <3>1 DEF SahaiInv, StoredOnce
    <3> QED
      BY <2>1, <3>1, <3>2 DEF Steps
  <2>4. ASSUME NEW id \in DOMAIN documents, NEW other \in DOMAIN documents,
               id \in documents[other].inDocs
        PROVE  documents[id].consumed
    <3>1. PICK i \in Steps : other \in OutputIds(i)
      BY <1>1 DEF SahaiInv, StoredOnce
    <3>2. id \in transitions[i].inputs
      BY <2>1, <2>4, <3>1 DEF Steps
    <3> QED
      BY <1>1, <3>1, <3>2 DEF SahaiInv, LoadedOnce
  <2>5. \A i, j \in DOMAIN transitions :
          transitions[i].inputs \cap OutputIds(j) # {} => j < i
    BY <1>1 DEF SahaiInv, LoadedOnce, Steps
  <2> QED
    BY <2>1, <2>2, <2>3, <2>4, <2>5 DEF InDocsAreHistory
<1> QED
  BY <1>1, SahaiInvariant, PTL

-----------------------------------------------------------------------------
\* The event of AssetFlow a move is.
EventOf(inputs, news, terminal) == [inputs  |-> {Stored(id, FALSE) : id \in inputs},
                                    outputs |-> {Stored(id, terminal) : id \in news}]

LEMMA StoredFields ==
  ASSUME NEW id, NEW flag, NEW other, NEW second, Stored(id, flag) = Stored(other, second)
  PROVE  id = other /\ flag = second
<1>1. Stored(id, flag).id = id /\ Stored(id, flag).terminal = flag
  BY DEF Stored
<1>2. Stored(other, second).id = other /\ Stored(other, second).terminal = second
  BY DEF Stored
<1> QED
  BY <1>1, <1>2

\* What is live: stored, and not consumed.
LEMMA SahaiHistory ==
  ASSUME SahaiInv, NEW id
  PROVE  /\ \A flag : Stored(id, flag) \in SahaiFlow!Created(Events)
                      => id \in DOMAIN documents
         /\ id \in DOMAIN documents =>
              Stored(id, documents[id].terminal) \in SahaiFlow!Created(Events)
         /\ \A flag : Stored(id, flag) \in SahaiFlow!Consumed(Events)
                      => id \in DOMAIN documents /\ documents[id].consumed
<1>1. DOMAIN Events = Steps
  BY DEF Events, Steps
<1>2. \A i \in Steps : Events[i].inputs = LoadedBy(i) /\ Events[i].outputs = StoredBy(i)
  BY DEF Events, Steps
<1>3. ASSUME NEW flag, Stored(id, flag) \in SahaiFlow!Created(Events)
      PROVE  id \in DOMAIN documents
  <2>1. PICK i \in Steps : Stored(id, flag) \in StoredBy(i)
    BY <1>1, <1>2, <1>3 DEF SahaiFlow!Created
  <2>2. PICK other \in OutputIds(i) : Stored(id, flag) = Stored(other, transitions[i].terminal)
    BY <2>1 DEF StoredBy
  <2> QED
    BY <2>2, StoredFields DEF SahaiInv, StoredOnce
<1>4. ASSUME id \in DOMAIN documents
      PROVE  Stored(id, documents[id].terminal) \in SahaiFlow!Created(Events)
  <2>1. PICK i \in Steps : id \in OutputIds(i) /\ documents[id].terminal = transitions[i].terminal
    BY <1>4 DEF SahaiInv, StoredOnce
  <2>2. Stored(id, documents[id].terminal) \in StoredBy(i)
    BY <2>1 DEF StoredBy
  <2> QED
    BY <1>1, <1>2, <2>2 DEF SahaiFlow!Created
<1>5. ASSUME NEW flag, Stored(id, flag) \in SahaiFlow!Consumed(Events)
      PROVE  id \in DOMAIN documents /\ documents[id].consumed
  <2>1. PICK i \in Steps : Stored(id, flag) \in LoadedBy(i)
    BY <1>1, <1>2, <1>5 DEF SahaiFlow!Consumed
  <2>2. PICK other \in transitions[i].inputs : Stored(id, flag) = Stored(other, FALSE)
    BY <2>1 DEF LoadedBy
  <2>3. id \in transitions[i].inputs
    BY <2>2, StoredFields
  <2> QED
    BY <2>3 DEF SahaiInv, LoadedOnce
<1> QED
  BY <1>3, <1>4, <1>5

\* A move is acceptable to AssetFlow.
LEMMA MoveAcceptable ==
  ASSUME SahaiInv, NEW kind, NEW inputs, NEW outputs, NEW terminal,
         Moves(kind, inputs, outputs, terminal),
         NEW news, news = Roots(outputs),
         NEW event, event = EventOf(inputs, news, terminal)
  PROVE  SahaiFlow!Acceptable(Events, {}, event)
<1>1. SahaiTypes /\ terminal \in BOOLEAN
  BY DEF SahaiInv, Moves
<1>2. /\ news \subseteq Ids /\ news # {} /\ news \cap DOMAIN documents = {}
      /\ inputs \subseteq DOMAIN documents
      /\ \A id \in inputs : ~documents[id].terminal /\ ~documents[id].consumed
      /\ DOMAIN documents' = DOMAIN documents \cup news
  BY <1>1, MoveLoads
<1>3. ASSUME NEW id \in inputs
      PROVE  /\ Stored(id, FALSE) \in SahaiFlow!LiveIn(Events)
             /\ id \in Ids
  <2>1. id \in DOMAIN documents /\ documents[id] \in States /\ id \in Ids
    BY <1>1, <1>2 DEF SahaiTypes
  <2>2. documents[id].terminal = FALSE /\ ~documents[id].consumed
    BY <1>2, <2>1 DEF States
  <2>3. Stored(id, FALSE) \in SahaiFlow!Created(Events)
    BY <2>1, <2>2, SahaiHistory
  <2>4. Stored(id, FALSE) \notin SahaiFlow!Consumed(Events)
    BY <2>2, SahaiHistory
  <2> QED
    BY <2>1, <2>3, <2>4 DEF SahaiFlow!LiveIn
<1>4. ASSUME NEW id \in news
      PROVE  Stored(id, terminal) \notin SahaiFlow!Created(Events) /\ id \in Ids
  BY <1>2, SahaiHistory
<1>5. event.inputs \subseteq (SahaiFlow!LiveIn(Events) \cap Consumable) \ {}
  BY <1>3 DEF EventOf, Consumable
<1>6. event.outputs \subseteq Storable \ SahaiFlow!Created(Events)
  BY <1>1, <1>4 DEF EventOf, Storable
<1> QED
  BY <1>5, <1>6 DEF SahaiFlow!Acceptable

\* A move appends its event to the mapped history.
LEMMA MoveAppended ==
  ASSUME SahaiInv, NEW kind, NEW inputs, NEW outputs, NEW terminal,
         Moves(kind, inputs, outputs, terminal),
         NEW news, news = Roots(outputs),
         NEW event, event = EventOf(inputs, news, terminal)
  PROVE  /\ Events' = Append(Events, event)
         /\ Events' # <<>>
         /\ SahaiFlow!Last(Events') = event
<1>1. PICK n : n = Len(transitions) + 1
  OBVIOUS
<1>2. SahaiTypes
  BY DEF SahaiInv
<1>3. /\ n \in Nat /\ Steps = 1..(n - 1) /\ Steps' = 1..n /\ n \in Steps' /\ n \notin Steps
      /\ transitions' \in Seq(Transitions)
      /\ \A i \in Steps : transitions'[i] = transitions[i]
      /\ transitions'[n] = [kind |-> kind, inputs |-> inputs, outputs |-> outputs,
                            terminal |-> terminal]
      /\ \A i \in Steps : OutputIds(i)' = OutputIds(i)
      /\ OutputIds(n)' = news
  BY <1>1, <1>2, MoveHistory
<1>4. transitions'[n].inputs = inputs /\ transitions'[n].terminal = terminal
  BY <1>3
<1>5. LoadedBy(n)' = event.inputs /\ StoredBy(n)' = event.outputs
  BY <1>3, <1>4 DEF LoadedBy, StoredBy, EventOf
<1>6. \A i \in Steps : LoadedBy(i)' = LoadedBy(i) /\ StoredBy(i)' = StoredBy(i)
  BY <1>3 DEF LoadedBy, StoredBy
<1>7. Events'[n] = event
  BY <1>3, <1>5 DEF Events, Steps, EventOf
<1>8. \A i \in Steps : Events'[i] = Events[i]
  BY <1>3, <1>6 DEF Events, Steps
<1>9. Events' = [i \in 1..n |-> Events'[i]] /\ Events = [i \in 1..(n - 1) |-> Events[i]]
  BY <1>3 DEF Events, Steps
<1>10. n - 1 \in Nat /\ (n - 1) + 1 = n
  BY <1>1, <1>2 DEF SahaiTypes
<1>11. Events' = Append(Events, event) /\ Events' # <<>> /\ Len(Events') = n
  BY <1>3, <1>7, <1>8, <1>9, <1>10, ExtendedIsAppended
<1> QED
  BY <1>7, <1>11 DEF SahaiFlow!Last

\* The comparison ledger implements AssetFlow: the flags of its documents alone
\* keep a document from being consumed twice, before it is stored or after it
\* became terminal, and from being stored twice.
THEOREM SahaiImplements == SahaiSpec => SahaiImplementsFlow
<1>1. SahaiInit => SahaiFlow!Init
  <2>1. SahaiInit => Events = <<>>
    BY DEF SahaiInit, Events
  <2> QED
    BY <2>1 DEF SahaiFlow!Init, SahaiInit
<1>2. ASSUME SahaiInv, [SahaiNext]_sahaiVars
      PROVE  [SahaiFlow!Next]_SahaiFlow!flowVars
  <2>1. CASE UNCHANGED <<documents, transitions>>
    <3>1. Events' = Events
      BY <2>1 DEF Events, LoadedBy, StoredBy, OutputIds
    <3> QED
      BY <3>1 DEF SahaiFlow!flowVars
  <2>2. ASSUME NEW kind, NEW inputs, NEW outputs, NEW terminal,
               Moves(kind, inputs, outputs, terminal)
        PROVE  SahaiFlow!Next
    <3>1. PICK news, event :
            /\ news = Roots(outputs)
            /\ event = EventOf(inputs, news, terminal)
      OBVIOUS
    <3>2. /\ SahaiFlow!Acceptable(Events, {}, event)
          /\ Events' = Append(Events, event)
          /\ Events' # <<>>
          /\ SahaiFlow!Last(Events') = event
      BY <1>2, <2>2, <3>1, MoveAcceptable, MoveAppended
    <3>3. SahaiFlow!Record(event)
      BY <3>2 DEF SahaiFlow!Record
    <3> QED
      BY <3>2, <3>3 DEF SahaiFlow!Next
  <2> QED
    BY <1>2, <2>1, <2>2, SahaiSteps
<1> QED
  BY <1>1, <1>2, SahaiInvariant, PTL DEF SahaiSpec, SahaiImplementsFlow, SahaiFlow!Spec
=============================================================================
