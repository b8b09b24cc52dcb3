---------------------------- MODULE BackwardTrace ----------------------------
(***************************************************************************)
(* TraceBackward of internal/v2audit: from an object back to the entries   *)
(* it stems from, over RPC, at a pinned snapshot of the growing chain of   *)
(* AuditFreeze.  The search shares snap, queue, seen, pc and outcome with  *)
(* the forward audit of that module, which does not run here.              *)
(***************************************************************************)
EXTENDS AuditFreeze

VARIABLES
  recordIds,   \* the records expanded, in order
  entries,     \* the entered objects found
  graph        \* edges [parent, child, id]

backVars  == <<recordIds, entries, graph>>
traceRest == <<frontier, target, current, lowerBound, complete, txs, checkpoint,
               submitted>>

TRACED == "TRACED"

\* Mutant: only the first parent is followed.
FirstParent(history, id) ==
  SetToSeq({x \in history[id].inputs : \A y \in history[id].inputs : x <= y})

\* Parents of a record; the plaintext holds exactly the consumed objects.
Parents(history, id) == SetToSeq(history[id].inputs)

\* A parent was produced by an earlier record.
CausalParent(history, parent, id) ==
  Producer(history, parent) # 0 /\ Producer(history, parent) < id

Edges(history, id) ==
  {[parent |-> p, child |-> c, id |-> id] :
     p \in history[id].inputs, c \in history[id].outputs}

BeginBackward(object) ==
  /\ pc = "idle"
  /\ start' = object
  /\ snap' = Latest
  /\ queue' = <<object>>
  /\ pc' = "back"
  /\ UNCHANGED <<chainVars, failures, seen, outcome, traceRest, backVars>>

\* A read fails, the snapshot is gone, or the object has no producer.
BackFails ==
  /\ pc = "back"
  /\ \/ RpcFails
     \/ RpcWorks /\ ~Canonical(snap)
     \/ /\ RpcWorks
        /\ Canonical(snap)
        /\ queue # <<>> /\ ~Seen(Head(queue))
        /\ LET history == At(snap).history
               id      == Producer(history, Head(queue))
           IN  \/ id = 0
               \/ /\ id # 0
                  /\ \E p \in history[id].inputs : ~CausalParent(history, p, id)
  /\ Return(TRACE_FAILED)
  /\ UNCHANGED <<chainVars, start, snap, queue, seen, traceRest, backVars>>

\* One object: its record is expanded when it is reached for the first time.
VisitBackward ==
  LET ref     == Head(queue)
      history == At(snap).history
      id      == Producer(history, ref)
      Skip    == /\ queue' = Tail(queue)
                 /\ UNCHANGED backVars
  IN  /\ pc = "back"
      /\ queue # <<>>
      /\ RpcWorks
      /\ \/ Seen(ref) /\ Skip /\ UNCHANGED seen
         \/ /\ ~Seen(ref)
            /\ Canonical(snap)
            /\ id # 0
            /\ seen' = seen \cup {ref}
            /\ \/ id \in ToSet(recordIds) /\ Skip
               \/ /\ id \notin ToSet(recordIds)
                  /\ recordIds' = Append(recordIds, id)
                  /\ IF history[id].inputs = {}
                     THEN /\ entries' = Append(entries, ref)
                          /\ queue' = Tail(queue)
                          /\ UNCHANGED graph
                     ELSE /\ \A p \in history[id].inputs : CausalParent(history, p, id)
                          /\ queue' = Tail(queue) \o Parents(history, id)
                          /\ graph' = graph \cup Edges(history, id)
                          /\ UNCHANGED entries
      /\ UNCHANGED <<chainVars, pc, start, snap, outcome, traceRest>>

\* The last CheckSnapshot.
BackDone ==
  /\ pc = "back"
  /\ queue = <<>>
  /\ RpcWorks
  /\ Canonical(snap)
  /\ Return(TRACED)
  /\ UNCHANGED <<chainVars, start, snap, queue, seen, traceRest, backVars>>

BackStep == BackFails \/ VisitBackward \/ BackDone

BackInit ==
  /\ Init
  /\ recordIds = <<>> /\ entries = <<>> /\ graph = {}

BackNext ==
  \/ ChainStep /\ UNCHANGED backVars
  \/ \E object \in Objects : BeginBackward(object)
  \/ BackStep

BackSpec == BackInit /\ [][BackNext]_<<vars, backVars>>

-----------------------------------------------------------------------------
\* What an object stems from, by the forward relation of AssetFlow.
Ancestors(history, object) ==
  {x \in Created(history) : object \in Descendants(history, x)}

\* The backward search is the inverse of the forward relation at the snapshot:
\* a trace that succeeds has visited exactly what the object descends from and
\* named the entries among it, each once, although lineages split and merge and
\* a record is expanded only for the first of its outputs that is reached.
LineageExact ==
  outcome = TRACED /\ Canonical(snap) =>
    LET history == At(snap).history
        lineage == Ancestors(history, start)
        ids     == {Producer(history, x) : x \in lineage}
    IN  /\ seen = lineage
        /\ ToSet(entries) = {x \in lineage : history[Producer(history, x)].inputs = {}}
        /\ Len(entries) = Cardinality(ToSet(entries))
        /\ ToSet(recordIds) = ids /\ Len(recordIds) = Cardinality(ids)
        /\ graph = UNION {Edges(history, id) : id \in ids}
=============================================================================
