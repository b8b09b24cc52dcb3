----------------------------- MODULE ClaimAudit -----------------------------
(***************************************************************************)
(* The audits of the claim ledger: TraceClaim of internal/m8audit, which   *)
(* goes from a claim to the exit behind it and, by Trace of internal/audit, *)
(* back to the entries; and Forward of internal/m9audit, which follows an   *)
(* object to the live notes and the DPPs it ended in.  Both are given a     *)
(* snapshot, a block number and hash, but every read names the number only, *)
(* so what it returns is the chain of that moment.  Trace checks the hash   *)
(* before the first and after the last read, Forward before the first.      *)
(*                                                                         *)
(* A block holds the records up to it, as inputs, outputs and, for issue,  *)
(* the DPP.  Blocks may be replaced, and a fork that was left may become   *)
(* the chain again, with the hashes it had.  One visit of an object, with  *)
(* its reads, is one step.                                                 *)
(***************************************************************************)
EXTENDS Lineage, FiniteSets, SequencesExt

CONSTANTS
  MaxGoods,      \* notes and vouchers are 1..MaxGoods
  MaxDPPs,       \* DPPs are MaxGoods + 1 .. MaxGoods + MaxDPPs
  Starts,        \* chains there may be at first: the records up to each block
  MaxBlocks,     \* bound on the length of the chain
  MaxReorgs      \* bound on changes of fork

Goods  == 1..MaxGoods
DPPIds == MaxGoods + 1 .. MaxGoods + MaxDPPs

\* The records of a ledger: entry makes one note; what an event consumes becomes
\* something.
RecordedHistory(history) ==
  /\ history \in Seq([inputs : SUBSET Goods, outputs : SUBSET (Goods \cup DPPIds),
                      issued : SUBSET DPPIds])
  /\ Causal(history)
  /\ \A i \in DOMAIN history :
       IF history[i].inputs = {}
       THEN history[i].outputs = {} \/ \E o \in Goods : history[i].outputs = {o}
       ELSE history[i].outputs # {}

RecordedChain(first) ==
  /\ first \in Seq(Range(first)) \ {<<>>}
  /\ \A k \in DOMAIN first : RecordedHistory(first[k])

ASSUME GoodsAssumption  == MaxGoods \in Nat /\ MaxDPPs \in Nat
ASSUME StartsAssumption == \A first \in Starts : RecordedChain(first)

VARIABLES
  chain,         \* blocks: [hash, history]
  forks,         \* chains that were left
  hashes,        \* number of block hashes used
  reorgs,        \* number of changes of fork
  pc,            \* where the audit is
  snap,          \* its snapshot
  start,         \* the object or DPP it is about
  claimIds,      \* TraceClaim: ids of the issue and the exit record
  queue, seen,   \* the breadth-first search
  expanded,      \* Trace: records expanded
  ends,          \* entries of Trace; live objects and DPPs of Forward
  snapHistory,   \* the records at the snapshot, which no code reads
  cameBack       \* the snapshot's block left the chain and came back meanwhile,
                 \* which no code sees either

chainVars  == <<chain, forks, hashes, reorgs, cameBack>>
searchVars == <<queue, seen, expanded, ends>>
auditVars  == <<pc, snap, start, claimIds, searchVars, snapHistory>>
vars       == <<chainVars, auditVars>>

Tip == chain[Len(chain)]

-----------------------------------------------------------------------------
(* The chain. *)

\* The snapshot's block is the one of its number on this chain.
Holds(blocks) ==
  snap.number \in DOMAIN blocks /\ blocks[snap.number].hash = snap.hash

\* An event, the exit of one object into a DPP, or an issue for a DPP.
Records(history) ==
  LET unused(k, objects) ==
        {s \in SUBSET (objects \ Created(history)) :
           Cardinality(s) = k
           /\ \A x \in s, y \in (objects \ Created(history)) \ s : x < y}
      record(inputs, outputs, dpps) == [inputs |-> inputs, outputs |-> outputs,
                                        issued |-> dpps]
      spendable == {s \in SUBSET (LiveIn(history) \cap Goods) : Cardinality(s) \in {1, 2}}
  IN  {record({}, s, {}) : s \in unused(1, Goods)}
        \cup {record(i, s, {}) : i \in spendable,
                                 s \in unused(1, Goods) \cup unused(2, Goods)}
        \cup {record(i, s, {}) : i \in {j \in spendable : Cardinality(j) = 1},
                                 s \in unused(1, DPPIds)}
        \cup {record({}, {}, {d}) :
                d \in {x \in DPPIds \cap Created(history) :
                         \A k \in DOMAIN history : x \notin history[k].issued}}

Mine ==
  /\ Len(chain) < MaxBlocks
  /\ \E record \in Records(Tip.history) :
       chain' = Append(chain, [hash |-> hashes + 1, history |-> Append(Tip.history, record)])
  /\ hashes' = hashes + 1
  /\ UNCHANGED <<forks, reorgs, cameBack, auditVars>>

\* Blocks from k on are replaced by a new one, with another record or none.
Reorg(k) ==
  /\ reorgs < MaxReorgs
  /\ LET below == chain[k - 1].history IN
       \E history \in {below} \cup {Append(below, record) : record \in Records(below)} :
         chain' = Append(SubSeq(chain, 1, k - 1), [hash |-> hashes + 1, history |-> history])
  /\ hashes' = hashes + 1
  /\ forks' = forks \cup {chain}
  /\ reorgs' = reorgs + 1
  /\ UNCHANGED <<cameBack, auditVars>>

\* A fork that was left is the chain again.
Restore(fork) ==
  /\ reorgs < MaxReorgs
  /\ chain' = fork
  /\ forks' = (forks \ {fork}) \cup {chain}
  /\ reorgs' = reorgs + 1
  /\ cameBack' = (cameBack \/ (Holds(fork) /\ ~Holds(chain)))
  /\ UNCHANGED <<hashes, auditVars>>

-----------------------------------------------------------------------------
(* Reads. *)

Check == Holds(chain)

\* The records a node returns for the block number, if it has that block.
Answers == snap.number \in DOMAIN chain
View    == chain[snap.number].history

Producer(history, ref) == Position({i \in DOMAIN history : ref \in history[i].outputs})
SpentIn(history, ref)  == Position({i \in DOMAIN history : ref \in history[i].inputs})
IssueOf(history, dpp)  == Position({i \in DOMAIN history : dpp \in history[i].issued})

Return(result) == pc' = result

\* Any read may fail; the audit then returns an error.
Fail ==
  /\ pc \in {"claim", "exit", "trace", "forward"}
  /\ Return("failed")
  /\ UNCHANGED <<chainVars, snap, start, claimIds, searchVars, snapHistory>>

\* The snapshot is the latest block, and the first check succeeds.
Begin(object, first) ==
  /\ pc = "idle"
  /\ snap' = [number |-> Len(chain), hash |-> Tip.hash]
  /\ snapHistory' = Tip.history
  /\ start' = object
  /\ pc' = first
  /\ UNCHANGED <<chainVars, claimIds, seen, expanded, ends>>

-----------------------------------------------------------------------------
(* TraceClaim. *)

BeginClaim(dpp) ==
  /\ Begin(dpp, "claim")
  /\ UNCHANGED queue

\* claimRecordOf, and the issue record it names.
ReadClaim ==
  /\ pc = "claim"
  /\ Answers /\ IssueOf(View, start) # 0
  /\ claimIds' = <<IssueOf(View, start)>>
  /\ pc' = "exit"
  /\ UNCHANGED <<chainVars, snap, start, searchVars, snapHistory>>

\* producerOf the DPP, the exit record, its decrypted parent, and the check at
\* the start of Trace.
ReadExit ==
  LET id == Producer(View, start) IN
    /\ pc = "exit"
    /\ Answers /\ id # 0 /\ Check
    /\ claimIds' = Append(claimIds, id)
    /\ queue' = SetToSeq(View[id].inputs)
    /\ pc' = "trace"
    /\ UNCHANGED <<chainVars, snap, start, seen, expanded, ends, snapHistory>>

\* Trace, backward: a record is expanded when it is reached for the first time.
VisitParent ==
  LET ref == Head(queue)
      id  == Producer(View, ref)
  IN  /\ pc = "trace"
      /\ queue # <<>>
      /\ \/ /\ ref \in seen
            /\ queue' = Tail(queue)
            /\ UNCHANGED <<seen, expanded, ends>>
         \/ /\ ref \notin seen
            /\ Answers /\ id # 0
            /\ seen' = seen \cup {ref}
            /\ expanded' = expanded \cup {id}
            /\ LET parents == IF id \in expanded THEN {} ELSE View[id].inputs IN
                 /\ \A p \in parents : Producer(View, p) \in 1..id - 1
                 /\ queue' = Tail(queue) \o SetToSeq(parents)
            /\ ends' = IF id \notin expanded /\ View[id].inputs = {}
                       THEN ends \cup {ref} ELSE ends
      /\ UNCHANGED <<chainVars, pc, snap, start, claimIds, snapHistory>>

\* Mutant: the last check is left out.
TraceReturnUnchecked ==
  /\ pc = "trace"
  /\ queue = <<>>
  /\ Return("traced")
  /\ UNCHANGED <<chainVars, snap, start, claimIds, searchVars, snapHistory>>

TraceReturn ==
  /\ pc = "trace"
  /\ queue = <<>>
  /\ Check
  /\ Return("traced")
  /\ UNCHANGED <<chainVars, snap, start, claimIds, searchVars, snapHistory>>

-----------------------------------------------------------------------------
(* Forward. *)

BeginForward(object) ==
  /\ Begin(object, "forward")
  /\ queue' = <<object>>

\* Mutant: a DPP is not named as the end it is.
ForwardEndsUnspentOnly(ref, outputs) == IF outputs = {} THEN {ref} ELSE {}

\* Where the search ends: an object that is not spent, a DPP it went into.
ForwardEnds(ref, outputs) == IF outputs = {} THEN {ref} ELSE outputs \cap DPPIds

VisitChild ==
  LET ref      == Head(queue)
      consumer == SpentIn(View, ref)
      outputs  == IF consumer = 0 THEN {} ELSE View[consumer].outputs
  IN  /\ pc = "forward"
      /\ queue # <<>>
      /\ \/ /\ ref \in seen
            /\ queue' = Tail(queue)
            /\ UNCHANGED <<seen, ends>>
         \/ /\ ref \notin seen
            /\ Answers /\ Producer(View, ref) # 0
            /\ seen' = seen \cup {ref}
            /\ ends' = ends \cup ForwardEnds(ref, outputs)
            /\ queue' = Tail(queue) \o SetToSeq(outputs \ DPPIds)
      /\ UNCHANGED <<chainVars, pc, snap, start, claimIds, expanded, snapHistory>>

\* No check of the snapshot here.
ForwardReturn ==
  /\ pc = "forward"
  /\ queue = <<>>
  /\ Return("forwarded")
  /\ UNCHANGED <<chainVars, snap, start, claimIds, searchVars, snapHistory>>

-----------------------------------------------------------------------------
Init ==
  /\ \E first \in Starts :
       chain = [k \in DOMAIN first |-> [hash |-> k, history |-> first[k]]]
  /\ hashes = Len(chain) /\ forks = {} /\ reorgs = 0 /\ cameBack = FALSE
  /\ pc = "idle" /\ snap = [number |-> 0, hash |-> 0] /\ start = 0
  /\ claimIds = <<>> /\ snapHistory = <<>>
  /\ queue = <<>> /\ seen = {} /\ expanded = {} /\ ends = {}

Next ==
  \/ Mine
  \/ \E k \in 2..Len(chain) : Reorg(k)
  \/ \E fork \in forks : Restore(fork)
  \/ \E dpp \in DPPIds : BeginClaim(dpp)
  \/ \E object \in Goods : BeginForward(object)
  \/ Fail
  \/ ReadClaim \/ ReadExit \/ VisitParent \/ TraceReturn
  \/ VisitChild \/ ForwardReturn

Spec == Init /\ [][Next]_vars

-----------------------------------------------------------------------------
\* What an object stems from, and what came out of it.
Origins(object)  == {x \in Created(snapHistory) :
                       object \in Descendants(snapHistory, x)}
Outcomes(object) == Descendants(snapHistory, object)

\* A claim that was traced is traced at its snapshot, also when blocks were
\* replaced meanwhile: the two records it rests on, everything its DPP stems
\* from and the entries among it are those of the snapshot's block, although
\* each of them was read by number.  Only a snapshot whose block left the chain
\* and came back between the two checks of its hash escapes them.
ClaimTraceExact ==
  pc = "traced" /\ ~cameBack =>
    LET lineage == Origins(start) \ {start} IN
      /\ claimIds = <<IssueOf(snapHistory, start), Producer(snapHistory, start)>>
      /\ seen = lineage
      /\ ends = {x \in lineage : snapHistory[Producer(snapHistory, x)].inputs = {}}

\* What Forward found: the ends of everything that came out of the object.
ForwardFound ==
  /\ seen = Outcomes(start) \cap Goods
  /\ ends = Outcomes(start) \ Consumed(snapHistory)

\* If the snapshot's block has stayed on the chain until Forward returned, its
\* ends are those of the object, each lineage to its live object or its DPP.
ForwardExact ==
  pc = "forwarded" /\ Check /\ ~cameBack => ForwardFound

\* The same without the condition: the audit is of its snapshot.
ForwardOnSnapshot ==
  pc = "forwarded" => ForwardFound
=============================================================================
