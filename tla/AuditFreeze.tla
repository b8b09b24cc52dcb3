----------------------------- MODULE AuditFreeze -----------------------------
(***************************************************************************)
(* internal/v2audit: AuditAndFreeze traces what became of an object at a   *)
(* pinned snapshot, freezes every live descendant, and reports whether all *)
(* of them are blocked at a later checkpoint.  It talks to a node by RPC   *)
(* (rpc.go) while the chain grows, other status changes happen, calls fail *)
(* and blocks are replaced.                                                *)
(*                                                                         *)
(* A block holds the ledger after it: the history of events of AssetFlow   *)
(* and the status of the objects; each block carries one transaction.      *)
(* Records are decrypted without error: V2LedgerProps!FutureNfsOpenOutputs *)
(* shows what decryption yields.                                           *)
(***************************************************************************)
EXTENDS Lineage, FiniteSets, SequencesExt

CONSTANTS
  MaxGoods,      \* notes and vouchers are 1..MaxGoods
  MaxClaims,     \* claims are MaxGoods + 1 .. MaxGoods + MaxClaims
  Histories,     \* recorded histories the chain may start from
  MaxBlocks,     \* bound on the length of the chain
  MaxReorgs,     \* bound on replacements of blocks
  FinalSnapshot, \* TRUE: the snapshot's block is never replaced
  MaxFailures    \* bound on failing RPC calls

Goods   == 1..MaxGoods
Claims  == MaxGoods + 1 .. MaxGoods + MaxClaims
Objects == Goods \cup Claims

\* Histories the ledger may have recorded: only goods are consumed, and an entry
\* creates one of them.
RecordedHistory(history) ==
  /\ history \in Seq([inputs : SUBSET Goods, outputs : SUBSET Objects])
  /\ Causal(history)
  /\ \A i \in DOMAIN history :
       history[i].inputs = {} => \E o \in Goods : history[i].outputs = {o}

ASSUME GoodsAssumption     == MaxGoods \in Nat /\ MaxClaims \in Nat
ASSUME HistoriesAssumption == \A history \in Histories : RecordedHistory(history)

VARIABLES
  chain,         \* blocks: [hash, history, status, tx]
  hashes,        \* number of block hashes used
  reorgs,        \* number of replacements so far
  submitted,     \* targets of freeze transactions that reached the network
  failures,      \* number of failed RPC calls
  pc,            \* where AuditAndFreeze is
  start,         \* the object it was called for
  snap,          \* the snapshot it was called with
  queue, seen,   \* forward: the breadth-first search
  frontier,      \* the live descendants found: the targets
  target,        \* index of the current target
  current,       \* the observation of the current target
  lowerBound,    \* least block number the checkpoint may have
  complete,
  txs,           \* target index -> result of its Freeze
  checkpoint,
  outcome

chainVars == <<chain, hashes, reorgs>>
traceVars == <<start, snap, queue, seen, frontier>>
auditVars == <<pc, traceVars, target, current, lowerBound, complete, txs,
               checkpoint, outcome, submitted, failures>>
vars      == <<chainVars, auditVars>>

ACTIVE  == 0
FROZEN  == 1
REVOKED == 2

TRACE_FAILED           == "TRACE_FAILED"
NO_LIVE_TARGETS        == "NO_LIVE_TARGETS"
COMPLETE_AT_CHECKPOINT == "COMPLETE_AT_CHECKPOINT"
INCOMPLETE             == "INCOMPLETE"

NoSnapshot == [number |-> 0, hash |-> 0]
NoTx       == [state |-> "NONE", number |-> 0, hash |-> 0]

Tip == chain[Len(chain)]

Held(block)   == {o \in Goods : block.status[o] # ACTIVE}
Barred(block) == {o \in Goods : block.status[o] = REVOKED}

\* The ledger of AssetFlow at the last block.
Flow == INSTANCE AssetFlow WITH
  Objects <- Objects, Spendable <- Goods,
  events <- Tip.history, blocked <- Held(Tip), revoked <- Barred(Tip)

-----------------------------------------------------------------------------
(* The chain. *)

Extend(history, status, tx) ==
  /\ Len(chain) < MaxBlocks
  /\ chain' = Append(chain, [hash |-> hashes + 1, history |-> history,
                             status |-> status, tx |-> tx])
  /\ hashes' = hashes + 1
  /\ UNCHANGED <<reorgs, auditVars>>

NoTarget == 0

\* The next k objects of a set of numbers that were never created.
Fresh(k, objects) ==
  LET unused == objects \ Created(Tip.history)
  IN  {s \in SUBSET unused :
         Cardinality(s) = k /\ \A x \in s, y \in unused \ s : x < y}

\* A ledger event: an entry, an event with one or two outputs, an exit (no
\* output) or an issue (one claim).  The chain grows by events of at most two
\* inputs; a Process of three may be in the history it starts from.
LedgerEvent ==
  \E inputs \in {s \in SUBSET LiveIn(Tip.history) : Cardinality(s) <= 2} :
    \E outputs \in Fresh(1, Goods) \cup Fresh(2, Goods) \cup Fresh(1, Claims) \cup {{}} :
      LET event == [inputs |-> inputs, outputs |-> outputs] IN
      /\ inputs = {} => outputs \in Fresh(1, Goods)
      /\ outputs \cap Claims # {} \/ outputs = {} => Cardinality(inputs) = 1
      /\ Flow!Acceptable(Tip.history, Held(Tip), event)
      /\ Extend(Append(Tip.history, event), Tip.status, NoTarget)

\* setStatus by the operators of the status authority's account.
StatusStep(block, o, new) ==
  /\ \/ block.status[o] = ACTIVE /\ new = FROZEN
     \/ block.status[o] = FROZEN /\ new \in {ACTIVE, REVOKED}
  /\ o \notin Consumed(block.history)

OperatorStatus(o, new) ==
  /\ StatusStep(Tip, o, new)
  /\ Extend(Tip.history, [Tip.status EXCEPT ![o] = new], NoTarget)

\* A freeze transaction of the audit is mined; it reverts if setStatus does.
MinedAt(o) == {k \in DOMAIN chain : chain[k].tx = o}

MineFreeze(o) ==
  /\ o \in submitted
  /\ MinedAt(o) = {}
  /\ Extend(Tip.history,
            IF StatusStep(Tip, o, FROZEN) THEN [Tip.status EXCEPT ![o] = FROZEN]
                                          ELSE Tip.status, o)

\* Blocks from k on are replaced by one without transactions; what they mined
\* may be mined again.
Reorg(k) ==
  /\ reorgs < MaxReorgs
  /\ FinalSnapshot /\ pc # "idle" => k > snap.number
  /\ chain' = Append(SubSeq(chain, 1, k - 1),
                     [chain[k - 1] EXCEPT !.hash = hashes + 1, !.tx = NoTarget])
  /\ hashes' = hashes + 1
  /\ reorgs' = reorgs + 1
  /\ UNCHANGED auditVars

ChainStep ==
  \/ LedgerEvent
  \/ \E o \in Goods, new \in {ACTIVE, FROZEN, REVOKED} : OperatorStatus(o, new)
  \/ \E o \in Goods : MineFreeze(o)
  \/ \E k \in 2..Len(chain) : Reorg(k)

-----------------------------------------------------------------------------
(* The auditor: reads by RPC. *)

\* The last block as a snapshot (Checkpoint).
Latest == [number |-> Len(chain), hash |-> Tip.hash]

\* CheckSnapshot succeeds, and so do the reads pinned to the block's hash.
Canonical(s) == s.number \in DOMAIN chain /\ chain[s.number].hash = s.hash

At(s) == chain[s.number]

\* A call that fails although the node could answer it.
RpcFails ==
  /\ failures < MaxFailures
  /\ failures' = failures + 1

RpcWorks == UNCHANGED failures

\* Records are numbered by position; 0 is no record.
Producer(history, ref) == Position({i \in DOMAIN history : ref \in history[i].outputs})
SpentIn(history, ref)  == Position({i \in DOMAIN history : ref \in history[i].inputs})

Return(result) ==
  /\ outcome' = result
  /\ pc' = "done"

\* AuditAndFreeze is called for some object at the latest block.
Begin(object) ==
  /\ pc = "idle"
  /\ start' = object
  /\ snap' = Latest
  /\ queue' = <<object>>
  /\ pc' = "trace"
  /\ UNCHANGED <<chainVars, seen, frontier, target, current, lowerBound, complete,
                 txs, checkpoint, outcome, submitted, failures>>

TraceUnchanged == UNCHANGED <<chainVars, start, snap, target, current, lowerBound,
                              complete, txs, checkpoint, submitted>>

\* Mutant: every object is looked up each time it is reached.
NeverSeen(ref) == FALSE

Seen(ref) == ref \in seen

\* Any failing read, a snapshot that is no longer canonical, or an object that
\* was never produced ends the audit.
TraceFails ==
  /\ pc = "trace"
  /\ \/ RpcFails
     \/ /\ RpcWorks
        /\ \/ ~Canonical(snap)
           \/ /\ Canonical(snap)
              /\ queue # <<>> /\ ~Seen(Head(queue))
              /\ Producer(At(snap).history, Head(queue)) = 0
  /\ Return(TRACE_FAILED)
  /\ UNCHANGED <<queue, seen, frontier>>
  /\ TraceUnchanged

\* Nothing comes out of a claim.
Terminal(ref) == ref \in Claims

\* Mutant: only the first output is followed.
FirstChild(history, consumer) ==
  SetToSeq({x \in history[consumer].outputs :
              \A y \in history[consumer].outputs : x <= y})

\* Mutant: record ids and positions are confused by one.
ChildrenOfNext(history, consumer) ==
  SetToSeq(history[IF consumer < Len(history) THEN consumer + 1
                                              ELSE consumer].outputs)

Children(history, consumer) == SetToSeq(history[consumer].outputs)

\* One object of forward: skip it when seen; stop at a claim; an unconsumed
\* object is a target; else follow the outputs of its consumer.
TraceObject ==
  /\ pc = "trace"
  /\ queue # <<>>
  /\ RpcWorks
  /\ LET ref      == Head(queue)
         history  == At(snap).history
         consumer == SpentIn(history, ref)
     IN  \/ /\ Seen(ref)
            /\ queue' = Tail(queue)
            /\ UNCHANGED <<seen, frontier>>
         \/ /\ ~Seen(ref)
            /\ Canonical(snap)
            /\ Producer(history, ref) # 0
            /\ seen' = seen \cup {ref}
            /\ \/ /\ Terminal(ref)
                  /\ queue' = Tail(queue)
                  /\ UNCHANGED frontier
               \/ /\ ~Terminal(ref) /\ consumer = 0
                  /\ queue' = Tail(queue)
                  /\ frontier' = Append(frontier, ref)
               \/ /\ ~Terminal(ref) /\ consumer > Producer(history, ref)
                  /\ queue' = Tail(queue) \o Children(history, consumer)
                  /\ UNCHANGED frontier
  /\ UNCHANGED <<pc, outcome>>
  /\ TraceUnchanged

\* How many elements of a sequence go before its k-th one.
Rank(seq, k) ==
  Cardinality({j \in DOMAIN seq : seq[j] < seq[k] \/ (seq[j] = seq[k] /\ j < k)})

\* The targets in the order of their keys.
Sorted(seq) ==
  [i \in DOMAIN seq |-> seq[CHOOSE k \in DOMAIN seq : Rank(seq, k) = i - 1]]

\* The search is over and the snapshot is still canonical.
TraceDone ==
  /\ pc = "trace"
  /\ queue = <<>>
  /\ RpcWorks
  /\ Canonical(snap)
  /\ frontier' = Sorted(frontier)
  /\ \/ /\ frontier = <<>>
        /\ Return(NO_LIVE_TARGETS)
        /\ UNCHANGED <<target, lowerBound, txs>>
     \/ /\ frontier # <<>>
        /\ pc' = "observe"
        /\ target' = 1
        /\ lowerBound' = snap.number
        /\ txs' = [i \in DOMAIN frontier |-> NoTx]
        /\ UNCHANGED outcome
  /\ UNCHANGED <<chainVars, start, snap, queue, seen, current, complete,
                 checkpoint, submitted>>

-----------------------------------------------------------------------------
(* The auditor: one target after the other. *)

Highest(a, b) == IF a > b THEN a ELSE b

\* Mutant: after the last target the first one is observed again.
NextTargetAgain ==
  /\ target' = IF target < Len(frontier) THEN target + 1 ELSE 1
  /\ pc' = "observe"

\* Go on with the next target, or with the checkpoint after the last one.
NextTarget ==
  IF target < Len(frontier)
  THEN /\ target' = target + 1
       /\ pc' = "observe"
  ELSE /\ target' = 1
       /\ pc' = "checkpoint"

\* Checkpoint before a target.
Observe ==
  /\ pc = "observe"
  /\ \/ /\ RpcFails
        /\ complete' = FALSE
        /\ NextTarget
        /\ UNCHANGED <<current, lowerBound>>
     \/ /\ RpcWorks
        /\ current' = Latest
        /\ IF Latest.number < snap.number
           THEN /\ complete' = FALSE
                /\ NextTarget
                /\ UNCHANGED lowerBound
           ELSE /\ lowerBound' = Highest(lowerBound, Latest.number)
                /\ pc' = "read"
                /\ UNCHANGED <<complete, target>>
  /\ UNCHANGED <<chainVars, traceVars, txs, checkpoint, outcome, submitted>>

\* CheckSnapshot, Status, CheckSnapshot, all pinned to the observation.
ReadStatus ==
  LET spent  == SpentIn(At(current).history, frontier[target]) # 0
      status == At(current).status[frontier[target]]
  IN  /\ pc = "read"
      /\ \/ /\ RpcFails \/ (RpcWorks /\ ~Canonical(current))
            /\ complete' = FALSE
            /\ NextTarget
         \/ /\ RpcWorks
            /\ Canonical(current)
            /\ complete' = (complete /\ ~spent)
            /\ IF spent \/ status # ACTIVE
               THEN NextTarget
               ELSE pc' = "estimate" /\ UNCHANGED target
      /\ UNCHANGED <<chainVars, traceVars, current, lowerBound, txs, checkpoint,
                     outcome, submitted>>

\* EstimateGas at the latest block; an error leaves the target REJECTED, which
\* does not make the audit incomplete by itself.
Estimate ==
  /\ pc = "estimate"
  /\ \/ /\ RpcFails \/ (RpcWorks /\ ~StatusStep(Tip, frontier[target], FROZEN))
        /\ txs' = [txs EXCEPT ![target].state = "REJECTED"]
        /\ NextTarget
     \/ /\ RpcWorks
        /\ StatusStep(Tip, frontier[target], FROZEN)
        /\ pc' = "send"
        /\ UNCHANGED <<txs, target>>
  /\ UNCHANGED <<chainVars, traceVars, current, lowerBound, complete, checkpoint,
                 outcome, submitted>>

\* eth_sendTransaction; when it fails the transaction may still be out.
Send ==
  /\ pc = "send"
  /\ txs' = [txs EXCEPT ![target].state = "UNCERTAIN"]
  /\ \/ /\ RpcWorks
        /\ submitted' = submitted \cup {frontier[target]}
        /\ pc' = "receipt"
        /\ UNCHANGED <<complete, target>>
     \/ /\ RpcFails
        /\ submitted' \in {submitted, submitted \cup {frontier[target]}}
        /\ complete' = FALSE
        /\ NextTarget
  /\ UNCHANGED <<chainVars, traceVars, current, lowerBound, checkpoint, outcome>>

\* Mutant: a missing receipt is taken for a failed transaction.
ReceiptForgotten ==
  /\ RpcFails \/ (RpcWorks /\ MinedAt(frontier[target]) = {})
  /\ UNCHANGED <<complete, txs, lowerBound>>

\* Polling ends without a receipt.
ReceiptMissing ==
  /\ RpcFails \/ (RpcWorks /\ MinedAt(frontier[target]) = {})
  /\ complete' = FALSE
  /\ UNCHANGED <<txs, lowerBound>>

Receipt ==
  /\ pc = "receipt"
  /\ \/ \E k \in MinedAt(frontier[target]) :
          /\ RpcWorks
          /\ txs' = [txs EXCEPT ![target] =
                       [state |-> IF chain[k].status # chain[k - 1].status
                                  THEN "CONFIRMED" ELSE "REJECTED",
                        number |-> k, hash |-> chain[k].hash]]
          /\ lowerBound' = Highest(lowerBound, k)
          /\ UNCHANGED complete
     \/ ReceiptMissing
  /\ NextTarget
  /\ UNCHANGED <<chainVars, traceVars, current, checkpoint, outcome, submitted>>

-----------------------------------------------------------------------------
(* The auditor: the verdict. *)

FinalCheckpoint ==
  /\ pc = "checkpoint"
  /\ \/ /\ RpcFails
        /\ Return(INCOMPLETE)
        /\ UNCHANGED checkpoint
     \/ /\ RpcWorks
        /\ checkpoint' = Latest
        /\ IF Latest.number < lowerBound
           THEN Return(INCOMPLETE)
           ELSE pc' = "verify" /\ UNCHANGED outcome
  /\ UNCHANGED <<chainVars, traceVars, target, current, lowerBound, complete, txs,
                 submitted>>

\* ValidateReceipt: the receipt is on the chain, not after the checkpoint.
ReceiptValid(tx, o) ==
  /\ tx.number <= checkpoint.number
  /\ Canonical([number |-> tx.number, hash |-> tx.hash])
  /\ chain[tx.number].tx = o

UnspentAt(s, o) == SpentIn(At(s).history, o) = 0

BlockedAt(s, o) == UnspentAt(s, o) /\ At(s).status[o] \in {FROZEN, REVOKED}

\* One target at the checkpoint.  A read that fails leaves it not blocked.
Verify ==
  LET o     == frontier[target]
      valid == txs[target].state = "CONFIRMED" => ReceiptValid(txs[target], o)
  IN  /\ pc = "verify"
      /\ target <= Len(frontier)
      /\ target' = target + 1
      /\ \/ RpcFails /\ complete' = FALSE
         \/ /\ RpcWorks
            /\ complete' = (complete /\ Canonical(checkpoint)
                                     /\ BlockedAt(checkpoint, o) /\ valid)
      /\ UNCHANGED <<chainVars, traceVars, pc, current, lowerBound, txs, checkpoint,
                     outcome, submitted>>

\* CheckSnapshot of the checkpoint after the last read.
Finish ==
  /\ pc = "verify"
  /\ target > Len(frontier)
  /\ \/ RpcFails /\ Return(INCOMPLETE)
     \/ /\ RpcWorks
        /\ Return(IF complete /\ Canonical(checkpoint)
                  THEN COMPLETE_AT_CHECKPOINT ELSE INCOMPLETE)
  /\ UNCHANGED <<chainVars, traceVars, target, current, lowerBound, complete, txs,
                 checkpoint, submitted>>

AuditStep ==
  \/ TraceFails \/ TraceObject \/ TraceDone
  \/ Observe \/ ReadStatus \/ Estimate \/ Send \/ Receipt
  \/ FinalCheckpoint \/ Verify \/ Finish

Init ==
  /\ \E history \in Histories :
       chain = <<[hash |-> 1, history |-> history,
                  status |-> [o \in Goods |-> ACTIVE], tx |-> NoTarget]>>
  /\ hashes = 1 /\ reorgs = 0
  /\ submitted = {} /\ failures = 0
  /\ pc = "idle" /\ start = 0 /\ snap = NoSnapshot
  /\ queue = <<>> /\ seen = {} /\ frontier = <<>>
  /\ target = 0 /\ current = NoSnapshot /\ lowerBound = 0
  /\ complete = TRUE /\ txs = <<>>
  /\ checkpoint = NoSnapshot /\ outcome = "NONE"

Next ==
  \/ ChainStep
  \/ \E object \in Objects : Begin(object)
  \/ AuditStep

Spec == Init /\ [][Next]_vars

\* A running audit goes on; nothing forces the chain to grow.
FairSpec == Spec /\ WF_vars(AuditStep)

-----------------------------------------------------------------------------
(* What an audit promises. *)

\* What came out of an object and can still be moved.
LiveDescendants(history, object) ==
  Descendants(history, object) \cap LiveIn(history) \cap Goods

Traced == pc \notin {"idle", "trace"} /\ outcome # TRACE_FAILED

\* The search is sound and complete: at the snapshot, the targets are exactly
\* the live descendants of the object, each once, although branches merge again
\* and every object is looked up once.
FrontierExact ==
  Traced /\ Canonical(snap) =>
    /\ ToSet(frontier) = LiveDescendants(At(snap).history, start)
    /\ Cardinality(ToSet(frontier)) = Len(frontier)

\* COMPLETE_AT_CHECKPOINT means contained: whatever was consumed, created,
\* frozen or released since the snapshot, every live descendant at the
\* checkpoint is frozen or revoked.
CompleteMeansContained ==
  outcome = COMPLETE_AT_CHECKPOINT /\ Canonical(checkpoint) =>
    LiveDescendants(At(checkpoint).history, start) \subseteq Held(At(checkpoint))

\* NO_LIVE_TARGETS stays true: on any longer chain nothing came out of the
\* object that could still move.
NoTargetsEver ==
  outcome = NO_LIVE_TARGETS /\ Canonical(snap) =>
    LiveDescendants(Tip.history, start) = {}

\* The audit freezes nobody else: what it submits are live descendants at the
\* snapshot, nothing when the trace failed or found none.
FreezesOnlyTargets ==
  /\ outcome \in {TRACE_FAILED, NO_LIVE_TARGETS} => submitted = {}
  /\ Canonical(snap) =>
       submitted \subseteq LiveDescendants(At(snap).history, start)

\* A complete audit leaves no freeze transaction behind that could still be
\* mined after the report.
CompleteLeavesNothingPending ==
  outcome = COMPLETE_AT_CHECKPOINT => \A o \in submitted : MinedAt(o) # {}

Contained == LiveDescendants(Tip.history, start) \subseteq Held(Tip)

\* After a complete audit containment is lost only when an operator releases an
\* object: no ledger event can move or multiply what is frozen.
ContainedUntilReleased ==
  [][outcome = COMPLETE_AT_CHECKPOINT /\ Contained /\ ~Contained'
     => \E o \in Goods : Tip.status[o] = FROZEN /\ Tip'.status[o] = ACTIVE]_vars

\* An audit ends, whatever fails and however the chain grows.
AuditEnds == pc = "trace" ~> pc = "done"

\* A change of the block hash of the snapshot is refused: an audit is complete
\* only while the snapshot it traced is on the chain.
CompleteOnCanonicalSnapshot ==
  [][outcome' = COMPLETE_AT_CHECKPOINT /\ outcome # COMPLETE_AT_CHECKPOINT
     => Canonical(snap)]_vars
=============================================================================
