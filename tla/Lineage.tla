------------------------------- MODULE Lineage -------------------------------
(***************************************************************************)
(* A history of events, [inputs, outputs]: what it created and consumed,   *)
(* and what came out of an object.                                         *)
(***************************************************************************)
EXTENDS Naturals, Sequences

Created(history)  == UNION {history[i].outputs : i \in DOMAIN history}
Consumed(history) == UNION {history[i].inputs : i \in DOMAIN history}
LiveIn(history)   == Created(history) \ Consumed(history)

\* A history as a ledger records it: an event consumes what earlier events
\* created, and no object is created or consumed twice.
Causal(history) ==
  /\ \A i \in DOMAIN history : \A x \in history[i].inputs :
       \E j \in 1..i - 1 : x \in history[j].outputs
  /\ \A i, j \in DOMAIN history :
       i # j => /\ history[i].inputs \cap history[j].inputs = {}
                /\ history[i].outputs \cap history[j].outputs = {}

\* What is made of a member is a member.
Closed(history, set) ==
  \A i \in DOMAIN history :
    history[i].inputs \cap set # {} => history[i].outputs \subseteq set

\* What came out of an object, itself included: the least closed set with it.
Descendants(history, object) ==
  LET objects == Created(history) \cup {object} IN
    {x \in objects : \A set \in SUBSET objects :
                       object \in set /\ Closed(history, set) => x \in set}

\* The position of the event that was looked for, 0 when there is none.
Position(found) == IF found = {} THEN 0 ELSE CHOOSE i \in found : TRUE
=============================================================================
