------------------------------ MODULE AssetFlow ------------------------------
(***************************************************************************)
(* What the ledger promises, without proofs, nullifiers, trees or ids: a   *)
(* history of events, each consuming live objects that nobody blocked and  *)
(* creating objects that never existed; and a status authority that blocks *)
(* unconsumed objects, releases them, or blocks them for good.             *)
(***************************************************************************)
EXTENDS Lineage, SequencesExt

CONSTANTS
  Objects,     \* every object that can exist
  Spendable    \* those an event may consume; the others are terminal

VARIABLES
  events,      \* the recorded events, [inputs, outputs]
  blocked,     \* objects that are frozen or revoked, existing or not
  revoked      \* blocked for good

flowVars == <<events, blocked, revoked>>

\* Mutant: blocked objects can be consumed.
AcceptableWhenHeld(history, held, event) ==
  /\ event.inputs \subseteq LiveIn(history) \cap Spendable
  /\ event.outputs \subseteq Objects \ Created(history)

\* An event the ledger accepts after this history with these objects blocked.
Acceptable(history, held, event) ==
  /\ event.inputs \subseteq (LiveIn(history) \cap Spendable) \ held
  /\ event.outputs \subseteq Objects \ Created(history)

-----------------------------------------------------------------------------
Init ==
  /\ events = <<>>
  /\ blocked = {}
  /\ revoked = {}

Record(event) ==
  /\ Acceptable(events, blocked, event)
  /\ events' = Append(events, event)
  /\ UNCHANGED <<blocked, revoked>>

Block(object) ==
  /\ object \notin Consumed(events) \cup blocked
  /\ blocked' = blocked \cup {object}
  /\ UNCHANGED <<events, revoked>>

Release(object) ==
  /\ object \in blocked \ revoked
  /\ blocked' = blocked \ {object}
  /\ UNCHANGED <<events, revoked>>

Revoke(object) ==
  /\ object \in blocked \ revoked
  /\ revoked' = revoked \cup {object}
  /\ UNCHANGED <<events, blocked>>

\* What a step recorded, blocked, released or revoked is read off the step.
Next ==
  \/ events' # <<>> /\ Record(Last(events'))
  \/ \E object \in (blocked' \ blocked) \cap Spendable : Block(object)
  \/ \E object \in blocked \ blocked' : Release(object)
  \/ \E object \in revoked' \ revoked : Revoke(object)

Spec == Init /\ [][Next]_flowVars

-----------------------------------------------------------------------------
\* What a ledger that implements this promises of its objects: each is created
\* once, consumed at most once and after that, and never while it is blocked;
\* what was revoked stays blocked.
Sound ==
  /\ Causal(events)
  /\ blocked \cap Consumed(events) = {}
  /\ revoked \subseteq blocked

\* Nothing that was recorded or revoked is ever undone.
Lasting ==
  [][/\ \A i \in DOMAIN events : i \in DOMAIN events' /\ events'[i] = events[i]
     /\ revoked \subseteq revoked']_flowVars
=============================================================================
