-------------------------- MODULE SolidityMapping --------------------------
(***************************************************************************)
(* Solidity mappings.  A mapping is total and reads zero where nothing was *)
(* written; it is modelled by the finite function of the keys written so   *)
(* far, and At supplies the zero of the others.                            *)
(***************************************************************************)
EXTENDS Naturals

EmptyMapping == [k \in {} |-> 0]

\* m[k], zero when k was never written.
At(m, k) == IF k \in DOMAIN m THEN m[k] ELSE 0

\* m after the assignment m[k] = v for every key k of K.
Put(m, K, v) == [k \in DOMAIN m \cup K |-> IF k \in K THEN v ELSE m[k]]

\* m is a mapping from keys in K to values in V.
IsMapping(m, K, V) ==
  /\ m = [k \in DOMAIN m |-> m[k]]
  /\ DOMAIN m \subseteq K
  /\ \A k \in DOMAIN m : m[k] \in V
=============================================================================
