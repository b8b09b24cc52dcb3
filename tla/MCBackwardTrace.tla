--------------------------- MODULE MCBackwardTrace ---------------------------
(***************************************************************************)
(* Lineages with two entries: a lot that was split, of which one half was  *)
(* merged with another lot; and a lot whose halves met again in a claim.   *)
(***************************************************************************)
EXTENDS BackwardTrace

Event(inputs, outputs) == [inputs |-> inputs, outputs |-> outputs]

Blend   == << Event({}, {1}), Event({}, {2}), Event({1}, {3, 4}),
              Event({2, 3}, {5}) >>
Reunion == << Event({}, {1}), Event({1}, {2, 3}), Event({2, 3}, {4}),
              Event({4}, {MaxGoods + 1}) >>

MCHistories == {<<>>, Blend, Reunion}
=============================================================================
