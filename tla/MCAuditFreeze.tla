---------------------------- MODULE MCAuditFreeze ----------------------------
(***************************************************************************)
(* Audits of small histories: a lot that was split, a diamond that was     *)
(* split and merged again, a chain that ends in a claim and an exit.       *)
(***************************************************************************)
EXTENDS AuditFreeze

Event(inputs, outputs) == [inputs |-> inputs, outputs |-> outputs]

Lot     == << Event({}, {1}) >>
Split   == << Event({}, {1}), Event({1}, {2, 3}) >>
Diamond == << Event({}, {1}), Event({1}, {2, 3}), Event({2, 3}, {4}) >>
Ended   == << Event({}, {1}), Event({1}, {2, 3}), Event({2}, {MaxGoods + 1}),
              Event({3}, {}) >>

MCHistories == {Lot, Split, Diamond, Ended}
=============================================================================
