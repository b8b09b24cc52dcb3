---------------------------- MODULE MCClaimAudit ----------------------------
(***************************************************************************)
(* Chains of a lot whose halves met again in a claim, of two lots of which *)
(* one was split, a part sold as it is, a part blended, and of a lot that  *)
(* was processed and claimed in a block a change of fork may replace.      *)
(***************************************************************************)
EXTENDS ClaimAudit

Event(inputs, outputs) == [inputs |-> inputs, outputs |-> outputs, issued |-> {}]
Claim(dpp) == [inputs |-> {}, outputs |-> {}, issued |-> {dpp}]

Passport == MaxGoods + 1

Reunion == << Event({}, {1}), Event({1}, {2, 3}), Event({2, 3}, {4}),
              Event({4}, {Passport}), Claim(Passport) >>
Blend   == << Event({}, {1}), Event({}, {2}), Event({1}, {3, 4}),
              Event({2, 3}, {5}), Event({5}, {Passport}) >>
Sale    == << Event({}, {1}), Event({1}, {2}), Event({2}, {Passport}), Claim(Passport) >>

MCStarts == {<< <<Event({}, {1})>>, Sale >>, <<Reunion>>, <<Blend>>}
=============================================================================
