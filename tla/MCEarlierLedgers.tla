-------------------------- MODULE MCEarlierLedgers --------------------------
(***************************************************************************)
(* Small instances of the four ledgers.                                    *)
(*                                                                         *)
(*   epoch   two users trade and process lots of one unit                  *)
(*   status  one lot through all events, with two status updates           *)
(*   claim   one lot of one grade and two policies for it, up to four      *)
(*           records, two status changes                                   *)
(*   sahai   two participants, seven documents, two of them the same but   *)
(*           for their salts                                               *)
(***************************************************************************)
EXTENDS EarlierLedgers, TLC

CONSTANTS
  u1, u2, d1, a1, e1, e2, o1, o2, o3, g1, p1, p2, adm, s1, s2, item

OpeningNames == {o1, o2, o3}

MCStatusEntryNotes ==
  {[role |-> "ELIGIBLE", owner |-> u1, opening |-> o] : o \in OpeningNames}

MCAccepted == p1 :> {g1} @@ p2 :> {g1}
MCClaimEntryNotes ==
  {[grade |-> g1, owner |-> u1, opening |-> o] : o \in OpeningNames}
MCWatched ==
  MCClaimEntryNotes
    \cup {[grade |-> g1, sender |-> u1, receiver |-> u2, opening |-> o] :
            o \in OpeningNames}

\* Documents of two leaves: what a participant makes of a lot, keeps or ships.
Leaf(sender, recipient, quantity) ==
  [sender |-> sender, recipient |-> recipient, item |-> item, quantity |-> quantity]
Document(leaf1, leaf2, salts) == [leaves |-> <<leaf1, leaf2>>, salts |-> salts]

MCSahaiDocuments ==
  {Document(Leaf(u1, u1, 2), Leaf(u1, u1, 1), s) : s \in {s1, s2}}
    \cup {Document(Leaf(u1, u2, 2), Leaf(u1, u2, 1), s1),
          Document(Leaf(u2, u2, 1), Leaf(u2, u1, 0), s1),
          Document(Leaf(u2, u1, 1), Leaf(u2, u1, 1), s1),
          Document(Leaf(u1, u1, 2), Leaf(u2, u1, 2), s1),
          Document(Leaf(u2, u2, 2), Leaf(u2, u2, 2), s1)}

\* The epoch ledger enters lots of one unit; its first step registers the user,
\* which no other function asks for, and only epochs would follow its last
\* transaction, whose outcome is checked but not continued.
MCEntryNotes == {[doc |-> d1, q |-> 1, s |-> 1, owner |-> u1, opening |-> o] :
                   o \in Openings}
UsersFirst == users = Accounts \/ transactions = <<>>
MoreToCome == Len(transactions) < MaxTransactions

Symmetry == Permutations({e1, e2}) \cup Permutations(OpeningNames)
              \cup Permutations({p1, p2})
=============================================================================
