---------------------------- MODULE KeyCommittee ----------------------------
(***************************************************************************)
(* internal/core/auditcrypto: the audit key x of a committee of three,     *)
(* shared so that any two members recover it, and the two ways to decrypt  *)
(* a record: with the recovered key, or with two partial decryptions.      *)
(*                                                                         *)
(* Scalars are integers modulo Order.  The group has that prime order, so  *)
(* the point v * Generator is written v and the identity is 0.  Hashes are *)
(* collision-free: a checksum is the package, a mask the tuple it hashes,  *)
(* and a masked element the pair of message and mask.  0 stands for an     *)
(* error where a scalar or a point is returned, <<>> where a message is.   *)
(***************************************************************************)
EXTENDS Integers, Sequences, FiniteSets, SequencesExt

CONSTANTS
  Order,         \* order of the group
  Committees,    \* packages that can be set up
  SessionIds,
  Elements,      \* field elements that are encrypted
  Contexts,      \* contexts of the first version of the ciphertext
  MaxReleases    \* bound on released shares

ASSUME OrderAssumption ==
  Order \in Nat /\ Order > 3 /\ \A d \in 2..Order - 1 : Order % d # 0

\* What a wrong mask leaves is no element of a message.
ASSUME ElementsAssumption == "garbage" \notin Elements

VARIABLES
  secret,      \* committee -> x, known to nobody after the setup
  package,     \* committee -> its ExternalKeyPackage
  shares,      \* committee -> the three shares
  released,    \* ReleasedShares that reached the auditor
  recovered    \* [of, key]: keys the auditor recovered, and for which package

vars == <<secret, package, shares, released, recovered>>

Members == 1..3
Scalars == 1..Order - 1
NoKey   == 0
None    == [sessionId |-> "", publicKey |-> 0, publicShares |-> <<>>]

ScalarMultiplication(point, v) == (point * v) % Order
Generator       == 1
ValidPoint(p)   == p # 0
ValidScalar(v)  == v \in Scalars
ValidateShare(s) == s.id \in Members /\ ValidScalar(s.value)

ModInverse(d) == CHOOSE i \in Scalars : (d * i) % Order = 1

LagrangeCoefficient(id, other) ==
  ((-other) * ModInverse((id - other) % Order)) % Order

\* The value at 0 of the line through two points at the places of two members.
Interpolate(id1, v1, id2, v2) ==
  (LagrangeCoefficient(id1, id2) * v1 + LagrangeCoefficient(id2, id1) * v2) % Order

-----------------------------------------------------------------------------
(* Decryption by partial decryptions. *)

PartialDecrypt(share, r1) ==
  [id |-> share.id, point |-> ScalarMultiplication(r1, share.value)]

CombinePoints(p1, p2) ==
  IF /\ p1.id # p2.id
     /\ {p1.id, p2.id} \subseteq Members
     /\ ValidPoint(p1.point) /\ ValidPoint(p2.point)
  THEN Interpolate(p1.id, p1.point, p2.id, p2.point)
  ELSE 0

Masked(message, key) ==
  [j \in DOMAIN message |-> [element |-> message[j], mask |-> <<key, j>>]]

\* What comes out when the masks are taken off again; another mask leaves an
\* element that is no element of a message.
Unmasked(data, key) ==
  [j \in DOMAIN data |-> IF data[j].mask = <<key, j>> THEN data[j].element
                                                     ELSE "garbage"]

Encrypt(pk, context, message, r) ==
  [r1   |-> ScalarMultiplication(Generator, r),
   data |-> Masked(message, <<ScalarMultiplication(pk, r), context, Len(message)>>)]

\* Mutant: the key of the other kind of ciphertext.
CombineWithoutContext(context, ct, p1, p2) ==
  LET z == CombinePoints(p1, p2)
  IN  IF ct.data = <<>> \/ ~ValidPoint(ct.r1) \/ ~ValidPoint(z)
      THEN <<>>
      ELSE Unmasked(ct.data, <<z>>)

CombineAndDecrypt(context, ct, p1, p2) ==
  LET z == CombinePoints(p1, p2)
  IN  IF ct.data = <<>> \/ ~ValidPoint(ct.r1) \/ ~ValidPoint(z)
      THEN <<>>
      ELSE Unmasked(ct.data, <<z, context, Len(ct.data)>>)

-----------------------------------------------------------------------------
(* Decryption with the master key. *)

EncryptWithMasterPublicKey(pk, message, r) ==
  [r1   |-> ScalarMultiplication(Generator, r),
   data |-> Masked(message, <<ScalarMultiplication(pk, r)>>)]

DecryptWithMasterKey(master, ct) ==
  IF ~ValidScalar(master) \/ ct.data = <<>> \/ ~ValidPoint(ct.r1)
  THEN <<>>
  ELSE Unmasked(ct.data, <<ScalarMultiplication(ct.r1, master)>>)

\* Two shares of a package give its master key.
RecoverMasterKey(p, s1, s2) ==
  LET Matches(s) == /\ ValidateShare(s)
                    /\ ScalarMultiplication(Generator, s.value) = p.publicShares[s.id]
      key == Interpolate(s1.id, s1.value, s2.id, s2.value)
  IN  IF /\ p.sessionId # "" /\ ValidPoint(p.publicKey)
         /\ s1.id # s2.id /\ Matches(s1) /\ Matches(s2)
         /\ ValidScalar(key)
         /\ ScalarMultiplication(Generator, key) = p.publicKey
      THEN key
      ELSE NoKey

ReleasedFor(release, p) ==
  release.sessionId = p.sessionId /\ release.packageChecksum = p

RecoverReleased(p, r1, r2) ==
  IF /\ ReleasedFor(r1, p) /\ ReleasedFor(r2, p)
     /\ ValidateShare(r1.share) /\ ValidateShare(r2.share)
  THEN RecoverMasterKey(p, r1.share, r2.share)
  ELSE NoKey

-----------------------------------------------------------------------------
(* A committee is set up, members release shares, the auditor recovers. *)

Init ==
  /\ secret = [c \in Committees |-> NoKey]
  /\ package = [c \in Committees |-> None]
  /\ shares = [c \in Committees |-> <<>>]
  /\ released = {} /\ recovered = {}

\* Every two partial decryptions of the generator give the public key.
ValidateCommittee(pk, dealt) ==
  /\ ValidPoint(pk)
  /\ \A i \in Members : dealt[i].id = i /\ ValidateShare(dealt[i])
  /\ \A i, j \in Members :
       i < j => CombinePoints(PartialDecrypt(dealt[i], Generator),
                              PartialDecrypt(dealt[j], Generator)) = pk

\* The line x + a * i is dealt; a line with a zero share is drawn again.
TrustedSetup(c) ==
  /\ package[c] = None
  /\ \E x \in Scalars, a \in Scalars, id \in SessionIds :
       LET dealt == [i \in Members |-> [id |-> i, value |-> (a * i + x) % Order]]
           pk    == ScalarMultiplication(Generator, x)
       IN  /\ \A i \in Members : dealt[i].value # 0
           /\ id # "" /\ ValidateCommittee(pk, dealt)
           /\ secret' = [secret EXCEPT ![c] = x]
           /\ shares' = [shares EXCEPT ![c] = dealt]
           /\ package' = [package EXCEPT ![c] =
                [sessionId |-> id, publicKey |-> pk,
                 publicShares |-> [i \in Members |->
                   ScalarMultiplication(Generator, dealt[i].value)]]]
  /\ UNCHANGED <<released, recovered>>

\* A member answers a request about the package of c with a share he holds for
\* that committee, or by mistake with the one he holds for another.
Release(c, held, i) ==
  /\ package[c] # None /\ package[held] # None
  /\ Cardinality(released) < MaxReleases
  /\ released' = released \cup
       {[sessionId |-> package[c].sessionId, packageChecksum |-> package[c],
         share |-> shares[held][i]]}
  /\ UNCHANGED <<secret, package, shares, recovered>>

Cleared(release) == [release EXCEPT !.share.value = 0]

\* Mutant: recovery clears the shares it was given, not copies of them.
ReleasesClearedBy(r1, r2) == (released \ {r1, r2}) \cup {Cleared(r1), Cleared(r2)}

\* The released shares after a recovery: what it clears are its own copies.
ReleasesAfter(r1, r2) == released

Recover(c, r1, r2) ==
  LET key == RecoverReleased(package[c], r1, r2)
  IN  /\ package[c] # None
      /\ recovered' = IF key = NoKey THEN recovered
                      ELSE recovered \cup {[of |-> package[c], key |-> key]}
      /\ released' = ReleasesAfter(r1, r2)
      /\ UNCHANGED <<secret, package, shares>>

Next ==
  \/ \E c \in Committees : TrustedSetup(c)
  \/ \E c, held \in Committees, i \in Members : Release(c, held, i)
  \/ \E c \in Committees, r1, r2 \in released : Recover(c, r1, r2)

Spec == Init /\ [][Next]_vars

-----------------------------------------------------------------------------
SetUp == {c \in Committees : package[c] # None}

\* A share that was dealt to a member of the committee, released for it.
Genuine(c, r) == ReleasedFor(r, package[c]) /\ r.share \in ToSet(shares[c])

\* Two releases recover the key of a package when they hold the shares of two
\* of its members and were made for it, and then it is the key; one member
\* twice, a release for another package (of the same session name even) or a
\* share of another one give none.  Recovering does not use releases up: the
\* statement holds again after every recovery, successful or not.
RecoveryExact ==
  /\ \A c \in SetUp, r1, r2 \in released :
       RecoverReleased(package[c], r1, r2) =
         IF Genuine(c, r1) /\ Genuine(c, r2) /\ r1.share.id # r2.share.id
         THEN secret[c] ELSE NoKey
  /\ \A r \in released : r.share \in UNION {ToSet(shares[c]) : c \in SetUp}

Texts == {<<m>> : m \in Elements} \cup {<<m, n>> : m, n \in Elements}

\* Both kinds of ciphertext can be read, whatever randomness was drawn: one by
\* any two members, under its own context and no other; the other by a
\* recovered key of its package and of no package with another key.
RecordsReadable ==
  \A c \in SetUp, r \in Scalars, text \in Texts :
    LET pk == package[c].publicKey IN
    /\ \A i, j \in Members, used, given \in Contexts :
         LET ct == Encrypt(pk, used, text, r) IN
         i # j => (used = given <=>
                     text = CombineAndDecrypt(given, ct,
                              PartialDecrypt(shares[c][i], ct.r1),
                              PartialDecrypt(shares[c][j], ct.r1)))
    /\ \A k \in recovered :
         text = DecryptWithMasterKey(k.key, EncryptWithMasterPublicKey(pk, text, r))
           <=> k.of.publicKey = pk
=============================================================================
