--------------------------- MODULE V2LedgerProofs ---------------------------
(***************************************************************************)
(* The main ledger, for any users, lots, openings, policies and bounds: no *)
(* object is spent twice, produced twice, consumed before it exists or     *)
(* consumed while its spend value is frozen or revoked; and every          *)
(* transaction is one of AssetFlow.  The Policy registry, for any accounts,*)
(* scopes, verifiers and bounds: the ledger takes its policies from it.    *)
(***************************************************************************)
EXTENDS V2LedgerFlow, PolicyRegistry, FlowHistory

(***************************************************************************)
(* The Policy registry.                                                    *)
(***************************************************************************)

\* What the counters of the registry bound: every registered authority has a
\* policy counter, every policy a version counter, and what was handed out lies
\* below its counter.
CountersBound ==
  /\ DOMAIN nextPolicyId = DOMAIN policyAuthorities
  /\ DOMAIN nextPolicyVersion = DOMAIN policyFamilies
  /\ \A family \in DOMAIN policyFamilies :
       /\ family[1] \in DOMAIN policyAuthorities
       /\ family[2] < nextPolicyId[family[1]]
  /\ \A ref \in DOMAIN policyReservations :
       ref.version < nextPolicyVersion[<<ref.authority, ref.policy>>]

\* The inductive invariant: the invariants of the registry need each other and
\* the counters.
RegistryInv ==
  /\ RegistryTypeOK
  /\ AuthoritiesBijective
  /\ CountersBound
  /\ FamilyKindFixed
  /\ VersionsContiguous

-----------------------------------------------------------------------------
\* An assignment to one key keeps a mapping within its types.
LEMMA PutMapping ==
  ASSUME NEW m, NEW K, NEW V, IsMapping(m, K, V), NEW k \in K, NEW v \in V
  PROVE  IsMapping(Put(m, {k}, v), K, V)
BY DEF IsMapping, Put

\* n is m with the value v under key k.
Writes(m, k, v, n) ==
  /\ DOMAIN n = DOMAIN m \cup {k}
  /\ n[k] = v
  /\ \A x \in DOMAIN m : x # k => n[x] = m[x]

\* What an assignment to one key writes.
LEMMA PutWrites ==
  ASSUME NEW m, NEW k, NEW v
  PROVE  Writes(m, k, v, Put(m, {k}, v))
BY DEF Put, Writes

\* The sender of an accepted call is a registered authority.
LEMMA SenderIsAuthority ==
  ASSUME RegistryTypeOK, AuthoritiesBijective, NEW sender, IsAuthority(sender)
  PROVE  /\ sender \in DOMAIN authorityIdOf
         /\ authorityIdOf[sender] \in Nat \ {0}
         /\ authorityIdOf[sender] \in DOMAIN policyAuthorities
BY DEF RegistryTypeOK, AuthoritiesBijective, IsAuthority, At, IsMapping

\* A reservation of a well-formed reference is well-formed.
LEMMA ReservationType ==
  ASSUME NEW ref \in PolicyRefs
  PROVE  Reservation(ref) \in [authorityId : Nat \ {0}, policyId : Nat \ {0},
                               version : Nat \ {0}, eventKind : {PROCESS, ISSUE}]
BY DEF PolicyRefs, Reservation

-----------------------------------------------------------------------------
\* The empty registry satisfies the inductive invariant.
LEMMA InitInv == RegistryInit => RegistryInv
<1> SUFFICES ASSUME RegistryInit PROVE RegistryInv
  OBVIOUS
<1>1. RegistryTypeOK
  BY DEF RegistryInit, RegistryTypeOK, EmptyMapping, IsMapping
<1>2. AuthoritiesBijective
  BY DEF RegistryInit, AuthoritiesBijective, EmptyMapping
<1>3. CountersBound /\ FamilyKindFixed /\ VersionsContiguous
  BY DEF RegistryInit, CountersBound, FamilyKindFixed, VersionsContiguous,
         EmptyMapping
<1> QED
  BY <1>1, <1>2, <1>3 DEF RegistryInv

\* registerPolicyAuthority
LEMMA RegisterAuthorityInv ==
  ASSUME RegistryInv, NEW account \in Accounts, RegisterPolicyAuthority(account)
  PROVE  RegistryInv'
<1> USE DEF RegistryInv
<1>0. nextAuthorityId \in Nat \ {0} /\ nextAuthorityId \notin DOMAIN policyAuthorities
  BY DEF RegistryTypeOK, AuthoritiesBijective
<1>1. RegistryTypeOK'
  <2>1. IsMapping(authorityIdOf', Accounts, Nat \ {0})
    BY <1>0, PutMapping DEF RegistryTypeOK, RegisterPolicyAuthority
  <2>2. IsMapping(policyAuthorities', Nat \ {0}, [account : Accounts, enabled : {TRUE}])
    BY <1>0, PutMapping DEF RegistryTypeOK, RegisterPolicyAuthority
  <2>3. IsMapping(nextPolicyId', Nat \ {0}, Nat \ {0})
    BY <1>0, PutMapping DEF RegistryTypeOK, RegisterPolicyAuthority
  <2> QED
    BY <1>0, <2>1, <2>2, <2>3 DEF RegistryTypeOK, RegisterPolicyAuthority
<1>2. AuthoritiesBijective'
  <2>1. account \notin DOMAIN authorityIdOf
    <3>1. IsMapping(authorityIdOf, Accounts, Nat \ {0})
      BY DEF RegistryTypeOK
    <3>2. At(authorityIdOf, account) = 0
      BY DEF RegisterPolicyAuthority, Unregistered
    <3> QED
      BY <3>1, <3>2 DEF At, IsMapping
  <2>2. DOMAIN policyAuthorities' = 1..(nextAuthorityId' - 1)
    <3>1. DOMAIN policyAuthorities' = 1..(nextAuthorityId - 1) \cup {nextAuthorityId}
      BY DEF AuthoritiesBijective, RegisterPolicyAuthority, Put
    <3>2. nextAuthorityId' - 1 = nextAuthorityId
      BY <1>0 DEF RegisterPolicyAuthority
    <3> QED
      BY <1>0, <3>1, <3>2
  <2>3. \A id \in DOMAIN policyAuthorities' :
          /\ policyAuthorities'[id].account \in DOMAIN authorityIdOf'
          /\ authorityIdOf'[policyAuthorities'[id].account] = id
    BY <1>0, <2>1 DEF AuthoritiesBijective, RegisterPolicyAuthority, Put
  <2>4. \A a \in DOMAIN authorityIdOf' :
          /\ authorityIdOf'[a] \in DOMAIN policyAuthorities'
          /\ policyAuthorities'[authorityIdOf'[a]].account = a
    BY <1>0, <2>1 DEF AuthoritiesBijective, RegisterPolicyAuthority, Put
  <2> QED
    BY <2>2, <2>3, <2>4 DEF AuthoritiesBijective
<1>3. CountersBound'
  BY <1>0 DEF CountersBound, RegisterPolicyAuthority, Put
<1>4. FamilyKindFixed' /\ VersionsContiguous'
  BY DEF FamilyKindFixed, VersionsContiguous, RegisterPolicyAuthority
<1> QED
  BY <1>1, <1>2, <1>3, <1>4

\* reservePolicy
LEMMA ReservePolicyInv ==
  ASSUME RegistryInv, NEW sender \in Accounts, NEW kind \in {PROCESS, ISSUE},
         ReservePolicy(sender, kind)
  PROVE  RegistryInv'
<1> DEFINE a   == authorityIdOf[sender]
           p   == nextPolicyId[a]
           ref == PolicyRef(kind, a, p, 1)
<1> USE DEF RegistryInv
<1>0. /\ a \in Nat \ {0} /\ a \in DOMAIN policyAuthorities
      /\ a \in DOMAIN nextPolicyId /\ p \in Nat \ {0} /\ p = nextPolicyId[a]
  BY SenderIsAuthority DEF ReservePolicy, CountersBound, RegistryTypeOK, IsMapping
<1>1. <<a, p>> \notin DOMAIN policyFamilies
  BY <1>0 DEF CountersBound
<1>2. /\ ref \in PolicyRefs
      /\ ref.kind = kind /\ ref.authority = a /\ ref.policy = p /\ ref.version = 1
  BY <1>0 DEF PolicyRef, PolicyRefs
<1>3. /\ nextPolicyId' = Put(nextPolicyId, {a}, p + 1)
      /\ policyFamilies' = Put(policyFamilies, {<<a, p>>}, kind)
      /\ nextPolicyVersion' = Put(nextPolicyVersion, {<<a, p>>}, 2)
      /\ policyReservations' = Put(policyReservations, {ref}, Reservation(ref))
      /\ UNCHANGED <<nextAuthorityId, authorityIdOf, policyAuthorities,
                     policyRecords, policyGrants>>
  BY DEF ReservePolicy
<1> HIDE DEF a, p, ref
<1>4. /\ Writes(nextPolicyId, a, p + 1, nextPolicyId')
      /\ Writes(policyFamilies, <<a, p>>, kind, policyFamilies')
      /\ Writes(nextPolicyVersion, <<a, p>>, 2, nextPolicyVersion')
      /\ Writes(policyReservations, ref, Reservation(ref), policyReservations')
  BY <1>3, PutWrites
<1>5. RegistryTypeOK'
  <2>0. p + 1 \in Nat \ {0} /\ 2 \in Nat \ {0} /\ <<a, p>> \in (Nat \ {0}) \X (Nat \ {0})
    BY <1>0
  <2>1. IsMapping(nextPolicyId', Nat \ {0}, Nat \ {0})
    BY <1>0, <1>3, <2>0, PutMapping DEF RegistryTypeOK
  <2>2. IsMapping(policyFamilies', (Nat \ {0}) \X (Nat \ {0}), {PROCESS, ISSUE})
    BY <1>3, <2>0, PutMapping DEF RegistryTypeOK
  <2>3. IsMapping(nextPolicyVersion', (Nat \ {0}) \X (Nat \ {0}), Nat \ {0})
    BY <1>3, <2>0, PutMapping DEF RegistryTypeOK
  <2>4. IsMapping(policyReservations', PolicyRefs,
                  [authorityId : Nat \ {0}, policyId : Nat \ {0},
                   version : Nat \ {0}, eventKind : {PROCESS, ISSUE}])
    BY <1>2, <1>3, ReservationType, PutMapping DEF RegistryTypeOK
  <2> QED
    BY <1>3, <2>1, <2>2, <2>3, <2>4 DEF RegistryTypeOK
<1>6. AuthoritiesBijective'
  BY <1>3 DEF AuthoritiesBijective
<1>7. CountersBound'
  <2>1. /\ DOMAIN nextPolicyId' = DOMAIN policyAuthorities'
        /\ DOMAIN nextPolicyVersion' = DOMAIN policyFamilies'
    BY <1>0, <1>3, <1>4 DEF CountersBound, Writes
  <2>2. ASSUME NEW family \in DOMAIN policyFamilies'
        PROVE  /\ family[1] \in DOMAIN policyAuthorities'
               /\ family[2] < nextPolicyId'[family[1]]
    <3>1. CASE family = <<a, p>>
      BY <1>0, <1>3, <1>4, <3>1 DEF Writes
    <3>2. CASE family # <<a, p>>
      <4>1. family \in DOMAIN policyFamilies
        BY <1>4, <3>2 DEF Writes
      <4>2. family[1] \in DOMAIN policyAuthorities /\ family[2] < nextPolicyId[family[1]]
        BY <4>1 DEF CountersBound
      <4>3. family[2] \in Nat
        BY <4>1 DEF RegistryTypeOK, IsMapping
      <4>4. CASE family[1] = a
        <5>1. family[2] < p
          BY <1>0, <4>2, <4>4
        <5>2. nextPolicyId'[family[1]] = p + 1
          BY <1>4, <4>4 DEF Writes
        <5> QED
          BY <1>0, <1>3, <4>2, <4>3, <5>1, <5>2
      <4>5. CASE family[1] # a
        BY <1>3, <1>4, <4>2, <4>5 DEF Writes, CountersBound
      <4> QED
        BY <4>4, <4>5
    <3> QED
      BY <3>1, <3>2
  <2>3. ASSUME NEW r \in DOMAIN policyReservations'
        PROVE  r.version < nextPolicyVersion'[<<r.authority, r.policy>>]
    <3>1. CASE r = ref
      BY <1>2, <1>4, <3>1 DEF Writes
    <3>2. CASE r # ref
      <4>1. r \in DOMAIN policyReservations
        BY <1>4, <3>2 DEF Writes
      <4>2. <<r.authority, r.policy>> \in DOMAIN nextPolicyVersion
        BY <4>1 DEF FamilyKindFixed, CountersBound
      <4>3. nextPolicyVersion'[<<r.authority, r.policy>>]
              = nextPolicyVersion[<<r.authority, r.policy>>]
        BY <1>1, <1>4, <4>2 DEF Writes, CountersBound
      <4> QED
        BY <4>1, <4>3 DEF CountersBound
    <3> QED
      BY <3>1, <3>2
  <2> QED
    BY <2>1, <2>2, <2>3 DEF CountersBound
<1>8. FamilyKindFixed'
  <2>1. ASSUME NEW r \in DOMAIN policyReservations'
        PROVE  /\ policyReservations'[r] = Reservation(r)
               /\ <<r.authority, r.policy>> \in DOMAIN policyFamilies'
               /\ policyFamilies'[<<r.authority, r.policy>>] = r.kind
    <3>1. CASE r = ref
      BY <1>2, <1>4, <3>1 DEF Writes
    <3>2. CASE r # ref
      <4>1. r \in DOMAIN policyReservations /\ policyReservations'[r] = policyReservations[r]
        BY <1>4, <3>2 DEF Writes
      <4>2. /\ policyReservations[r] = Reservation(r)
            /\ <<r.authority, r.policy>> \in DOMAIN policyFamilies
            /\ policyFamilies[<<r.authority, r.policy>>] = r.kind
        BY <4>1 DEF FamilyKindFixed
      <4>3. <<r.authority, r.policy>> # <<a, p>>
        BY <1>1, <4>2
      <4> QED
        BY <1>4, <4>1, <4>2, <4>3 DEF Writes
    <3> QED
      BY <3>1, <3>2
  <2>2. DOMAIN policyReservations \subseteq DOMAIN policyReservations'
    BY <1>4 DEF Writes
  <2> QED
    BY <1>3, <2>1, <2>2 DEF FamilyKindFixed, Reservation
<1>9. VersionsContiguous'
  <2>1. \A v \in 1..(ref.version - 1) : FALSE
    BY <1>2
  <2>2. \A r \in DOMAIN policyReservations' : r = ref \/ r \in DOMAIN policyReservations
    BY <1>4 DEF Writes
  <2> QED
    BY <1>3, <2>1, <2>2 DEF VersionsContiguous
<1> QED
  BY <1>5, <1>6, <1>7, <1>8, <1>9

\* reservePolicyVersion
LEMMA ReservePolicyVersionInv ==
  ASSUME RegistryInv, NEW sender \in Accounts, NEW p \in 1..MaxPolicies,
         ReservePolicyVersion(sender, p)
  PROVE  RegistryInv'
<1> DEFINE a       == authorityIdOf[sender]
           family  == <<a, p>>
           version == nextPolicyVersion[family]
           kind    == policyFamilies[family]
           ref     == PolicyRef(kind, a, p, version)
<1> USE DEF RegistryInv
<1>0. /\ a \in Nat \ {0} /\ p \in Nat \ {0}
      /\ family \in DOMAIN policyFamilies /\ family \in DOMAIN nextPolicyVersion
      /\ version \in Nat \ {0}
      /\ kind \in {PROCESS, ISSUE}
  BY SenderIsAuthority, RegistryAssumption
     DEF ReservePolicyVersion, CountersBound, RegistryTypeOK, IsMapping
<1>1. /\ nextPolicyVersion' = Put(nextPolicyVersion, {family}, version + 1)
      /\ policyReservations' = Put(policyReservations, {ref}, Reservation(ref))
      /\ UNCHANGED <<nextAuthorityId, authorityIdOf, policyAuthorities,
                     nextPolicyId, policyFamilies, policyRecords, policyGrants>>
  BY DEF ReservePolicyVersion
<1>2. /\ ref \in PolicyRefs
      /\ ref.kind = kind /\ ref.authority = a /\ ref.policy = p
      /\ ref.version = version
  BY <1>0 DEF PolicyRef, PolicyRefs
<1>3. PolicyRef(kind, a, p, version - 1) \in DOMAIN policyRecords
  BY DEF PreviousIsRegistered, PreviousRef, ReservePolicyVersion
<1>4. <<a, p>> = family
  OBVIOUS
<1> HIDE DEF a, family, version, kind, ref
<1>5. /\ Writes(nextPolicyVersion, family, version + 1, nextPolicyVersion')
      /\ Writes(policyReservations, ref, Reservation(ref), policyReservations')
  BY <1>1, PutWrites
<1>6. RegistryTypeOK'
  <2>0. version + 1 \in Nat \ {0} /\ family \in (Nat \ {0}) \X (Nat \ {0})
    BY <1>0, <1>4
  <2>1. IsMapping(nextPolicyVersion', (Nat \ {0}) \X (Nat \ {0}), Nat \ {0})
    BY <1>1, <2>0, PutMapping DEF RegistryTypeOK
  <2>2. IsMapping(policyReservations', PolicyRefs,
                  [authorityId : Nat \ {0}, policyId : Nat \ {0},
                   version : Nat \ {0}, eventKind : {PROCESS, ISSUE}])
    BY <1>1, <1>2, ReservationType, PutMapping DEF RegistryTypeOK
  <2> QED
    BY <1>1, <2>1, <2>2 DEF RegistryTypeOK
<1>7. AuthoritiesBijective'
  BY <1>1 DEF AuthoritiesBijective
<1>8. CountersBound'
  <2>1. DOMAIN nextPolicyVersion' = DOMAIN policyFamilies'
    BY <1>0, <1>1, <1>5 DEF CountersBound, Writes
  <2>2. ASSUME NEW r \in DOMAIN policyReservations'
        PROVE  r.version < nextPolicyVersion'[<<r.authority, r.policy>>]
    <3>1. CASE r = ref
      BY <1>0, <1>2, <1>4, <1>5, <3>1 DEF Writes
    <3>2. CASE r # ref
      <4>1. r \in DOMAIN policyReservations
        BY <1>5, <3>2 DEF Writes
      <4>2. /\ r.version < nextPolicyVersion[<<r.authority, r.policy>>]
            /\ <<r.authority, r.policy>> \in DOMAIN nextPolicyVersion
        BY <4>1 DEF FamilyKindFixed, CountersBound
      <4>3. r.version \in Nat
        BY <4>1 DEF RegistryTypeOK, IsMapping, PolicyRefs
      <4>4. CASE <<r.authority, r.policy>> = family
        BY <1>0, <1>5, <4>2, <4>3, <4>4 DEF Writes, version
      <4>5. CASE <<r.authority, r.policy>> # family
        BY <1>5, <4>2, <4>5 DEF Writes
      <4> QED
        BY <4>4, <4>5
    <3> QED
      BY <3>1, <3>2
  <2> QED
    BY <1>1, <2>1, <2>2 DEF CountersBound
<1>9. FamilyKindFixed'
  <2>1. ASSUME NEW r \in DOMAIN policyReservations'
        PROVE  /\ policyReservations'[r] = Reservation(r)
               /\ <<r.authority, r.policy>> \in DOMAIN policyFamilies
               /\ policyFamilies[<<r.authority, r.policy>>] = r.kind
    <3>1. CASE r = ref
      BY <1>0, <1>2, <1>4, <1>5, <3>1 DEF Writes, kind
    <3>2. CASE r # ref
      BY <1>5, <3>2 DEF FamilyKindFixed, Writes
    <3> QED
      BY <3>1, <3>2
  <2>2. DOMAIN policyReservations \subseteq DOMAIN policyReservations'
    BY <1>5 DEF Writes
  <2> QED
    BY <1>1, <2>1, <2>2 DEF FamilyKindFixed, Reservation
<1>10. VersionsContiguous'
  <2> DEFINE previous == PolicyRef(kind, a, p, version - 1)
  <2>1. previous \in DOMAIN policyReservations
    BY <1>3 DEF FamilyKindFixed
  <2>2. /\ previous.kind = kind /\ previous.authority = a
        /\ previous.policy = p /\ previous.version = version - 1
    BY DEF PolicyRef
  <2> HIDE DEF previous
  <2>3. \A v \in 1..(version - 1 - 1) : PolicyRef(kind, a, p, v) \in DOMAIN policyRecords
    BY <2>1, <2>2 DEF VersionsContiguous
  <2>4. ASSUME NEW v \in 1..(version - 1)
        PROVE  PolicyRef(kind, a, p, v) \in DOMAIN policyRecords
    <3>1. v = version - 1 \/ v \in 1..(version - 1 - 1)
      BY <1>0
    <3> QED
      BY <1>3, <2>3, <3>1
  <2>5. \A r \in DOMAIN policyReservations' : r = ref \/ r \in DOMAIN policyReservations
    BY <1>5 DEF Writes
  <2> QED
    BY <1>1, <1>2, <2>4, <2>5 DEF VersionsContiguous
<1> QED
  BY <1>6, <1>7, <1>8, <1>9, <1>10

\* registerPolicy
LEMMA RegisterPolicyInv ==
  ASSUME RegistryInv, NEW sender \in Accounts, NEW ref \in DOMAIN policyReservations,
         NEW inputs \in 1..3, NEW outputs \in 1..2, NEW vkHash \in 0..1,
         NEW verifier \in Verifiers,
         RegisterPolicy(sender, ref, inputs, outputs, vkHash, verifier)
  PROVE  RegistryInv'
<1> DEFINE r      == policyReservations[ref]
           record == [authorityId |-> r.authorityId, policyId |-> r.policyId,
                      version |-> r.version, eventKind |-> r.eventKind,
                      inputArity |-> inputs, outputArity |-> outputs,
                      vkHash |-> vkHash, verifierRef |-> verifier, enabled |-> TRUE]
<1> USE DEF RegistryInv
<1>0. /\ ref \in PolicyRefs
      /\ r \in [authorityId : Nat \ {0}, policyId : Nat \ {0},
                version : Nat \ {0}, eventKind : {PROCESS, ISSUE}]
      /\ r = Reservation(ref)
  BY DEF RegistryTypeOK, IsMapping, FamilyKindFixed
<1>1. r.authorityId = ref.authority /\ r.eventKind = ref.kind
  BY <1>0 DEF Reservation
<1>2. ArityOK(r.eventKind, inputs, outputs) /\ vkHash # 0
  BY DEF RegisterPolicy
<1>3. /\ policyRecords' = Put(policyRecords, {ref}, record)
      /\ UNCHANGED <<nextAuthorityId, authorityIdOf, policyAuthorities,
                     nextPolicyId, nextPolicyVersion, policyFamilies,
                     policyReservations, policyGrants>>
  BY DEF RegisterPolicy
<1>4. record \in PolicyRecordType
  <2>1. inputs \in {1, 3} /\ outputs \in {1, 2} /\ vkHash \in Nat \ {0}
    BY <1>2 DEF ArityOK
  <2> QED
    BY <1>0, <2>1 DEF PolicyRecordType
<1>5. /\ record.authorityId = ref.authority /\ record.eventKind = ref.kind
      /\ ArityOK(ref.kind, record.inputArity, record.outputArity)
  BY <1>1, <1>2
<1> HIDE DEF r, record
<1>6. Writes(policyRecords, ref, record, policyRecords')
  BY <1>3, PutWrites
<1>7. RegistryTypeOK'
  <2>1. IsMapping(policyRecords', PolicyRefs, PolicyRecordType)
    BY <1>0, <1>3, <1>4, PutMapping DEF RegistryTypeOK
  <2> QED
    BY <1>3, <2>1 DEF RegistryTypeOK
<1>8. AuthoritiesBijective' /\ CountersBound'
  BY <1>3 DEF AuthoritiesBijective, CountersBound
<1>9. DOMAIN policyRecords \subseteq DOMAIN policyRecords'
  BY <1>6 DEF Writes
<1>10. FamilyKindFixed'
  <2>1. ASSUME NEW x \in DOMAIN policyRecords'
        PROVE  /\ x \in DOMAIN policyReservations
               /\ policyRecords'[x].authorityId = x.authority
               /\ policyRecords'[x].eventKind = x.kind
               /\ ArityOK(x.kind, policyRecords'[x].inputArity,
                          policyRecords'[x].outputArity)
    <3>1. CASE x = ref
      BY <1>5, <1>6, <3>1 DEF Writes
    <3>2. CASE x # ref
      <4>1. x \in DOMAIN policyRecords /\ policyRecords'[x] = policyRecords[x]
        BY <1>6, <3>2 DEF Writes
      <4> QED
        BY <4>1 DEF FamilyKindFixed
    <3> QED
      BY <3>1, <3>2
  <2> QED
    BY <1>3, <1>9, <2>1 DEF FamilyKindFixed
<1>11. VersionsContiguous'
  BY <1>3, <1>9 DEF VersionsContiguous
<1> QED
  BY <1>7, <1>8, <1>10, <1>11

\* setPolicyGrant
LEMMA SetPolicyGrantInv ==
  ASSUME RegistryInv, NEW sender \in Accounts, NEW ref \in DOMAIN policyRecords,
         NEW scope \in Scopes, NEW allowed \in BOOLEAN,
         SetPolicyGrant(sender, ref, scope, allowed)
  PROVE  RegistryInv'
<1> USE DEF RegistryInv
<1>1. /\ policyGrants' \subseteq policyGrants \cup {<<ref, scope>>}
      /\ policyRecords[ref].eventKind = PROCESS
      /\ UNCHANGED <<nextAuthorityId, authorityIdOf, policyAuthorities,
                     nextPolicyId, nextPolicyVersion, policyFamilies,
                     policyReservations, policyRecords>>
  BY DEF SetPolicyGrant, Grantable
<1>2. ref \in PolicyRefs /\ ref.kind = PROCESS
  BY <1>1 DEF RegistryTypeOK, IsMapping, FamilyKindFixed
<1>3. RegistryTypeOK'
  BY <1>1, <1>2 DEF RegistryTypeOK
<1>4. AuthoritiesBijective' /\ CountersBound' /\ VersionsContiguous'
  BY <1>1 DEF AuthoritiesBijective, CountersBound, VersionsContiguous
<1>5. FamilyKindFixed'
  <2>1. ASSUME NEW grant \in policyGrants'
        PROVE  grant[1] \in DOMAIN policyRecords /\ grant[1].kind = PROCESS
    <3>1. CASE grant = <<ref, scope>>
      BY <1>2, <3>1
    <3>2. CASE grant \in policyGrants
      BY <3>2 DEF FamilyKindFixed
    <3> QED
      BY <1>1, <3>1, <3>2
  <2> QED
    BY <1>1, <2>1 DEF FamilyKindFixed
<1> QED
  BY <1>3, <1>4, <1>5

\* disablePolicy
LEMMA DisablePolicyInv ==
  ASSUME RegistryInv, NEW sender \in Accounts, NEW ref \in DOMAIN policyRecords,
         DisablePolicy(sender, ref)
  PROVE  RegistryInv'
<1> USE DEF RegistryInv
<1>1. /\ policyRecords' = [policyRecords EXCEPT ![ref].enabled = FALSE]
      /\ UNCHANGED <<nextAuthorityId, authorityIdOf, policyAuthorities,
                     nextPolicyId, nextPolicyVersion, policyFamilies,
                     policyReservations, policyGrants>>
  BY DEF DisablePolicy
<1>2. DOMAIN policyRecords' = DOMAIN policyRecords
  BY <1>1
<1>3. \A x \in DOMAIN policyRecords :
        policyRecords[x] \in PolicyRecordType /\ x \in PolicyRefs
  BY DEF RegistryTypeOK, IsMapping
<1>4. ASSUME NEW x \in DOMAIN policyRecords
      PROVE  /\ policyRecords'[x] \in PolicyRecordType
             /\ policyRecords'[x].authorityId = policyRecords[x].authorityId
             /\ policyRecords'[x].eventKind = policyRecords[x].eventKind
             /\ policyRecords'[x].inputArity = policyRecords[x].inputArity
             /\ policyRecords'[x].outputArity = policyRecords[x].outputArity
  BY <1>1, <1>3 DEF PolicyRecordType
<1>5. RegistryTypeOK'
  <2>1. IsMapping(policyRecords', PolicyRefs, PolicyRecordType)
    BY <1>1, <1>2, <1>3, <1>4 DEF IsMapping
  <2> QED
    BY <1>1, <2>1 DEF RegistryTypeOK
<1>6. AuthoritiesBijective' /\ CountersBound'
  BY <1>1 DEF AuthoritiesBijective, CountersBound
<1>7. VersionsContiguous'
  BY <1>1, <1>2 DEF VersionsContiguous
<1>8. FamilyKindFixed'
  <2>1. ASSUME NEW x \in DOMAIN policyRecords'
        PROVE  /\ x \in DOMAIN policyReservations
               /\ policyRecords'[x].authorityId = x.authority
               /\ policyRecords'[x].eventKind = x.kind
               /\ ArityOK(x.kind, policyRecords'[x].inputArity,
                          policyRecords'[x].outputArity)
    BY <1>2, <1>4 DEF FamilyKindFixed
  <2> QED
    BY <1>1, <1>2, <2>1 DEF FamilyKindFixed
<1> QED
  BY <1>5, <1>6, <1>7, <1>8

-----------------------------------------------------------------------------
\* Every step of the registry keeps the inductive invariant.
LEMMA NextInv == RegistryInv /\ [RegistryNext]_registryVars => RegistryInv'
<1> SUFFICES ASSUME RegistryInv, [RegistryNext]_registryVars PROVE RegistryInv'
  OBVIOUS
<1>1. CASE \E account \in Accounts : RegisterPolicyAuthority(account)
  BY <1>1, RegisterAuthorityInv
<1>2. CASE \E sender \in Accounts, kind \in {PROCESS, ISSUE} : ReservePolicy(sender, kind)
  BY <1>2, ReservePolicyInv
<1>3. CASE \E sender \in Accounts, p \in 1..MaxPolicies : ReservePolicyVersion(sender, p)
  BY <1>3, ReservePolicyVersionInv
<1>4. CASE \E sender \in Accounts, ref \in DOMAIN policyReservations,
              inputs \in 1..3, outputs \in 1..2, vkHash \in 0..1, verifier \in Verifiers :
             RegisterPolicy(sender, ref, inputs, outputs, vkHash, verifier)
  BY <1>4, RegisterPolicyInv
<1>5. CASE \E sender \in Accounts, ref \in DOMAIN policyRecords,
              scope \in Scopes, allowed \in BOOLEAN :
             SetPolicyGrant(sender, ref, scope, allowed)
  BY <1>5, SetPolicyGrantInv
<1>6. CASE \E sender \in Accounts, ref \in DOMAIN policyRecords : DisablePolicy(sender, ref)
  BY <1>6, DisablePolicyInv
<1>7. CASE UNCHANGED registryVars
  BY <1>7 DEF registryVars, RegistryInv, RegistryTypeOK, AuthoritiesBijective,
     CountersBound, FamilyKindFixed, VersionsContiguous
<1> QED
  BY <1>1, <1>2, <1>3, <1>4, <1>5, <1>6, <1>7 DEF RegistryNext

\* The inductive invariant holds in every reachable state of the registry.
THEOREM RegistryInvariant == RegistrySpec => []RegistryInv
<1> QED
  BY InitInv, NextInv, PTL DEF RegistrySpec

\* Every mapping of the registry keeps its declared type.
THEOREM RegistryTypes == RegistrySpec => []RegistryTypeOK
<1>1. RegistryInv => RegistryTypeOK
  BY DEF RegistryInv
<1> QED
  BY <1>1, RegistryInvariant, PTL

\* Accounts and authority ids determine each other, and ids are dense.
THEOREM RegistryAuthorities == RegistrySpec => []AuthoritiesBijective
<1>1. RegistryInv => AuthoritiesBijective
  BY DEF RegistryInv
<1> QED
  BY <1>1, RegistryInvariant, PTL

\* The registered versions of a policy have no hole below a reserved one,
\* although reservePolicyVersion looks at the previous version only.
THEOREM RegistryVersions == RegistrySpec => []VersionsContiguous
<1>1. RegistryInv => VersionsContiguous
  BY DEF RegistryInv
<1> QED
  BY <1>1, RegistryInvariant, PTL

\* A policy keeps one kind in its reservations, its records and its grants.
THEOREM RegistryKinds == RegistrySpec => []FamilyKindFixed
<1>1. RegistryInv => FamilyKindFixed
  BY DEF RegistryInv
<1> QED
  BY <1>1, RegistryInvariant, PTL

\* The only change a registered policy ever sees is being disabled.
THEOREM RegistryDisabledForever == RegistrySpec => DisabledForever
<1> DEFINE OnlyDisabled ==
      \A ref \in DOMAIN policyRecords :
        /\ ref \in DOMAIN policyRecords'
        /\ policyRecords'[ref] \in
             {policyRecords[ref], [policyRecords[ref] EXCEPT !.enabled = FALSE]}
<1>1. RegistryInv /\ [RegistryNext]_registryVars => [OnlyDisabled]_registryVars
  <2> SUFFICES ASSUME RegistryNext PROVE OnlyDisabled
    BY DEF registryVars
  <2>1. ASSUME NEW sender, NEW ref, NEW inputs, NEW outputs, NEW vkHash, NEW verifier,
               RegisterPolicy(sender, ref, inputs, outputs, vkHash, verifier)
        PROVE  OnlyDisabled
    BY <2>1 DEF RegisterPolicy, Registrable, Put
  <2>2. ASSUME NEW sender, NEW ref, DisablePolicy(sender, ref)
        PROVE  OnlyDisabled
    BY <2>2 DEF DisablePolicy
  <2>3. CASE UNCHANGED policyRecords
    BY <2>3
  <2> QED
    BY <2>1, <2>2, <2>3 DEF RegistryNext, RegisterPolicyAuthority, ReservePolicy,
       ReservePolicyVersion, SetPolicyGrant
<1> QED
  BY <1>1, RegistryInvariant, PTL DEF RegistrySpec, DisabledForever

-----------------------------------------------------------------------------
(***************************************************************************)
(* The main ledger.                                                        *)
(***************************************************************************)

\* What ties the history to the counter of records and to the claims.
HistoryOK ==
  /\ nextAuditRecordId \in Nat \ {0}
  /\ DOMAIN auditRecords = RecordIds
  /\ {ref \in DOMAIN producerOf : ref.objectType = CLAIM}
       = {Ref(CLAIM, h) : h \in claimRegistered}

\* The inductive invariant.
LedgerInv ==
  /\ MappingsTypeOK
  /\ HistoryOK
  /\ BlockedIsUnspent
  /\ ConsumedOnce
  /\ ProducedOnce
  /\ Acyclic

\* The typed parents of an event.
Consumes(kind, parents) == {Ref(ParentType(kind), parents[i]) : i \in DOMAIN parents}

\* What every event establishes before it is recorded: its parents exist, it
\* spends their spend values, which are active, and its outputs are typed.
EventOK(kind, spends, parents, outputs) ==
  /\ Consumes(kind, parents) \subseteq Objects
  /\ spends = {SpendValue(ref) : ref \in Consumes(kind, parents)}
  /\ \A s \in spends : Active(ParentType(kind), s)
  /\ Range(outputs) \subseteq Refs /\ DOMAIN outputs \subseteq {1, 2}

\* An event uses no policy or one that is registered and enabled.
PolicyInUse(ref) ==
  ref = NoPolicy \/ (ref \in DOMAIN policyRecords /\ policyRecords[ref].enabled)

\* The future spend values open the outputs, position by position.
Opened(outputs, futureNfs) ==
  LET spendable == {i \in DOMAIN outputs : outputs[i].objectType # CLAIM}
  IN  /\ DOMAIN futureNfs = spendable
      /\ \A i \in spendable : futureNfs[i] = SpendValue(outputs[i])

\* A claim is made from one note of its document that meets the thresholds of its
\* policy, under that policy.
Backed(kind, parents, outputs, policyRef, h) ==
  /\ kind = ISSUE
  /\ outputs = <<Ref(CLAIM, h)>>
  /\ policyRef = h.policy
  /\ \E n \in commitments : /\ parents = <<n>>
                            /\ n.doc = h.doc
                            /\ MeetsThresholds(n.state, h.policy.version)

\* A policy a claim can be issued under.
IssuePolicy(ref) ==
  /\ ref \in DOMAIN policyRecords
  /\ policyRecords[ref].eventKind = ISSUE
  /\ policyRecords[ref].inputArity = 1
  /\ policyRecords[ref].outputArity = 1

\* What the circuits prove of an event beyond its types: waste leaves by Exit
\* only, the auditor can follow its outputs, and its claims are backed.
EventSound(kind, parents, outputs, futureNfs, policyRef) ==
  /\ \A i \in DOMAIN parents : parents[i].role = WASTE => kind = EXIT
  /\ Opened(outputs, futureNfs)
  /\ \A h : Ref(CLAIM, h) \in Range(outputs) =>
       Backed(kind, parents, outputs, policyRef, h) /\ IssuePolicy(h.policy)

\* Notes and vouchers, and the quantities of their states.
Spendables == {ref \in Refs : ref.objectType # CLAIM}
Fields     == {"q", "a", "e"}
Quantity(field) == [ref \in Spendables |-> ref.rawId.state[field]]

\* Entry brings in, Exit and Issue take out; the other events keep the mass but
\* for the losses of Process, and the recycled mass, and lose no emissions.
Balanced(kind, parents, outputs) ==
  LET ins  == Consumes(kind, parents)
      outs == Range(outputs) \cap Spendables
  IN  /\ kind = ENTRY => ins = {} /\ outs = Range(outputs)
      /\ kind \in {EXIT, ISSUE} => outs = {}
      /\ kind \notin {ENTRY, EXIT, ISSUE} =>
           /\ Total("q", outs) + (IF kind = PROCESS THEN Losses(ins) ELSE 0)
                = Total("q", ins)
           /\ Total("a", outs) = Total("a", ins)
           /\ Total("e", outs) >= Total("e", ins)

\* An event is recorded and nothing else changes but, by Issue, the claims.
Recorded(kind, spends, parents, outputs, futureNfs, policyRef) ==
  /\ EventOK(kind, spends, parents, outputs)
  /\ RecordPolicy(kind, spends, parents, outputs, futureNfs, policyRef)
  /\ claimRegistered' = claimRegistered \cup IdSet(CLAIM, outputs)
  /\ PolicyInUse(policyRef)
  /\ EventSound(kind, parents, outputs, futureNfs, policyRef)
  /\ Balanced(kind, parents, outputs)
  /\ UNCHANGED <<blockNumber, entryIssuers, noteStatusByNf, voucherStatusByNf,
                 policyRecords>>

\* A step that records some event.
RecordsEvent ==
  \E kind, spends, parents, outputs, futureNfs, policyRef :
    Recorded(kind, spends, parents, outputs, futureNfs, policyRef)

\* A step that changes the status of a spend value, of an object or of a note
\* that may come.
SetsStatus ==
  \/ \E n \in Notes, new \in Statuses : SetStatus(NOTE, Nullifier(n), new)
  \/ \E v \in Vouchers, new \in Statuses : SetStatus(VOUCHER, VoucherNullifier(v), new)

\* A step that leaves objects, records and statuses alone.
Elsewhere ==
  /\ UNCHANGED <<noteTree, voucherTree, commitments, voucherCommitments, producerOf,
                 noteSpentIn, voucherSpentIn, noteStatusByNf, voucherStatusByNf,
                 claimRegistered, nextAuditRecordId, auditRecords>>
  /\ blockNumber' \in Nat
  /\ entryIssuers' \subseteq Issuers

-----------------------------------------------------------------------------
\* Reading a mapping after an assignment to the keys of a set.
LEMMA AtPut ==
  ASSUME NEW m, NEW K, NEW v, NEW k
  PROVE  At(Put(m, K, v), k) = IF k \in K THEN v ELSE At(m, k)
BY DEF At, Put

\* An assignment to typed keys keeps a mapping within its types.
LEMMA PutsMapping ==
  ASSUME NEW m, NEW S, NEW T, IsMapping(m, S, T),
         NEW K, K \subseteq S, NEW v, v \in T
  PROVE  IsMapping(Put(m, K, v), S, T)
BY DEF IsMapping, Put

\* The types of objects differ.
LEMMA TypesDiffer ==
  /\ NOTE # VOUCHER /\ NOTE # CLAIM /\ VOUCHER # CLAIM
  /\ \A kind : ParentType(kind) \in {NOTE, VOUCHER}
BY DEF NOTE, VOUCHER, CLAIM, ParentType

\* A reference is its type and its id.
LEMMA RefFields ==
  ASSUME NEW type, NEW id
  PROVE  Ref(type, id).objectType = type /\ Ref(type, id).rawId = id
BY DEF Ref

\* What a reference of an object is.
LEMMA RefsTyped ==
  ASSUME NEW ref \in Refs
  PROVE  /\ ref.objectType \in {NOTE, VOUCHER, CLAIM}
         /\ ref = Ref(ref.objectType, ref.rawId)
         /\ ref.objectType = NOTE => ref.rawId \in Notes
         /\ ref.objectType = VOUCHER => ref.rawId \in Vouchers
         /\ ref.objectType = CLAIM => ref.rawId \in Claims
BY RefFields, TypesDiffer DEF Refs

\* The references of notes, vouchers and claims.
LEMMA RefsOf ==
  /\ \A n \in Notes : Ref(NOTE, n) \in Refs /\ Ref(NOTE, n).objectType # CLAIM
  /\ \A v \in Vouchers : Ref(VOUCHER, v) \in Refs /\ Ref(VOUCHER, v).objectType # CLAIM
  /\ \A h \in Claims : Ref(CLAIM, h) \in Refs
BY RefFields, TypesDiffer DEF Refs

\* The next record id is new, and the ids in use grow by it.
LEMMA NextRecordId ==
  ASSUME HistoryOK, nextAuditRecordId' = nextAuditRecordId + 1
  PROVE  /\ nextAuditRecordId \notin RecordIds
         /\ RecordIds' = RecordIds \cup {nextAuditRecordId}
         /\ \A aid \in RecordIds : aid < nextAuditRecordId /\ aid # 0
BY DEF HistoryOK, RecordIds

-----------------------------------------------------------------------------
\* Quantities are natural numbers.
LEMMA QuantityType ==
  ASSUME NEW field \in Fields, NEW ref \in Spendables
  PROVE  /\ Quantity(field)[ref] \in Nat
         /\ Quantity(field)[ref] = ref.rawId.state[field]
<1>1. ref.rawId \in Notes \/ ref.rawId \in Vouchers
  BY RefsTyped DEF Spendables
<1>2. ref.rawId.state \in State
  BY <1>1 DEF Notes, Vouchers, StateAndRoleOK
<1>3. ref.rawId.state[field] \in Amount
  BY <1>2 DEF State, Fields
<1> QED
  BY <1>3, AllocationAssumption DEF Quantity, Amount

\* A total is the sum of the quantity over the objects.
LEMMA TotalIsSum ==
  ASSUME NEW field \in Fields, NEW S \in SUBSET Spendables, IsFiniteSet(S)
  PROVE  /\ Total(field, S) = SumFunctionOnSet(Quantity(field), S)
         /\ Total(field, S) \in Int
<1> DEFINE fun == [ref \in S |-> ref.rawId.state[field]]
<1>1. \A ref \in S : Quantity(field)[ref] \in Int /\ Quantity(field)[ref] = fun[ref]
  BY QuantityType
<1>2. Total(field, S) = SumFunctionOnSet(fun, S)
  BY DEF Total, SumFunction
<1> HIDE DEF fun
<1> QED
  BY <1>1, <1>2, SumSame, SumRemove

LEMMA TotalOfNone ==
  \A field \in Fields : Total(field, {}) = 0
<1>1. {} \in SUBSET Spendables /\ IsFiniteSet({})
  BY FS_EmptySet
<1> QED
  BY <1>1, TotalIsSum, SumOfNone

\* The total of objects and others is the sum of their totals.
LEMMA TotalOfUnion ==
  ASSUME NEW field \in Fields, NEW S \in SUBSET Spendables, NEW T \in SUBSET Spendables,
         IsFiniteSet(S), IsFiniteSet(T), S \cap T = {}
  PROVE  /\ Total(field, S) \in Int /\ Total(field, T) \in Int
         /\ Total(field, S \cup T) = Total(field, S) + Total(field, T)
<1>1. S \cup T \in SUBSET Spendables /\ IsFiniteSet(S \cup T)
  BY FS_Union
<1>2. \A x \in S \cup T : Quantity(field)[x] \in Int
  BY QuantityType
<1> QED
  BY <1>1, <1>2, TotalIsSum, SumUnion

\* The total of one, two or three objects.
LEMMA TotalOfFew ==
  ASSUME NEW field \in Fields
  PROVE  /\ \A x \in Spendables :
              /\ Total(field, {x}) = x.rawId.state[field]
              /\ x.rawId.state[field] \in Nat
         /\ \A x, y \in Spendables : x # y =>
              Total(field, {x, y}) = x.rawId.state[field] + y.rawId.state[field]
         /\ \A x, y, z \in Spendables : x # y /\ x # z /\ y # z =>
              Total(field, {x, y, z})
                = (x.rawId.state[field] + y.rawId.state[field]) + z.rawId.state[field]
<1>1. ASSUME NEW x \in Spendables
      PROVE  Total(field, {x}) = x.rawId.state[field] /\ x.rawId.state[field] \in Nat
  <2>1. {x} \in SUBSET Spendables /\ IsFiniteSet({x})
    BY FS_Singleton
  <2>2. Quantity(field)[x] = x.rawId.state[field] /\ Quantity(field)[x] \in Nat
        /\ Quantity(field)[x] \in Int
    BY QuantityType
  <2>3. SumFunctionOnSet(Quantity(field), {x}) = Quantity(field)[x]
    BY <2>2, SumOfOne, Zenon
  <2>4. Total(field, {x}) = SumFunctionOnSet(Quantity(field), {x})
    BY <2>1, TotalIsSum
  <2> QED
    BY <2>2, <2>3, <2>4
<1>2. ASSUME NEW x \in Spendables, NEW y \in Spendables, x # y
      PROVE  Total(field, {x, y}) = x.rawId.state[field] + y.rawId.state[field]
  <2>1. /\ {x} \in SUBSET Spendables /\ IsFiniteSet({x})
        /\ {y} \in SUBSET Spendables /\ IsFiniteSet({y})
        /\ {x} \cap {y} = {} /\ {x} \cup {y} = {x, y}
    BY <1>2, FS_Singleton
  <2>2. Total(field, {x} \cup {y}) = Total(field, {x}) + Total(field, {y})
    BY <2>1, TotalOfUnion
  <2> QED
    BY <1>1, <2>1, <2>2
<1>3. ASSUME NEW x \in Spendables, NEW y \in Spendables, NEW z \in Spendables,
             x # y, x # z, y # z
      PROVE  Total(field, {x, y, z})
               = (x.rawId.state[field] + y.rawId.state[field]) + z.rawId.state[field]
  <2>1. /\ {x, y} \in SUBSET Spendables /\ IsFiniteSet({x, y})
        /\ {z} \in SUBSET Spendables /\ IsFiniteSet({z})
        /\ {x, y} \cap {z} = {} /\ {x, y} \cup {z} = {x, y, z}
    <3>1. IsFiniteSet({x, y})
      <4>1. {x, y} = {x} \cup {y} /\ IsFiniteSet({x})
        BY FS_Singleton
      <4> QED
        BY <4>1, FS_AddElement
    <3> QED
      BY <1>3, <3>1, FS_Singleton
  <2>2. Total(field, {x, y} \cup {z}) = Total(field, {x, y}) + Total(field, {z})
    BY <2>1, TotalOfUnion
  <2> QED
    BY <1>1, <1>2, <1>3, <2>1, <2>2
<1> QED
  BY <1>1, <1>2, <1>3

\* The floor of a share is an integer, and not negative when its parts are not.
LEMMA MulDivType ==
  /\ \A v, n \in Int : \A d \in Nat \ {0} : MulDiv(v, n, d) \in Int
  /\ \A v, n \in Nat : \A d \in Nat \ {0} : MulDiv(v, n, d) \in Nat
<1>1. \A m \in Int : \A d \in Nat \ {0} : m \div d \in Int
  OBVIOUS
<1>2. \A m \in Nat : \A d \in Nat \ {0} : m \div d \in Nat
  OBVIOUS
<1>3. ASSUME NEW v \in Int, NEW n \in Int, NEW d \in Nat \ {0}
      PROVE  MulDiv(v, n, d) \in Int
  <2>1. v * n \in Int
    OBVIOUS
  <2> QED
    BY <1>1, <2>1 DEF MulDiv
<1>4. ASSUME NEW v \in Nat, NEW n \in Nat, NEW d \in Nat \ {0}
      PROVE  MulDiv(v, n, d) \in Nat
  <2>1. v * n \in Nat
    OBVIOUS
  <2> QED
    BY <1>2, <2>1 DEF MulDiv
<1> QED
  BY <1>3, <1>4

-----------------------------------------------------------------------------
\* The empty history satisfies the inductive invariant.
LEMMA InitLedgerInv == Init => LedgerInv
<1> SUFFICES ASSUME Init PROVE LedgerInv
  OBVIOUS
<1>1. RecordIds = {}
  BY DEF Init, RecordIds
<1>2. HistoryOK
  BY <1>1 DEF Init, HistoryOK, EmptyMapping
<1>3. BlockedIsUnspent /\ ConsumedOnce /\ Acyclic
  BY <1>1 DEF Init, BlockedIsUnspent, ConsumedOnce, Acyclic, EmptyMapping
<1>4. ProducedOnce
  BY <1>1 DEF Init, ProducedOnce, Objects, EmptyMapping
<1>5. MappingsTypeOK
  BY <1>1 DEF Init, MappingsTypeOK, IsMapping, EmptyMapping
<1> QED
  BY <1>2, <1>3, <1>4, <1>5 DEF LedgerInv

\* Recording an event keeps frozen and revoked spend values unspent.
LEMMA RecordedBlocked ==
  ASSUME LedgerInv, NEW kind, NEW spends, NEW parents, NEW outputs, NEW futureNfs,
         NEW policyRef, Recorded(kind, spends, parents, outputs, futureNfs, policyRef)
  PROVE  BlockedIsUnspent'
<1> DEFINE aid == nextAuditRecordId
<1>1. /\ noteSpentIn' \in {noteSpentIn, Put(noteSpentIn, spends, aid)}
      /\ voucherSpentIn' \in {voucherSpentIn, Put(voucherSpentIn, spends, aid)}
      /\ UNCHANGED <<noteStatusByNf, voucherStatusByNf>>
  BY DEF Recorded, RecordPolicy
<1>2. ParentType(kind) = VOUCHER => noteSpentIn' = noteSpentIn
  BY DEF Recorded, RecordPolicy
<1>3. ParentType(kind) = NOTE => voucherSpentIn' = voucherSpentIn
  BY TypesDiffer DEF Recorded, RecordPolicy
<1>4. \A s \in spends : Active(ParentType(kind), s)
  BY DEF Recorded, EventOK
<1>5. ASSUME NEW s \in DOMAIN noteStatusByNf, noteStatusByNf[s] # ACTIVE
      PROVE  At(noteSpentIn', s) = 0
  <2>1. At(noteSpentIn, s) = 0
    BY <1>5 DEF LedgerInv, BlockedIsUnspent
  <2>2. CASE ParentType(kind) = NOTE
    <3>1. s \notin spends
      BY <1>4, <1>5, <2>2 DEF Active, Unblocked, At
    <3> QED
      BY <1>1, <2>1, <3>1, AtPut
  <2> QED
    BY <1>2, <2>1, <2>2, TypesDiffer
<1>6. ASSUME NEW s \in DOMAIN voucherStatusByNf, voucherStatusByNf[s] # ACTIVE
      PROVE  At(voucherSpentIn', s) = 0
  <2>1. At(voucherSpentIn, s) = 0
    BY <1>6 DEF LedgerInv, BlockedIsUnspent
  <2>2. CASE ParentType(kind) = VOUCHER
    <3>1. s \notin spends
      BY <1>4, <1>6, <2>2, TypesDiffer DEF Active, Unblocked, At
    <3> QED
      BY <1>1, <2>1, <3>1, AtPut
  <2> QED
    BY <1>3, <2>1, <2>2, TypesDiffer
<1> QED
  BY <1>1, <1>5, <1>6 DEF BlockedIsUnspent, At

\* The new record consumes the parents and produces the outputs; the others
\* stay as they are.
LEMMA RecordedRefs ==
  ASSUME LedgerInv, NEW kind, NEW spends, NEW parents, NEW outputs, NEW futureNfs,
         NEW policyRef, Recorded(kind, spends, parents, outputs, futureNfs, policyRef),
         NEW aid, aid = nextAuditRecordId
  PROVE  /\ RecordIds' = RecordIds \cup {aid}
         /\ aid \notin RecordIds /\ aid # 0
         /\ ParentRefs(aid)' = Consumes(kind, parents)
         /\ OutputRefs(aid)' = Range(outputs)
         /\ \A x \in RecordIds : /\ ParentRefs(x)' = ParentRefs(x)
                                 /\ OutputRefs(x)' = OutputRefs(x)
<1> DEFINE record == [eventKind |-> kind, policyRef |-> policyRef,
                      outputRefs |-> outputs, parents |-> parents,
                      futureNfs |-> futureNfs]
<1>1. /\ auditRecords' = Put(auditRecords, {aid}, record)
      /\ nextAuditRecordId' = nextAuditRecordId + 1
  BY DEF Recorded, RecordPolicy
<1>2. HistoryOK
  BY DEF LedgerInv
<1>3. /\ RecordIds' = RecordIds \cup {aid}
      /\ aid \notin RecordIds /\ aid # 0
  BY <1>1, <1>2, NextRecordId DEF HistoryOK
<1>4. auditRecords'[aid] = record
  BY <1>1 DEF Put
<1>5. \A x \in RecordIds : auditRecords'[x] = auditRecords[x]
  BY <1>1, <1>2, <1>3 DEF Put, HistoryOK
<1>6. ParentRefs(aid)' = Consumes(kind, parents) /\ OutputRefs(aid)' = Range(outputs)
  BY <1>4 DEF ParentRefs, OutputRefs, Consumes
<1>7. ASSUME NEW x \in RecordIds
      PROVE  ParentRefs(x)' = ParentRefs(x) /\ OutputRefs(x)' = OutputRefs(x)
  BY <1>5 DEF ParentRefs, OutputRefs
<1> QED
  BY <1>3, <1>6, <1>7

\* Recording an event marks its parents spent in it, and spends no other
\* object: what an earlier record spent is not active.
LEMMA RecordedConsumed ==
  ASSUME LedgerInv, NEW kind, NEW spends, NEW parents, NEW outputs, NEW futureNfs,
         NEW policyRef, Recorded(kind, spends, parents, outputs, futureNfs, policyRef)
  PROVE  ConsumedOnce'
<1>0. PICK aid : aid = nextAuditRecordId
  OBVIOUS
<1>1. /\ ParentType(kind) = NOTE =>
           noteSpentIn' = Put(noteSpentIn, spends, aid) /\ voucherSpentIn' = voucherSpentIn
      /\ ParentType(kind) = VOUCHER =>
           voucherSpentIn' = Put(voucherSpentIn, spends, aid) /\ noteSpentIn' = noteSpentIn
  BY <1>0, TypesDiffer DEF Recorded, RecordPolicy
<1>2. /\ spends = {SpendValue(ref) : ref \in Consumes(kind, parents)}
      /\ \A s \in spends : Unspent(ParentType(kind), s)
  BY DEF Recorded, EventOK, Active
<1>3. /\ RecordIds' = RecordIds \cup {aid}
      /\ aid \notin RecordIds /\ aid # 0
      /\ ParentRefs(aid)' = Consumes(kind, parents)
      /\ \A x \in RecordIds : ParentRefs(x)' = ParentRefs(x) /\ x # 0
  BY <1>0, RecordedRefs, NextRecordId DEF LedgerInv, RecordIds
<1>4. \A ref \in Consumes(kind, parents) : ref.objectType = ParentType(kind)
  BY RefFields DEF Consumes
<1>5. \A x \in RecordIds : \A ref \in ParentRefs(x) :
        ref.objectType \in {NOTE, VOUCHER} /\ SpentIn(ref) = x
  BY RefFields, TypesDiffer DEF LedgerInv, ConsumedOnce, ParentRefs, OutputRefs
<1>6. ASSUME NEW ref \in Consumes(kind, parents)
      PROVE  SpentIn(ref)' = aid
  <2>1. SpendValue(ref) \in spends /\ ref.objectType = ParentType(kind)
    BY <1>2, <1>4
  <2> QED
    BY <1>1, <2>1, AtPut, TypesDiffer DEF SpentIn
<1>7. ASSUME NEW x \in RecordIds, NEW ref \in ParentRefs(x)
      PROVE  SpentIn(ref)' = x
  <2>1. SpentIn(ref) = x /\ x # 0 /\ ref.objectType \in {NOTE, VOUCHER}
    BY <1>3, <1>5
  <2>2. CASE ref.objectType = ParentType(kind)
    <3>1. SpendValue(ref) \notin spends
      BY <1>2, <2>1, <2>2, TypesDiffer DEF SpentIn, Unspent
    <3> QED
      BY <1>1, <2>1, <2>2, <3>1, AtPut, TypesDiffer DEF SpentIn
  <2>3. CASE ref.objectType # ParentType(kind)
    BY <1>1, <2>1, <2>3, TypesDiffer DEF SpentIn
  <2> QED
    BY <2>2, <2>3
<1>8. \A x \in RecordIds' : \A ref \in ParentRefs(x)' : SpentIn(ref)' = x
  BY <1>3, <1>6, <1>7
<1>9. ASSUME NEW s \in DOMAIN noteSpentIn'
      PROVE  \E x \in RecordIds' :
               /\ noteSpentIn'[s] = x
               /\ \E ref \in ParentRefs(x)' : ref.objectType = NOTE /\ SpendValue(ref) = s
  <2>1. CASE ParentType(kind) = NOTE /\ s \in spends
    BY <1>1, <1>2, <1>3, <1>4, <2>1 DEF Put
  <2>2. CASE ~(ParentType(kind) = NOTE /\ s \in spends)
    <3>1. s \in DOMAIN noteSpentIn /\ noteSpentIn'[s] = noteSpentIn[s]
      BY <1>1, <2>2, TypesDiffer DEF Put
    <3> QED
      BY <1>3, <3>1 DEF LedgerInv, ConsumedOnce
  <2> QED
    BY <2>1, <2>2
<1>10. ASSUME NEW s \in DOMAIN voucherSpentIn'
       PROVE  \E x \in RecordIds' :
                /\ voucherSpentIn'[s] = x
                /\ \E ref \in ParentRefs(x)' :
                     ref.objectType = VOUCHER /\ SpendValue(ref) = s
  <2>1. CASE ParentType(kind) = VOUCHER /\ s \in spends
    BY <1>1, <1>2, <1>3, <1>4, <2>1 DEF Put
  <2>2. CASE ~(ParentType(kind) = VOUCHER /\ s \in spends)
    <3>1. s \in DOMAIN voucherSpentIn /\ voucherSpentIn'[s] = voucherSpentIn[s]
      BY <1>1, <2>2, TypesDiffer DEF Put
    <3> QED
      BY <1>3, <3>1 DEF LedgerInv, ConsumedOnce
  <2> QED
    BY <2>1, <2>2
<1> QED
  BY <1>8, <1>9, <1>10 DEF ConsumedOnce

\* What recording an event does to the producers and to the objects.
LEMMA RecordedProducers ==
  ASSUME LedgerInv, NEW kind, NEW spends, NEW parents, NEW outputs, NEW futureNfs,
         NEW policyRef, Recorded(kind, spends, parents, outputs, futureNfs, policyRef),
         NEW aid, aid = nextAuditRecordId
  PROVE  /\ DOMAIN producerOf' = DOMAIN producerOf \cup Range(outputs)
         /\ DOMAIN producerOf \cap Range(outputs) = {}
         /\ \A ref \in Range(outputs) : producerOf'[ref] = aid
         /\ \A ref \in DOMAIN producerOf : producerOf'[ref] = producerOf[ref]
<1>1. producerOf' = Put(producerOf, Range(outputs), aid)
  BY DEF Recorded, RecordPolicy
<1>2. ASSUME NEW ref \in Range(outputs), ref \in DOMAIN producerOf
      PROVE  FALSE
  <2>1. PICK i \in DOMAIN outputs : ref = outputs[i]
    BY <1>2 DEF Range
  <2>2. /\ ref.objectType \in {NOTE, VOUCHER, CLAIM}
        /\ ref.objectType = NOTE => ref.rawId \notin commitments
        /\ ref.objectType = VOUCHER => ref.rawId \notin voucherCommitments
        /\ ref.objectType = CLAIM => ref.rawId \notin claimRegistered
    BY <1>2, <2>1, RefsTyped, TypesDiffer DEF Recorded, EventOK, RecordPolicy, Recordable,
       Fresh
  <2>3. CASE ref.objectType = CLAIM
    <3>1. ref \in {Ref(CLAIM, h) : h \in claimRegistered}
      BY <1>2, <2>3 DEF LedgerInv, HistoryOK
    <3> QED
      BY <2>2, <2>3, <3>1, RefFields
  <2>4. CASE ref.objectType # CLAIM
    <3>1. ref \in Objects
      BY <1>2, <2>4 DEF LedgerInv, ProducedOnce
    <3> QED
      BY <2>2, <3>1, RefFields, TypesDiffer DEF Objects
  <2> QED
    BY <2>3, <2>4
<1>3. DOMAIN producerOf' = DOMAIN producerOf \cup Range(outputs)
  BY <1>1 DEF Put
<1>4. \A ref \in Range(outputs) : producerOf'[ref] = aid
  BY <1>1 DEF Put
<1>5. \A ref \in DOMAIN producerOf : producerOf'[ref] = producerOf[ref]
  BY <1>1, <1>2 DEF Put
<1> QED
  BY <1>2, <1>3, <1>4, <1>5

\* Recording an event gives its outputs one producer, the new record.
LEMMA RecordedProduced ==
  ASSUME LedgerInv, NEW kind, NEW spends, NEW parents, NEW outputs, NEW futureNfs,
         NEW policyRef, Recorded(kind, spends, parents, outputs, futureNfs, policyRef)
  PROVE  ProducedOnce' /\ HistoryOK'
<1>0. PICK aid : aid = nextAuditRecordId
  OBVIOUS
<1>1. /\ DOMAIN producerOf' = DOMAIN producerOf \cup Range(outputs)
      /\ DOMAIN producerOf \cap Range(outputs) = {}
      /\ \A ref \in Range(outputs) : producerOf'[ref] = aid
      /\ \A ref \in DOMAIN producerOf : producerOf'[ref] = producerOf[ref]
  BY <1>0, RecordedProducers
<1>2. /\ RecordIds' = RecordIds \cup {aid}
      /\ aid \notin RecordIds
      /\ OutputRefs(aid)' = Range(outputs)
      /\ \A x \in RecordIds : OutputRefs(x)' = OutputRefs(x)
  BY <1>0, RecordedRefs
<1>3. /\ \A x \in RecordIds : \A ref \in OutputRefs(x) : At(producerOf, ref) = x
      /\ DOMAIN producerOf = UNION {OutputRefs(x) : x \in RecordIds}
      /\ Objects = {ref \in DOMAIN producerOf : ref.objectType # CLAIM}
  BY DEF LedgerInv, ProducedOnce
<1>4. /\ commitments' = commitments \cup IdSet(NOTE, outputs)
      /\ voucherCommitments' = voucherCommitments \cup IdSet(VOUCHER, outputs)
      /\ claimRegistered' = claimRegistered \cup IdSet(CLAIM, outputs)
      /\ nextAuditRecordId' = nextAuditRecordId + 1
      /\ DOMAIN auditRecords' = DOMAIN auditRecords \cup {aid}
  BY <1>0 DEF Recorded, RecordPolicy, Put
<1>5. \A ref \in Range(outputs) :
        ref.objectType \in {NOTE, VOUCHER, CLAIM} /\ ref = Ref(ref.objectType, ref.rawId)
  BY RefsTyped DEF Recorded, EventOK
<1>6. \A type \in {NOTE, VOUCHER, CLAIM} :
        {Ref(type, id) : id \in IdSet(type, outputs)}
          = {ref \in Range(outputs) : ref.objectType = type}
  BY <1>5, RefFields DEF IdSet
<1>7. ASSUME NEW x \in RecordIds', NEW ref \in OutputRefs(x)'
      PROVE  ref \in DOMAIN producerOf' /\ producerOf'[ref] = x
  <2>1. CASE x = aid
    BY <1>1, <1>2, <1>7, <2>1
  <2>2. CASE x \in RecordIds
    <3>1. ref \in OutputRefs(x) /\ ref \in DOMAIN producerOf
      BY <1>2, <1>3, <1>7, <2>2
    <3>2. producerOf[ref] = x
      BY <1>3, <2>2, <3>1 DEF At
    <3> QED
      BY <1>1, <3>1, <3>2
  <2> QED
    BY <1>2, <2>1, <2>2
<1>8. DOMAIN producerOf' = UNION {OutputRefs(x)' : x \in RecordIds'}
  BY <1>1, <1>2, <1>3
<1>9. Objects' = {ref \in DOMAIN producerOf' : ref.objectType # CLAIM}
  <2>1. Objects' = Objects \cup {Ref(NOTE, id) : id \in IdSet(NOTE, outputs)}
                          \cup {Ref(VOUCHER, id) : id \in IdSet(VOUCHER, outputs)}
    BY <1>4 DEF Objects
  <2>2. Objects' = Objects \cup {ref \in Range(outputs) : ref.objectType \in {NOTE, VOUCHER}}
    BY <1>6, <2>1
  <2> QED
    BY <1>1, <1>3, <1>5, <2>2, TypesDiffer
<1>10. ProducedOnce'
  BY <1>7, <1>8, <1>9 DEF ProducedOnce, At
<1>11. HistoryOK'
  <2>1. HistoryOK
    BY DEF LedgerInv
  <2>2. nextAuditRecordId' \in Nat \ {0} /\ DOMAIN auditRecords' = RecordIds'
    BY <1>0, <1>2, <1>4, <2>1 DEF HistoryOK
  <2>3. {Ref(CLAIM, h) : h \in claimRegistered'}
          = {Ref(CLAIM, h) : h \in claimRegistered}
              \cup {ref \in Range(outputs) : ref.objectType = CLAIM}
    BY <1>4, <1>6
  <2>4. {ref \in DOMAIN producerOf' : ref.objectType = CLAIM}
          = {Ref(CLAIM, h) : h \in claimRegistered'}
    BY <1>1, <2>1, <2>3 DEF HistoryOK
  <2> QED
    BY <2>2, <2>4 DEF HistoryOK
<1> QED
  BY <1>10, <1>11

\* Recording an event keeps the lineage acyclic.
LEMMA RecordedCausal ==
  ASSUME LedgerInv, NEW kind, NEW spends, NEW parents, NEW outputs, NEW futureNfs,
         NEW policyRef, Recorded(kind, spends, parents, outputs, futureNfs, policyRef)
  PROVE  Acyclic'
<1>0. PICK aid : aid = nextAuditRecordId
  OBVIOUS
<1>1. /\ DOMAIN producerOf' = DOMAIN producerOf \cup Range(outputs)
      /\ \A ref \in DOMAIN producerOf : producerOf'[ref] = producerOf[ref]
  BY <1>0, RecordedProducers
<1>2. /\ RecordIds' = RecordIds \cup {aid}
      /\ ParentRefs(aid)' = Consumes(kind, parents)
      /\ \A x \in RecordIds : ParentRefs(x)' = ParentRefs(x)
  BY <1>0, RecordedRefs
<1>3. \A ref \in DOMAIN producerOf : producerOf[ref] < aid
  <2>1. \A ref \in DOMAIN producerOf : producerOf[ref] \in RecordIds
    BY DEF LedgerInv, ProducedOnce, At
  <2> QED
    BY <1>0, <2>1 DEF LedgerInv, HistoryOK, RecordIds
<1>4. Consumes(kind, parents) \subseteq DOMAIN producerOf
  BY DEF Recorded, EventOK, LedgerInv, ProducedOnce
<1>5. ASSUME NEW x \in RecordIds', NEW ref \in ParentRefs(x)'
      PROVE  ref \in DOMAIN producerOf' /\ producerOf'[ref] < x
  <2>1. CASE x = aid
    BY <1>1, <1>2, <1>3, <1>4, <1>5, <2>1
  <2>2. CASE x \in RecordIds
    BY <1>1, <1>2, <1>5, <2>2 DEF LedgerInv, Acyclic
  <2> QED
    BY <1>2, <2>1, <2>2
<1> QED
  BY <1>5 DEF Acyclic

\* Recording an event keeps the types.
LEMMA RecordedTypes ==
  ASSUME LedgerInv, NEW kind, NEW spends, NEW parents, NEW outputs, NEW futureNfs,
         NEW policyRef, Recorded(kind, spends, parents, outputs, futureNfs, policyRef)
  PROVE  MappingsTypeOK'
<1>0. PICK aid : aid = nextAuditRecordId
  OBVIOUS
<1>1. MappingsTypeOK
  BY DEF LedgerInv
<1>2. aid \in Nat \ {0}
  BY <1>0, <1>1 DEF MappingsTypeOK
<1>3. Range(outputs) \subseteq Refs
  BY DEF Recorded, EventOK
<1>4. /\ IdSet(NOTE, outputs) \subseteq Notes
      /\ IdSet(VOUCHER, outputs) \subseteq Vouchers
      /\ IdSet(CLAIM, outputs) \subseteq Claims
  BY <1>3, RefsTyped DEF IdSet
<1>5. /\ ParentType(kind) = NOTE => spends \subseteq NoteNfs
      /\ ParentType(kind) = VOUCHER => spends \subseteq VoucherNfs
  <2>1. ASSUME NEW s \in spends
        PROVE  /\ ParentType(kind) = NOTE => s \in NoteNfs
               /\ ParentType(kind) = VOUCHER => s \in VoucherNfs
    <3>1. PICK ref \in Objects : s = SpendValue(ref) /\ ref.objectType = ParentType(kind)
      BY RefFields DEF Recorded, EventOK, Consumes
    <3>2. \/ \E n \in Notes : ref = Ref(NOTE, n)
          \/ \E v \in Vouchers : ref = Ref(VOUCHER, v)
      BY <1>1 DEF Objects, MappingsTypeOK
    <3> QED
      BY <3>1, <3>2, RefFields, TypesDiffer DEF SpendValue, NoteNfs, VoucherNfs
  <2> QED
    BY <2>1
<1>6. IsMapping(producerOf', Refs, Nat \ {0})
  <2>1. producerOf' = Put(producerOf, Range(outputs), aid)
    BY <1>0 DEF Recorded, RecordPolicy
  <2> QED
    BY <1>1, <1>2, <1>3, <2>1, PutsMapping DEF MappingsTypeOK
<1>7. IsMapping(noteSpentIn', NoteNfs, Nat \ {0})
      /\ IsMapping(voucherSpentIn', VoucherNfs, Nat \ {0})
  <2>1. CASE ParentType(kind) = NOTE
    <3>1. noteSpentIn' = Put(noteSpentIn, spends, aid) /\ voucherSpentIn' = voucherSpentIn
      BY <1>0, <2>1, TypesDiffer DEF Recorded, RecordPolicy
    <3> QED
      BY <1>1, <1>2, <1>5, <2>1, <3>1, PutsMapping DEF MappingsTypeOK
  <2>2. CASE ParentType(kind) = VOUCHER
    <3>1. voucherSpentIn' = Put(voucherSpentIn, spends, aid) /\ noteSpentIn' = noteSpentIn
      BY <1>0, <2>2 DEF Recorded, RecordPolicy
    <3> QED
      BY <1>1, <1>2, <1>5, <2>2, <3>1, PutsMapping DEF MappingsTypeOK
  <2> QED
    BY <2>1, <2>2, TypesDiffer
<1>8. DOMAIN auditRecords' = RecordIds' /\ nextAuditRecordId' \in Nat \ {0}
  BY RecordedProduced DEF HistoryOK
<1>9. /\ commitments' \subseteq Notes
      /\ voucherCommitments' \subseteq Vouchers
      /\ claimRegistered' \subseteq Claims
  BY <1>1, <1>4 DEF MappingsTypeOK, Recorded, RecordPolicy
<1>10. UNCHANGED <<blockNumber, entryIssuers, noteStatusByNf, voucherStatusByNf>>
  BY DEF Recorded
<1> QED
  BY <1>1, <1>6, <1>7, <1>8, <1>9, <1>10 DEF MappingsTypeOK

\* Recording an event keeps the inductive invariant.
LEMMA RecordedInv ==
  ASSUME LedgerInv, NEW kind, NEW spends, NEW parents, NEW outputs, NEW futureNfs,
         NEW policyRef, Recorded(kind, spends, parents, outputs, futureNfs, policyRef)
  PROVE  LedgerInv'
BY RecordedTypes, RecordedBlocked, RecordedConsumed, RecordedProduced, RecordedCausal
   DEF LedgerInv

-----------------------------------------------------------------------------
\* The elements of the sequences the events build.
LEMMA Ranges ==
  /\ Range(<<>>) = {} /\ DOMAIN <<>> = {}
  /\ \A x : Range(<<x>>) = {x} /\ DOMAIN <<x>> = {1}
  /\ \A x, y : Range(<<x, y>>) = {x, y} /\ DOMAIN <<x, y>> = {1, 2}
  /\ \A x, y, z : Range(<<x, y, z>>) = {x, y, z}
BY DEF Range

\* The kinds whose parents are vouchers.
LEMMA ParentTypes ==
  /\ \A kind \in {ENTRY, TRANSFER, MERGE, SPLIT, PROCESS, EXIT, ISSUE} :
       ParentType(kind) = NOTE
  /\ \A kind \in {PROCEED, RECALL} : ParentType(kind) = VOUCHER
BY DEF ParentType, ENTRY, TRANSFER, PROCEED, RECALL, MERGE, SPLIT, PROCESS, EXIT, ISSUE

\* What an output of an event is.
Typed(outputs) == Range(outputs) \subseteq Refs /\ DOMAIN outputs \subseteq {1, 2}

\* An event that spends existing notes which are active.
LEMMA NoteEventOK ==
  ASSUME NEW kind, ParentType(kind) = NOTE, NEW parents, Range(parents) \subseteq commitments,
         NEW spends, spends = {Nullifier(n) : n \in Range(parents)},
         \A n \in Range(parents) : Active(NOTE, Nullifier(n)),
         NEW outputs, Typed(outputs)
  PROVE  EventOK(kind, spends, parents, outputs)
<1>1. Consumes(kind, parents) = {Ref(NOTE, n) : n \in Range(parents)}
  BY DEF Consumes, Range
<1>2. \A n : SpendValue(Ref(NOTE, n)) = Nullifier(n)
  BY RefFields DEF SpendValue
<1>3. spends = {SpendValue(ref) : ref \in Consumes(kind, parents)}
  BY <1>1, <1>2
<1> QED
  BY <1>1, <1>3 DEF EventOK, Typed, Objects

\* An event that spends an existing voucher which is active.
LEMMA VoucherEventOK ==
  ASSUME NEW kind, ParentType(kind) = VOUCHER, NEW v \in voucherCommitments,
         Active(VOUCHER, VoucherNullifier(v)), NEW outputs, Typed(outputs)
  PROVE  EventOK(kind, {VoucherNullifier(v)}, <<v>>, outputs)
<1>1. Consumes(kind, <<v>>) = {Ref(VOUCHER, v)}
  BY DEF Consumes
<1>2. SpendValue(Ref(VOUCHER, v)) = VoucherNullifier(v)
  BY RefFields, TypesDiffer DEF SpendValue
<1> QED
  BY <1>1, <1>2 DEF EventOK, Typed, Objects

\* An event under a fixed verifier registers no claim.
LEMMA FixedRecords ==
  ASSUME MappingsTypeOK, NEW kind, NEW spends, NEW parents, NEW outputs, NEW futureNfs,
         EventOK(kind, spends, parents, outputs),
         \A ref \in Range(outputs) : ref.objectType # CLAIM,
         \A i \in DOMAIN parents : parents[i].role = WASTE => kind = EXIT,
         Opened(outputs, futureNfs), Balanced(kind, parents, outputs),
         RecordFixed(kind, spends, parents, outputs, futureNfs)
  PROVE  RecordsEvent
<1>1. IdSet(CLAIM, outputs) = {}
  BY DEF IdSet
<1>2. EventSound(kind, parents, outputs, futureNfs, NoPolicy)
  BY RefFields DEF EventSound
<1>3. Recorded(kind, spends, parents, outputs, futureNfs, NoPolicy)
  BY <1>1, <1>2 DEF Recorded, RecordFixed, PolicyInUse, registryVars
<1> QED
  BY <1>3 DEF RecordsEvent

\* What the future spend values open, for the outputs events have.
LEMMA OpenedOutputs ==
  /\ Opened(<<>>, <<>>)
  /\ \A n : Opened(<<Ref(NOTE, n)>>, <<Nullifier(n)>>)
  /\ \A h : Opened(<<Ref(CLAIM, h)>>, <<>>)
  /\ \A n, m : Opened(<<Ref(NOTE, n), Ref(NOTE, m)>>, <<Nullifier(n), Nullifier(m)>>)
  /\ \A v, n : Opened(<<Ref(VOUCHER, v), Ref(NOTE, n)>>,
                      <<VoucherNullifier(v), Nullifier(n)>>)
<1>1. /\ \A n : SpendValue(Ref(NOTE, n)) = Nullifier(n)
      /\ \A v : SpendValue(Ref(VOUCHER, v)) = VoucherNullifier(v)
      /\ \A n : Ref(NOTE, n).objectType = NOTE
      /\ \A v : Ref(VOUCHER, v).objectType = VOUCHER
      /\ \A h : Ref(CLAIM, h).objectType = CLAIM
  BY RefFields, TypesDiffer DEF SpendValue
<1>2. Opened(<<>>, <<>>)
  BY DEF Opened
<1>3. ASSUME NEW n
      PROVE  Opened(<<Ref(NOTE, n)>>, <<Nullifier(n)>>)
  BY <1>1, TypesDiffer DEF Opened
<1>4. ASSUME NEW h
      PROVE  Opened(<<Ref(CLAIM, h)>>, <<>>)
  BY <1>1 DEF Opened
<1>5. ASSUME NEW n, NEW m
      PROVE  Opened(<<Ref(NOTE, n), Ref(NOTE, m)>>, <<Nullifier(n), Nullifier(m)>>)
  BY <1>1, TypesDiffer DEF Opened
<1>6. ASSUME NEW v, NEW n
      PROVE  Opened(<<Ref(VOUCHER, v), Ref(NOTE, n)>>,
                    <<VoucherNullifier(v), Nullifier(n)>>)
  BY <1>1, TypesDiffer DEF Opened
<1> QED
  BY <1>2, <1>3, <1>4, <1>5, <1>6

\* Eligible is not waste.
LEMMA RolesDiffer == ELIGIBLE # WASTE
BY DEF ELIGIBLE, WASTE

-----------------------------------------------------------------------------
\* What the kinds of events do with quantities.
LEMMA KindsDiffer ==
  /\ \A kind \in {TRANSFER, PROCEED, RECALL, MERGE, SPLIT} :
       kind \notin {ENTRY, EXIT, ISSUE} /\ kind # PROCESS
  /\ PROCESS \notin {ENTRY, EXIT, ISSUE}
  /\ ENTRY \notin {EXIT, ISSUE}
  /\ ENTRY # PROCESS /\ EXIT # PROCESS /\ ISSUE # PROCESS /\ EXIT # ISSUE
BY DEF ENTRY, TRANSFER, PROCEED, RECALL, MERGE, SPLIT, PROCESS, EXIT, ISSUE

\* The references of notes and vouchers, and their states.
LEMMA SpendableRefs ==
  /\ \A n \in Notes : /\ Ref(NOTE, n) \in Spendables
                      /\ Ref(NOTE, n).rawId = n
                      /\ n.state.q \in Nat /\ n.state.a \in Nat /\ n.state.e \in Nat
  /\ \A v \in Vouchers : /\ Ref(VOUCHER, v) \in Spendables
                         /\ Ref(VOUCHER, v).rawId = v
                         /\ v.state.q \in Nat /\ v.state.a \in Nat /\ v.state.e \in Nat
  /\ \A n, m : n # m => Ref(NOTE, n) # Ref(NOTE, m)
  /\ \A n, v : Ref(NOTE, n) # Ref(VOUCHER, v)
<1>1. \A n \in Notes : Ref(NOTE, n) \in Spendables /\ Ref(NOTE, n).rawId = n
  BY RefsOf, RefFields DEF Spendables
<1>2. \A v \in Vouchers : Ref(VOUCHER, v) \in Spendables /\ Ref(VOUCHER, v).rawId = v
  BY RefsOf, RefFields DEF Spendables
<1>3. \A s \in State : s.q \in Nat /\ s.a \in Nat /\ s.e \in Nat
  BY AllocationAssumption DEF State, Amount
<1>4. /\ \A n \in Notes : n.state \in State
      /\ \A v \in Vouchers : v.state \in State
  BY DEF Notes, Vouchers, StateAndRoleOK
<1>5. /\ \A n, m : n # m => Ref(NOTE, n) # Ref(NOTE, m)
      /\ \A n, v : Ref(NOTE, n) # Ref(VOUCHER, v)
  BY RefFields, TypesDiffer
<1> QED
  BY <1>1, <1>2, <1>3, <1>4, <1>5

\* An event that keeps the quantities, but for the losses of Process.
LEMMA KeepsBalance ==
  ASSUME NEW kind, kind \notin {ENTRY, EXIT, ISSUE}, NEW parents, NEW outputs, NEW ins, NEW outs,
         Consumes(kind, parents) = ins, Range(outputs) = outs, outs \subseteq Spendables,
         Total("q", outs) + (IF kind = PROCESS THEN Losses(ins) ELSE 0) = Total("q", ins),
         Total("a", outs) = Total("a", ins),
         Total("e", outs) >= Total("e", ins)
  PROVE  Balanced(kind, parents, outputs)
<1>1. Range(outputs) \cap Spendables = outs
  OBVIOUS
<1> QED
  BY <1>1 DEF Balanced

\* What is entered comes from nowhere, what leaves goes nowhere.
LEMMA EntryBalanced ==
  ASSUME NEW n \in Notes
  PROVE  Balanced(ENTRY, <<>>, <<Ref(NOTE, n)>>)
<1>1. Consumes(ENTRY, <<>>) = {}
  BY Ranges DEF Consumes
<1>2. Range(<<Ref(NOTE, n)>>) \cap Spendables = Range(<<Ref(NOTE, n)>>)
  BY Ranges, SpendableRefs
<1> QED
  BY <1>1, <1>2, KindsDiffer DEF Balanced

LEMMA LeavingBalanced ==
  ASSUME NEW kind \in {EXIT, ISSUE}, NEW parents, NEW outputs,
         \A ref \in Range(outputs) : ref.objectType = CLAIM
  PROVE  Balanced(kind, parents, outputs)
BY KindsDiffer DEF Balanced, Spendables

\* The change gets its floored share of the quantities and the voucher the rest.
LEMMA TransferBalanced ==
  ASSUME NEW n \in Notes, NEW o \in TransferOutputs(n)
  PROVE  Balanced(TRANSFER, <<n>>, <<Ref(VOUCHER, o.voucher), Ref(NOTE, o.change)>>)
<1> DEFINE ins  == {Ref(NOTE, n)}
           outs == {Ref(VOUCHER, o.voucher), Ref(NOTE, o.change)}
           v    == o.voucher.state
           c    == o.change.state
<1>1. o.voucher \in Vouchers /\ o.change \in Notes
  BY DEF TransferOutputs
<1>2. PICK delta \in DeltaTransports :
        /\ v.q + c.q = n.state.q
        /\ v.a + c.a = n.state.a
        /\ v.e + c.e = n.state.e + delta
  <2>1. PICK q \in 1..n.state.q, delta \in DeltaTransports, receiver \in Users,
             deadline \in Deadlines, vOpening \in Openings, cOpening \in Openings :
          o = [voucher |-> Voucher(n.doc, [ByMass(n.state, q).first EXCEPT !.e = @ + delta],
                                   n.owner, receiver, deadline, vOpening),
               change  |-> Note(n.doc, ELIGIBLE, ByMass(n.state, q).second, n.owner, cOpening)]
    BY DEF TransferOutputs
  <2>2. /\ v = [ByMass(n.state, q).first EXCEPT !.e = @ + delta]
        /\ c = ByMass(n.state, q).second
    BY <2>1 DEF Voucher, Note
  <2>3. /\ c.q = n.state.q - q /\ v.q = q
        /\ v.a = n.state.a - c.a
        /\ v.e = n.state.e - c.e + delta
    BY <2>2 DEF ByMass
  <2>4. /\ n.state.q \in Nat /\ n.state.a \in Nat /\ n.state.e \in Nat
        /\ c.q \in Nat /\ c.a \in Nat /\ c.e \in Nat
        /\ q \in Nat /\ delta \in Nat
    BY <1>1, SpendableRefs, AssetsAssumption
  <2> HIDE DEF v, c
  <2>5. /\ v.q + c.q = n.state.q
        /\ v.a + c.a = n.state.a
        /\ v.e + c.e = n.state.e + delta
    BY <2>3, <2>4
  <2> QED
    BY <2>5
<1>3. Consumes(TRANSFER, <<n>>) = ins
  BY Ranges, ParentTypes DEF Consumes
<1>4. Range(<<Ref(VOUCHER, o.voucher), Ref(NOTE, o.change)>>) = outs
  BY Ranges
<1>5. \A field \in Fields : /\ Total(field, ins) = n.state[field]
                            /\ Total(field, outs) = v[field] + c[field]
  <2>1. /\ Ref(NOTE, n) \in Spendables /\ Ref(NOTE, n).rawId = n
        /\ Ref(VOUCHER, o.voucher) \in Spendables
        /\ Ref(VOUCHER, o.voucher).rawId = o.voucher
        /\ Ref(NOTE, o.change) \in Spendables /\ Ref(NOTE, o.change).rawId = o.change
        /\ Ref(VOUCHER, o.voucher) # Ref(NOTE, o.change)
    BY <1>1, SpendableRefs
  <2> QED
    BY <2>1, TotalOfFew
<1>6. /\ Total("q", ins) = n.state.q /\ Total("q", outs) = v.q + c.q
      /\ Total("a", ins) = n.state.a /\ Total("a", outs) = v.a + c.a
      /\ Total("e", ins) = n.state.e /\ Total("e", outs) = v.e + c.e
  BY <1>5 DEF Fields
<1>7. outs \subseteq Spendables
  BY <1>1, SpendableRefs
<1>8. /\ Total("q", outs) + 0 = Total("q", ins)
      /\ Total("a", outs) = Total("a", ins)
      /\ Total("e", outs) >= Total("e", ins)
  <2>1. n.state.e \in Nat /\ delta \in Nat /\ n.state.q \in Nat
    BY SpendableRefs, AssetsAssumption
  <2> HIDE DEF ins, outs, v, c
  <2> QED
    BY <1>2, <1>6, <2>1
<1> HIDE DEF ins, outs
<1> QED
  BY <1>3, <1>4, <1>7, <1>8, KindsDiffer, KeepsBalance

\* A voucher's quantities become those of a note.
LEMMA ResolveBalanced ==
  ASSUME NEW kind \in {PROCEED, RECALL}, NEW v \in Vouchers, NEW m \in Notes,
         m.state = v.state
  PROVE  Balanced(kind, <<v>>, <<Ref(NOTE, m)>>)
<1> DEFINE ins  == {Ref(VOUCHER, v)}
           outs == {Ref(NOTE, m)}
<1>1. Consumes(kind, <<v>>) = ins /\ Range(<<Ref(NOTE, m)>>) = outs
  BY Ranges, ParentTypes DEF Consumes
<1>2. \A field \in Fields : Total(field, outs) = Total(field, ins)
                            /\ Total(field, ins) \in Nat
  BY SpendableRefs, TotalOfFew
<1>3. outs \subseteq Spendables
  BY SpendableRefs
<1>4. /\ Total("q", outs) + 0 = Total("q", ins)
      /\ Total("a", outs) = Total("a", ins)
      /\ Total("e", outs) >= Total("e", ins)
  <2>1. \A field \in Fields : Total(field, outs) + 0 = Total(field, ins)
                              /\ Total(field, outs) >= Total(field, ins)
    BY <1>2
  <2> QED
    BY <1>2, <2>1 DEF Fields
<1> HIDE DEF ins, outs
<1> QED
  BY <1>1, <1>3, <1>4, KindsDiffer, KeepsBalance

\* A merged note has the sum of the quantities.
LEMMA MergeBalanced ==
  ASSUME NEW n1 \in Notes, NEW n2 \in Notes, NEW m \in MergeOutputs(n1, n2)
  PROVE  Balanced(MERGE, <<n1, n2>>, <<Ref(NOTE, m)>>)
<1> DEFINE ins  == {Ref(NOTE, n1), Ref(NOTE, n2)}
           outs == {Ref(NOTE, m)}
<1>1. m \in Notes /\ n1 # n2 /\ m.state = AddStates(n1.state, n2.state)
  BY DEF MergeOutputs, Mergeable, SameLot, Note
<1>2. Consumes(MERGE, <<n1, n2>>) = ins /\ Range(<<Ref(NOTE, m)>>) = outs
  BY Ranges, ParentTypes DEF Consumes
<1>3. \A field \in Fields : /\ Total(field, ins) = n1.state[field] + n2.state[field]
                            /\ Total(field, outs) = m.state[field]
  <2>1. /\ Ref(NOTE, n1) \in Spendables /\ Ref(NOTE, n1).rawId = n1
        /\ Ref(NOTE, n2) \in Spendables /\ Ref(NOTE, n2).rawId = n2
        /\ Ref(NOTE, m) \in Spendables /\ Ref(NOTE, m).rawId = m
        /\ Ref(NOTE, n1) # Ref(NOTE, n2)
    BY <1>1, SpendableRefs
  <2> QED
    BY <2>1, TotalOfFew
<1>4. outs \subseteq Spendables
  BY <1>1, SpendableRefs
<1>5. /\ m.state.q = n1.state.q + n2.state.q
      /\ m.state.a = n1.state.a + n2.state.a
      /\ m.state.e = n1.state.e + n2.state.e
  BY <1>1 DEF AddStates
<1>6. /\ Total("q", outs) + 0 = Total("q", ins)
      /\ Total("a", outs) = Total("a", ins)
      /\ Total("e", outs) >= Total("e", ins)
  <2>1. /\ Total("q", ins) = n1.state.q + n2.state.q /\ Total("q", outs) = m.state.q
        /\ Total("a", ins) = n1.state.a + n2.state.a /\ Total("a", outs) = m.state.a
        /\ Total("e", ins) = n1.state.e + n2.state.e /\ Total("e", outs) = m.state.e
    BY <1>3 DEF Fields
  <2>2. /\ n1.state.q \in Nat /\ n1.state.e \in Nat /\ n2.state.q \in Nat
        /\ n2.state.e \in Nat
    BY SpendableRefs
  <2> HIDE DEF ins, outs
  <2> QED
    BY <1>5, <2>1, <2>2
<1> HIDE DEF ins, outs
<1> QED
  BY <1>2, <1>4, <1>6, KindsDiffer, KeepsBalance

\* The second part gets its floored share of the quantities and the first the rest.
LEMMA SplitBalanced ==
  ASSUME NEW n \in Notes, NEW o \in SplitOutputs(n)
  PROVE  Balanced(SPLIT, <<n>>, <<Ref(NOTE, o[1]), Ref(NOTE, o[2])>>)
<1> DEFINE ins  == {Ref(NOTE, n)}
           outs == {Ref(NOTE, o[1]), Ref(NOTE, o[2])}
           s    == o[1].state
           t    == o[2].state
<1>1. o[1] \in Notes /\ o[2] \in Notes /\ o[1] # o[2]
  BY DEF SplitOutputs
<1>2. /\ s.q + t.q = n.state.q
      /\ s.a + t.a = n.state.a
      /\ s.e + t.e = n.state.e
  <2>1. PICK q \in 0..n.state.q, opening1 \in Openings, opening2 \in Openings :
          o = <<Note(n.doc, ELIGIBLE, ByMass(n.state, q).first, n.owner, opening1),
                Note(n.doc, ELIGIBLE, ByMass(n.state, q).second, n.owner, opening2)>>
    BY DEF SplitOutputs
  <2>2. s = ByMass(n.state, q).first /\ t = ByMass(n.state, q).second
    BY <2>1 DEF Note
  <2>3. /\ t.q = n.state.q - q /\ s.q = q
        /\ s.a = n.state.a - t.a
        /\ s.e = n.state.e - t.e
    BY <2>2 DEF ByMass
  <2>4. /\ n.state.q \in Nat /\ n.state.a \in Nat /\ n.state.e \in Nat
        /\ t.q \in Nat /\ t.a \in Nat /\ t.e \in Nat /\ q \in Nat
    BY <1>1, SpendableRefs
  <2> HIDE DEF s, t
  <2> QED
    BY <2>3, <2>4
<1>3. Consumes(SPLIT, <<n>>) = ins /\ Range(<<Ref(NOTE, o[1]), Ref(NOTE, o[2])>>) = outs
  BY Ranges, ParentTypes DEF Consumes
<1>4. \A field \in Fields : /\ Total(field, ins) = n.state[field]
                            /\ Total(field, outs) = s[field] + t[field]
  <2>1. /\ Ref(NOTE, n) \in Spendables /\ Ref(NOTE, n).rawId = n
        /\ Ref(NOTE, o[1]) \in Spendables /\ Ref(NOTE, o[1]).rawId = o[1]
        /\ Ref(NOTE, o[2]) \in Spendables /\ Ref(NOTE, o[2]).rawId = o[2]
        /\ Ref(NOTE, o[1]) # Ref(NOTE, o[2])
    BY <1>1, SpendableRefs
  <2> QED
    BY <2>1, TotalOfFew
<1>5. /\ Total("q", ins) = n.state.q /\ Total("q", outs) = s.q + t.q
      /\ Total("a", ins) = n.state.a /\ Total("a", outs) = s.a + t.a
      /\ Total("e", ins) = n.state.e /\ Total("e", outs) = s.e + t.e
  BY <1>4 DEF Fields
<1>6. outs \subseteq Spendables
  BY <1>1, SpendableRefs
<1>7. /\ Total("q", outs) + 0 = Total("q", ins)
      /\ Total("a", outs) = Total("a", ins)
      /\ Total("e", outs) >= Total("e", ins)
  <2>1. n.state.e \in Nat /\ n.state.q \in Nat
    BY SpendableRefs
  <2> HIDE DEF ins, outs, s, t
  <2> QED
    BY <1>2, <1>5, <2>1
<1> HIDE DEF ins, outs
<1> QED
  BY <1>3, <1>6, <1>7, KindsDiffer, KeepsBalance

\* What Process keeps of the sum of its inputs is divided between its outputs, and
\* carbon is added.
LEMMA ProcessBalanced ==
  ASSUME NEW n1 \in Notes, NEW n2 \in Notes, NEW n3 \in Notes,
         NEW o \in ProcessOutputs(n1, n2, n3)
  PROVE  Balanced(PROCESS, <<n1, n2, n3>>, <<Ref(NOTE, o[1]), Ref(NOTE, o[2])>>)
<1> DEFINE ins   == {Ref(NOTE, n1), Ref(NOTE, n2), Ref(NOTE, n3)}
           outs  == {Ref(NOTE, o[1]), Ref(NOTE, o[2])}
           total == AddStates(AddStates(n1.state, n2.state), n3.state)
           s     == o[1].state
           t     == o[2].state
           lost  == MulDiv(total.q, Rates.loss, Rates.denominator)
           carbon == MulDiv(total.q, Rates.carbon, Rates.denominator)
<1>1. /\ o[1] \in Notes /\ o[2] \in Notes
      /\ n1 # n2 /\ n1 # n3 /\ n2 # n3
      /\ total \in State
  BY DEF ProcessOutputs
<1>2. /\ s = Apply(total).eligible /\ t = Apply(total).waste
      /\ o[1].role = ELIGIBLE /\ o[2].role = WASTE
  <2>1. PICK doc1 \in Documents, doc2 \in Documents, opening1 \in Openings,
             opening2 \in Openings :
          o = <<Note(doc1, ELIGIBLE, Apply(total).eligible, n1.owner, opening1),
                Note(doc2, WASTE, Apply(total).waste, n1.owner, opening2)>>
    BY DEF ProcessOutputs
  <2> QED
    BY <2>1 DEF Note
<1>3. /\ s.q = (total.q - lost) - t.q
      /\ s.a = total.a /\ t.a = 0
      /\ s.e = total.e + carbon /\ t.e = 0
  BY <1>2 DEF Apply
<1>4. /\ total.q = (n1.state.q + n2.state.q) + n3.state.q
      /\ total.a = (n1.state.a + n2.state.a) + n3.state.a
      /\ total.e = (n1.state.e + n2.state.e) + n3.state.e
  BY DEF AddStates
<1>5. /\ total.q \in Nat /\ total.a \in Nat /\ total.e \in Nat
      /\ s.q \in Nat /\ t.q \in Nat /\ s.e \in Nat
  <2>1. total.q \in Amount /\ total.a \in Amount /\ total.e \in Amount
    BY <1>1 DEF State
  <2>2. \A x \in Amount : x \in Nat
    BY AllocationAssumption DEF Amount
  <2> HIDE DEF total
  <2> QED
    BY <1>1, <2>1, <2>2, SpendableRefs
<1>6. lost \in Nat /\ carbon \in Nat
  <2>1. /\ Rates.denominator \in Nat \ {0} /\ Rates.loss \in Nat /\ Rates.carbon \in Nat
    BY AllocationAssumption
  <2> HIDE DEF total
  <2> QED
    BY <1>5, <2>1, MulDivType
<1>7. Consumes(PROCESS, <<n1, n2, n3>>) = ins
  BY Ranges, ParentTypes DEF Consumes
<1>8. Range(<<Ref(NOTE, o[1]), Ref(NOTE, o[2])>>) = outs
  BY Ranges
<1>9. \A field \in Fields :
        /\ Total(field, ins) = (n1.state[field] + n2.state[field]) + n3.state[field]
        /\ Total(field, outs) = s[field] + t[field]
  <2>1. /\ Ref(NOTE, n1) \in Spendables /\ Ref(NOTE, n1).rawId = n1
        /\ Ref(NOTE, n2) \in Spendables /\ Ref(NOTE, n2).rawId = n2
        /\ Ref(NOTE, n3) \in Spendables /\ Ref(NOTE, n3).rawId = n3
        /\ Ref(NOTE, o[1]) \in Spendables /\ Ref(NOTE, o[1]).rawId = o[1]
        /\ Ref(NOTE, o[2]) \in Spendables /\ Ref(NOTE, o[2]).rawId = o[2]
    BY <1>1, SpendableRefs
  <2>2. /\ Ref(NOTE, o[1]) # Ref(NOTE, o[2])
        /\ Ref(NOTE, n1) # Ref(NOTE, n2) /\ Ref(NOTE, n1) # Ref(NOTE, n3)
        /\ Ref(NOTE, n2) # Ref(NOTE, n3)
    BY <1>1, <1>2, RolesDiffer, SpendableRefs
  <2> QED
    BY <2>1, <2>2, TotalOfFew
<1>10. /\ Total("q", ins) = total.q /\ Total("q", outs) = s.q + t.q
       /\ Total("a", ins) = total.a /\ Total("a", outs) = s.a + t.a
       /\ Total("e", ins) = total.e /\ Total("e", outs) = s.e + t.e
  <2> HIDE DEF total
  <2> QED
    BY <1>4, <1>9 DEF Fields
<1>11. outs \subseteq Spendables
  BY <1>1, SpendableRefs
<1>12. Losses(ins) = lost
  <2> HIDE DEF total, ins
  <2> QED
    BY <1>10 DEF Losses
<1>13. /\ Total("q", outs) + lost = Total("q", ins)
       /\ Total("a", outs) = Total("a", ins)
       /\ Total("e", outs) >= Total("e", ins)
  <2> HIDE DEF ins, outs, s, t, total, lost, carbon
  <2> QED
    BY <1>3, <1>5, <1>6, <1>10
<1> HIDE DEF ins, outs, lost
<1> QED
  BY <1>7, <1>8, <1>11, <1>12, <1>13, KindsDiffer, KeepsBalance

-----------------------------------------------------------------------------
\* entry
LEMMA EntryRecords ==
  ASSUME MappingsTypeOK, NEW sender, NEW n, Entry(sender, n)
  PROVE  RecordsEvent
<1> DEFINE outputs == <<Ref(NOTE, n)>>
<1>1. Range(outputs) = {Ref(NOTE, n)} /\ DOMAIN outputs \subseteq {1, 2}
  BY Ranges
<1>2. RecordFixed(ENTRY, {}, <<>>, outputs, <<Nullifier(n)>>) /\ n \in Notes
  BY DEF Entry, EntryNotes
<1> HIDE DEF outputs
<1>3. Typed(outputs) /\ \A ref \in Range(outputs) : ref.objectType # CLAIM
  BY <1>1, <1>2, RefsOf DEF Typed
<1>4. EventOK(ENTRY, {}, <<>>, outputs)
  BY <1>3, Ranges, ParentTypes, NoteEventOK
<1>5. Opened(outputs, <<Nullifier(n)>>)
  BY OpenedOutputs DEF outputs
<1>6. Balanced(ENTRY, <<>>, outputs)
  BY <1>2, EntryBalanced DEF outputs
<1> QED
  BY <1>2, <1>3, <1>4, <1>5, <1>6, Ranges, FixedRecords

\* transfer
LEMMA TransferRecords ==
  ASSUME MappingsTypeOK, NEW n \in commitments, Transfer(n)
  PROVE  RecordsEvent
<1>1. PICK o \in TransferOutputs(n) :
        RecordFixed(TRANSFER, {Nullifier(n)}, <<n>>,
                    <<Ref(VOUCHER, o.voucher), Ref(NOTE, o.change)>>,
                    <<VoucherNullifier(o.voucher), Nullifier(o.change)>>)
  BY DEF Transfer
<1>0. o.voucher \in Vouchers /\ o.change \in Notes
  BY DEF TransferOutputs
<1> DEFINE outputs == <<Ref(VOUCHER, o.voucher), Ref(NOTE, o.change)>>
<1>2. /\ Range(outputs) = {Ref(VOUCHER, o.voucher), Ref(NOTE, o.change)}
      /\ DOMAIN outputs \subseteq {1, 2}
  BY Ranges
<1>3. RecordFixed(TRANSFER, {Nullifier(n)}, <<n>>, outputs,
                  <<VoucherNullifier(o.voucher), Nullifier(o.change)>>)
  BY <1>1
<1> HIDE DEF outputs
<1>4. Typed(outputs) /\ \A ref \in Range(outputs) : ref.objectType # CLAIM
  BY <1>0, <1>2, RefsOf DEF Typed
<1>5. Active(NOTE, Nullifier(n))
  BY DEF Transfer
<1>6. EventOK(TRANSFER, {Nullifier(n)}, <<n>>, outputs)
  BY <1>4, <1>5, Ranges, ParentTypes, NoteEventOK
<1>7. Opened(outputs, <<VoucherNullifier(o.voucher), Nullifier(o.change)>>)
  BY OpenedOutputs DEF outputs
<1>8. n.role # WASTE
  BY RolesDiffer DEF TransferOutputs
<1>9. Balanced(TRANSFER, <<n>>, outputs)
  BY TransferBalanced DEF outputs, MappingsTypeOK
<1> QED
  BY <1>3, <1>4, <1>6, <1>7, <1>8, <1>9, FixedRecords

\* proceed and recall, for the voucher's receiver or sender
LEMMA ResolveRecords ==
  ASSUME MappingsTypeOK, NEW kind \in {PROCEED, RECALL}, NEW v \in voucherCommitments,
         Active(VOUCHER, VoucherNullifier(v)), NEW m \in Notes, m.state = v.state,
         RecordFixed(kind, {VoucherNullifier(v)}, <<v>>, <<Ref(NOTE, m)>>, <<Nullifier(m)>>)
  PROVE  RecordsEvent
<1> DEFINE outputs == <<Ref(NOTE, m)>>
<1>1. Range(outputs) = {Ref(NOTE, m)} /\ DOMAIN outputs \subseteq {1, 2}
  BY Ranges
<1>2. RecordFixed(kind, {VoucherNullifier(v)}, <<v>>, outputs, <<Nullifier(m)>>)
  OBVIOUS
<1> HIDE DEF outputs
<1>3. Typed(outputs) /\ \A ref \in Range(outputs) : ref.objectType # CLAIM
  BY <1>1, RefsOf DEF Typed
<1>4. EventOK(kind, {VoucherNullifier(v)}, <<v>>, outputs)
  BY <1>3, ParentTypes, VoucherEventOK
<1>5. Opened(outputs, <<Nullifier(m)>>)
  BY OpenedOutputs DEF outputs
<1>6. v.role # WASTE
  BY RolesDiffer DEF MappingsTypeOK, Vouchers
<1>7. Balanced(kind, <<v>>, outputs)
  BY ResolveBalanced DEF outputs, MappingsTypeOK
<1> QED
  BY <1>2, <1>3, <1>4, <1>5, <1>6, <1>7, FixedRecords

\* merge
LEMMA MergeRecords ==
  ASSUME MappingsTypeOK, NEW n1 \in commitments, NEW n2 \in commitments, Merge(n1, n2)
  PROVE  RecordsEvent
<1>1. PICK m \in MergeOutputs(n1, n2) :
        RecordFixed(MERGE, {Nullifier(n1), Nullifier(n2)}, <<n1, n2>>,
                    <<Ref(NOTE, m)>>, <<Nullifier(m)>>)
  BY DEF Merge
<1>0. m \in Notes
  BY DEF MergeOutputs
<1> DEFINE outputs == <<Ref(NOTE, m)>>
           parents == <<n1, n2>>
<1>2. /\ Range(outputs) = {Ref(NOTE, m)} /\ DOMAIN outputs \subseteq {1, 2}
      /\ Range(parents) = {n1, n2}
  BY Ranges
<1>3. RecordFixed(MERGE, {Nullifier(n1), Nullifier(n2)}, parents, outputs, <<Nullifier(m)>>)
  BY <1>1
<1> HIDE DEF outputs, parents
<1>4. Typed(outputs) /\ \A ref \in Range(outputs) : ref.objectType # CLAIM
  BY <1>0, <1>2, RefsOf DEF Typed
<1>5. \A n \in Range(parents) : n \in commitments /\ Active(NOTE, Nullifier(n))
  BY <1>2 DEF Merge
<1>6. {Nullifier(n1), Nullifier(n2)} = {Nullifier(n) : n \in Range(parents)}
  BY <1>2
<1>7. EventOK(MERGE, {Nullifier(n1), Nullifier(n2)}, parents, outputs)
  BY <1>4, <1>5, <1>6, ParentTypes, NoteEventOK
<1>8. Opened(outputs, <<Nullifier(m)>>)
  BY OpenedOutputs DEF outputs
<1>9. \A n \in {n1, n2} : n.role # WASTE
  BY RolesDiffer DEF MergeOutputs, Mergeable
<1>10. \A i \in DOMAIN parents : parents[i].role # WASTE
  BY <1>2, <1>9 DEF Range
<1>11. Balanced(MERGE, parents, outputs)
  BY MergeBalanced DEF parents, outputs, MappingsTypeOK
<1> QED
  BY <1>3, <1>4, <1>7, <1>8, <1>10, <1>11, FixedRecords

\* split
LEMMA SplitRecords ==
  ASSUME MappingsTypeOK, NEW n \in commitments, Split(n)
  PROVE  RecordsEvent
<1>1. PICK o \in SplitOutputs(n) :
        RecordFixed(SPLIT, {Nullifier(n)}, <<n>>, <<Ref(NOTE, o[1]), Ref(NOTE, o[2])>>,
                    <<Nullifier(o[1]), Nullifier(o[2])>>)
  BY DEF Split
<1>0. o[1] \in Notes /\ o[2] \in Notes
  BY DEF SplitOutputs
<1> DEFINE outputs == <<Ref(NOTE, o[1]), Ref(NOTE, o[2])>>
<1>2. Range(outputs) = {Ref(NOTE, o[1]), Ref(NOTE, o[2])} /\ DOMAIN outputs \subseteq {1, 2}
  BY Ranges
<1>3. RecordFixed(SPLIT, {Nullifier(n)}, <<n>>, outputs, <<Nullifier(o[1]), Nullifier(o[2])>>)
  BY <1>1
<1> HIDE DEF outputs
<1>4. Typed(outputs) /\ \A ref \in Range(outputs) : ref.objectType # CLAIM
  BY <1>0, <1>2, RefsOf DEF Typed
<1>5. Active(NOTE, Nullifier(n))
  BY DEF Split
<1>6. EventOK(SPLIT, {Nullifier(n)}, <<n>>, outputs)
  BY <1>4, <1>5, Ranges, ParentTypes, NoteEventOK
<1>7. Opened(outputs, <<Nullifier(o[1]), Nullifier(o[2])>>)
  BY OpenedOutputs DEF outputs
<1>8. n.role # WASTE
  BY RolesDiffer DEF SplitOutputs
<1>9. Balanced(SPLIT, <<n>>, outputs)
  BY SplitBalanced DEF outputs, MappingsTypeOK
<1> QED
  BY <1>3, <1>4, <1>6, <1>7, <1>8, <1>9, FixedRecords

\* process
LEMMA ProcessRecords ==
  ASSUME MappingsTypeOK, NEW n1 \in commitments, NEW n2 \in commitments,
         NEW n3 \in commitments, Process(n1, n2, n3)
  PROVE  RecordsEvent
<1> DEFINE nfs     == {Nullifier(n) : n \in {n1, n2, n3}}
           parents == <<n1, n2, n3>>
<1>1. PICK o \in ProcessOutputs(n1, n2, n3) :
        RecordPolicy(PROCESS, nfs, parents, <<Ref(NOTE, o[1]), Ref(NOTE, o[2])>>,
                     <<Nullifier(o[1]), Nullifier(o[2])>>, CanonicalRef)
  BY DEF Process
<1>0. o[1] \in Notes /\ o[2] \in Notes
  BY DEF ProcessOutputs
<1> DEFINE outputs == <<Ref(NOTE, o[1]), Ref(NOTE, o[2])>>
<1>2. /\ Range(outputs) = {Ref(NOTE, o[1]), Ref(NOTE, o[2])}
      /\ DOMAIN outputs \subseteq {1, 2}
      /\ Range(parents) = {n1, n2, n3}
  BY Ranges
<1>3. RecordPolicy(PROCESS, nfs, parents, outputs, <<Nullifier(o[1]), Nullifier(o[2])>>,
                   CanonicalRef)
  BY <1>1
<1> HIDE DEF outputs, parents
<1>4. Typed(outputs) /\ \A ref \in Range(outputs) : ref.objectType # CLAIM
  BY <1>0, <1>2, RefsOf DEF Typed
<1>5. \A n \in Range(parents) : n \in commitments /\ Active(NOTE, Nullifier(n))
  BY <1>2 DEF Process
<1>6. EventOK(PROCESS, nfs, parents, outputs)
  BY <1>2, <1>4, <1>5, ParentTypes, NoteEventOK
<1>7. IdSet(CLAIM, outputs) = {}
  BY <1>4 DEF IdSet
<1>8. /\ UNCHANGED <<blockNumber, entryIssuers, noteStatusByNf, voucherStatusByNf,
                     claimRegistered, policyRecords>>
      /\ PolicyInUse(CanonicalRef)
  BY DEF Process, PolicyInUse, UsablePolicy, PolicyOfKind, registryVars
<1>9. \A n \in {n1, n2, n3} : n.role # WASTE
  BY RolesDiffer DEF ProcessOutputs
<1>10. \A i \in DOMAIN parents : parents[i].role # WASTE
  BY <1>2, <1>9 DEF Range
<1>11. Opened(outputs, <<Nullifier(o[1]), Nullifier(o[2])>>)
  BY OpenedOutputs DEF outputs
<1>12. EventSound(PROCESS, parents, outputs, <<Nullifier(o[1]), Nullifier(o[2])>>, CanonicalRef)
  BY <1>4, <1>10, <1>11, RefFields DEF EventSound
<1>14. Balanced(PROCESS, parents, outputs)
  BY ProcessBalanced DEF parents, outputs, MappingsTypeOK
<1>13. Recorded(PROCESS, nfs, parents, outputs, <<Nullifier(o[1]), Nullifier(o[2])>>,
                CanonicalRef)
  BY <1>3, <1>6, <1>7, <1>8, <1>12, <1>14 DEF Recorded
<1> QED
  BY <1>13 DEF RecordsEvent

\* exit
LEMMA ExitRecords ==
  ASSUME MappingsTypeOK, NEW n \in commitments, Exit(n)
  PROVE  RecordsEvent
<1>1. Typed(<<>>) /\ \A ref \in Range(<<>>) : ref.objectType # CLAIM
  BY Ranges DEF Typed
<1>2. Active(NOTE, Nullifier(n)) /\ RecordFixed(EXIT, {Nullifier(n)}, <<n>>, <<>>, <<>>)
  BY DEF Exit
<1>3. EventOK(EXIT, {Nullifier(n)}, <<n>>, <<>>)
  BY <1>1, <1>2, Ranges, ParentTypes, NoteEventOK
<1>4. Balanced(EXIT, <<n>>, <<>>)
  BY Ranges, LeavingBalanced
<1> QED
  BY <1>1, <1>2, <1>3, <1>4, OpenedOutputs, FixedRecords

\* issue
LEMMA IssueRecords ==
  ASSUME MappingsTypeOK, NEW n \in commitments,
         NEW version \in DOMAIN IssueConfigs, Issue(n, version)
  PROVE  RecordsEvent
<1>1. PICK h \in IssueClaims(n, version) :
        /\ RecordPolicy(ISSUE, {Nullifier(n)}, <<n>>, <<Ref(CLAIM, h)>>, <<>>,
                        IssueRef(version))
        /\ claimRegistered' = claimRegistered \cup {h}
  BY DEF Issue
<1>0. h \in Claims
  <2>1. n.doc \in Documents
    BY DEF MappingsTypeOK, Notes
  <2>2. PICK nonce \in Nonces : h = Handle(n.doc, IssueRef(version), nonce)
    BY DEF IssueClaims
  <2> QED
    BY <2>1, <2>2 DEF Handle, Claims
<1> DEFINE outputs == <<Ref(CLAIM, h)>>
<1>2. Range(outputs) = {Ref(CLAIM, h)} /\ DOMAIN outputs \subseteq {1, 2}
  BY Ranges
<1>3. RecordPolicy(ISSUE, {Nullifier(n)}, <<n>>, outputs, <<>>, IssueRef(version))
  BY <1>1
<1> HIDE DEF outputs
<1>4. Typed(outputs)
  BY <1>0, <1>2, RefsOf DEF Typed
<1>5. Active(NOTE, Nullifier(n))
  BY DEF Issue
<1>6. EventOK(ISSUE, {Nullifier(n)}, <<n>>, outputs)
  BY <1>4, <1>5, Ranges, ParentTypes, NoteEventOK
<1>7. IdSet(CLAIM, outputs) = {h}
  BY <1>2, RefFields DEF IdSet
<1>8. /\ UNCHANGED <<blockNumber, entryIssuers, noteStatusByNf, voucherStatusByNf,
                     policyRecords>>
      /\ PolicyInUse(IssueRef(version))
      /\ IssuePolicy(IssueRef(version))
  BY DEF Issue, PolicyInUse, IssuePolicy, UsablePolicy, PolicyOfKind, registryVars
<1>9. Backed(ISSUE, <<n>>, outputs, IssueRef(version), h) /\ h.policy = IssueRef(version)
  <2>1. /\ Qualifies(n, version)
        /\ \E nonce \in Nonces : h = Handle(n.doc, IssueRef(version), nonce)
    BY DEF IssueClaims
  <2>2. h.doc = n.doc /\ h.policy = IssueRef(version)
    BY <2>1 DEF Handle
  <2>3. IssueRef(version).version = version
    BY DEF IssueRef, PolicyRef
  <2> QED
    BY <2>1, <2>2, <2>3 DEF Backed, Qualifies, outputs
<1>10. Opened(outputs, <<>>)
  BY OpenedOutputs DEF outputs
<1>11. n.role # WASTE
  BY RolesDiffer DEF IssueClaims, Qualifies
<1>12. \A k : Ref(CLAIM, k) \in Range(outputs) => k = h
  BY <1>2, RefFields
<1>13. EventSound(ISSUE, <<n>>, outputs, <<>>, IssueRef(version))
  BY <1>8, <1>9, <1>10, <1>11, <1>12 DEF EventSound
<1>15. Balanced(ISSUE, <<n>>, outputs)
  BY <1>2, RefFields, LeavingBalanced
<1>14. Recorded(ISSUE, {Nullifier(n)}, <<n>>, outputs, <<>>, IssueRef(version))
  BY <1>1, <1>3, <1>6, <1>7, <1>8, <1>13, <1>15 DEF Recorded
<1> QED
  BY <1>14 DEF RecordsEvent

\* Nothing the invariant reads changes but possibly the statuses.
LEMMA SameHistory ==
  ASSUME LedgerInv, UNCHANGED <<commitments, voucherCommitments, producerOf, noteSpentIn,
                                voucherSpentIn, claimRegistered, nextAuditRecordId,
                                auditRecords>>
  PROVE  HistoryOK' /\ ConsumedOnce' /\ ProducedOnce' /\ Acyclic'
<1>1. RecordIds' = RecordIds
  BY DEF RecordIds
<1>2. \A x : ParentRefs(x)' = ParentRefs(x) /\ OutputRefs(x)' = OutputRefs(x)
  BY DEF ParentRefs, OutputRefs
<1>3. \A ref : SpentIn(ref)' = SpentIn(ref)
  BY DEF SpentIn
<1>4. Objects' = Objects
  BY DEF Objects
<1>5. HistoryOK'
  BY <1>1 DEF LedgerInv, HistoryOK
<1>6. ConsumedOnce'
  BY <1>1, <1>2, <1>3 DEF LedgerInv, ConsumedOnce
<1>7. ProducedOnce'
  BY <1>1, <1>2, <1>4 DEF LedgerInv, ProducedOnce, At
<1>8. Acyclic'
  BY <1>1, <1>2 DEF LedgerInv, Acyclic
<1> QED
  BY <1>5, <1>6, <1>7, <1>8

\* setStatus
LEMMA SetStatusInv ==
  ASSUME LedgerInv, SetsStatus
  PROVE  LedgerInv'
<1>1. /\ HistoryOK' /\ ConsumedOnce' /\ ProducedOnce' /\ Acyclic'
      /\ UNCHANGED <<noteSpentIn, voucherSpentIn>>
  BY SameHistory DEF SetsStatus, SetStatus
<1>2. BlockedIsUnspent /\ MappingsTypeOK
  BY DEF LedgerInv
<1>3. ASSUME NEW n \in Notes, NEW new \in Statuses, SetStatus(NOTE, Nullifier(n), new)
      PROVE  BlockedIsUnspent' /\ MappingsTypeOK'
  <2>1. /\ noteStatusByNf' = Put(noteStatusByNf, {Nullifier(n)}, new)
        /\ UNCHANGED voucherStatusByNf
        /\ At(noteSpentIn, Nullifier(n)) = 0
    BY <1>3, TypesDiffer DEF SetStatus
  <2>2. ASSUME NEW s \in DOMAIN noteStatusByNf', noteStatusByNf'[s] # ACTIVE
        PROVE  At(noteSpentIn, s) = 0
    BY <1>2, <2>1, <2>2 DEF BlockedIsUnspent, Put
  <2>3. BlockedIsUnspent'
    BY <1>1, <1>2, <2>1, <2>2 DEF BlockedIsUnspent, At
  <2>4. IsMapping(noteStatusByNf', NoteNfs, Statuses)
    BY <1>2, <2>1, PutsMapping DEF MappingsTypeOK, NoteNfs
  <2> QED
    BY <1>1, <1>2, <1>3, <2>1, <2>3, <2>4 DEF MappingsTypeOK, SetStatus, RecordIds
<1>4. ASSUME NEW v \in Vouchers, NEW new \in Statuses,
             SetStatus(VOUCHER, VoucherNullifier(v), new)
      PROVE  BlockedIsUnspent' /\ MappingsTypeOK'
  <2>1. /\ voucherStatusByNf' = Put(voucherStatusByNf, {VoucherNullifier(v)}, new)
        /\ UNCHANGED noteStatusByNf
        /\ At(voucherSpentIn, VoucherNullifier(v)) = 0
    BY <1>4, TypesDiffer DEF SetStatus
  <2>2. ASSUME NEW s \in DOMAIN voucherStatusByNf', voucherStatusByNf'[s] # ACTIVE
        PROVE  At(voucherSpentIn, s) = 0
    BY <1>2, <2>1, <2>2 DEF BlockedIsUnspent, Put
  <2>3. BlockedIsUnspent'
    BY <1>1, <1>2, <2>1, <2>2 DEF BlockedIsUnspent, At
  <2>4. IsMapping(voucherStatusByNf', VoucherNfs, Statuses)
    BY <1>2, <2>1, PutsMapping DEF MappingsTypeOK, VoucherNfs
  <2> QED
    BY <1>1, <1>2, <1>4, <2>1, <2>3, <2>4 DEF MappingsTypeOK, SetStatus, RecordIds
<1> QED
  BY <1>1, <1>3, <1>4 DEF SetsStatus, LedgerInv

\* A step that leaves the history and the statuses alone.
LEMMA ElsewhereInv ==
  ASSUME LedgerInv, Elsewhere
  PROVE  LedgerInv'
<1>1. HistoryOK' /\ ConsumedOnce' /\ ProducedOnce' /\ Acyclic'
  BY SameHistory DEF Elsewhere
<1>2. BlockedIsUnspent'
  BY DEF Elsewhere, LedgerInv, BlockedIsUnspent, At
<1>3. MappingsTypeOK'
  BY DEF Elsewhere, LedgerInv, MappingsTypeOK, RecordIds
<1> QED
  BY <1>1, <1>2, <1>3 DEF LedgerInv

-----------------------------------------------------------------------------
\* Every step of the ledger records an event, sets a status, or does neither.
LEMMA LedgerSteps ==
  ASSUME MappingsTypeOK, [Next]_vars
  PROVE  RecordsEvent \/ SetsStatus \/ Elsewhere
<1>1. CASE NextBlock
  BY <1>1 DEF NextBlock, Elsewhere, MappingsTypeOK
<1>2. ASSUME NEW account \in Issuers, NEW allowed, SetEntryIssuer(account, allowed)
      PROVE  Elsewhere
  BY <1>2 DEF SetEntryIssuer, Elsewhere, MappingsTypeOK
<1>3. ASSUME NEW n \in commitments, NEW version \in DOMAIN IssueConfigs, Issue(n, version)
      PROVE  RecordsEvent
  BY <1>3, IssueRecords
<1>4. ASSUME NEW n \in commitments, Transfer(n) \/ Split(n) \/ Exit(n)
      PROVE  RecordsEvent
  BY <1>4, TransferRecords, SplitRecords, ExitRecords
<1>5. ASSUME NEW v \in voucherCommitments, Proceed(v) \/ Recall(v)
      PROVE  RecordsEvent
  <2>1. CASE Proceed(v)
    BY <2>1, ResolveRecords DEF Proceed, Proceeds, ResolveOutputs, Note
  <2>2. CASE Recall(v)
    BY <2>2, ResolveRecords DEF Recall, ResolveOutputs, Note
  <2> QED
    BY <1>5, <2>1, <2>2
<1>6. ASSUME NEW n \in commitments \cup ForeknownNotes, NEW new \in {ACTIVE, FROZEN, REVOKED},
             SetStatus(NOTE, Nullifier(n), new)
      PROVE  SetsStatus
  BY <1>6, LedgerAssumption DEF SetsStatus, Statuses, MappingsTypeOK
<1>7. ASSUME NEW v \in voucherCommitments, NEW new \in {ACTIVE, FROZEN, REVOKED},
             SetStatus(VOUCHER, VoucherNullifier(v), new)
      PROVE  SetsStatus
  BY <1>7 DEF SetsStatus, Statuses, MappingsTypeOK
<1>8. CASE PolicyAdministration
  BY <1>8 DEF PolicyAdministration, ledgerVars, Elsewhere, MappingsTypeOK
<1>9. CASE UNCHANGED vars
  BY <1>9 DEF vars, ledgerVars, Elsewhere, MappingsTypeOK
<1> QED
  BY <1>1, <1>2, <1>3, <1>4, <1>5, <1>6, <1>7, <1>8, <1>9, EntryRecords, MergeRecords,
     ProcessRecords DEF Next

\* Every step of the ledger keeps the inductive invariant.
LEMMA LedgerNextInv == LedgerInv /\ [Next]_vars => LedgerInv'
<1> SUFFICES ASSUME LedgerInv, [Next]_vars PROVE LedgerInv'
  OBVIOUS
<1>1. RecordsEvent \/ SetsStatus \/ Elsewhere
  BY LedgerSteps DEF LedgerInv
<1>2. CASE RecordsEvent
  BY <1>2, RecordedInv DEF RecordsEvent
<1> QED
  BY <1>1, <1>2, SetStatusInv, ElsewhereInv

\* The inductive invariant holds in every reachable state of the ledger.
THEOREM LedgerInvariant == Spec => []LedgerInv
<1> QED
  BY InitLedgerInv, LedgerNextInv, PTL DEF Spec

\* Every mapping of the ledger keeps its declared type.
THEOREM LedgerTypes == Spec => []MappingsTypeOK
<1>1. LedgerInv => MappingsTypeOK
  BY DEF LedgerInv
<1> QED
  BY <1>1, LedgerInvariant, PTL

\* A spend value that is frozen or revoked is unspent, whichever came first.
THEOREM LedgerBlocked == Spec => []BlockedIsUnspent
<1>1. LedgerInv => BlockedIsUnspent
  BY DEF LedgerInv
<1> QED
  BY <1>1, LedgerInvariant, PTL

\* Every object was made once and is consumed at most once, by a later record: no
\* double spend, whether in one transaction or in two.
THEOREM LedgerLineage == Spec => []LineageSound
<1>1. LedgerInv => LineageSound
  BY DEF LedgerInv, LineageSound
<1> QED
  BY <1>1, LedgerInvariant, PTL

-----------------------------------------------------------------------------
\* Recording an event adds to the history and changes nothing in it.
LEMMA RecordedAppends ==
  ASSUME LedgerInv, NEW kind, NEW spends, NEW parents, NEW outputs, NEW futureNfs,
         NEW policyRef, Recorded(kind, spends, parents, outputs, futureNfs, policyRef)
  PROVE  /\ \A aid \in DOMAIN auditRecords : auditRecords'[aid] = auditRecords[aid]
         /\ \A ref \in DOMAIN producerOf : producerOf'[ref] = producerOf[ref]
         /\ \A s \in DOMAIN noteSpentIn : noteSpentIn'[s] = noteSpentIn[s]
         /\ \A s \in DOMAIN voucherSpentIn : voucherSpentIn'[s] = voucherSpentIn[s]
         /\ noteTree.acceptedRoots \subseteq noteTree'.acceptedRoots
         /\ voucherTree.acceptedRoots \subseteq voucherTree'.acceptedRoots
<1>0. PICK aid : aid = nextAuditRecordId
  OBVIOUS
<1>1. \A x \in DOMAIN auditRecords : auditRecords'[x] = auditRecords[x]
  BY <1>0, RecordedRefs DEF Recorded, RecordPolicy, LedgerInv, HistoryOK, Put
<1>2. \A ref \in DOMAIN producerOf : producerOf'[ref] = producerOf[ref]
  BY <1>0, RecordedProducers
<1>3. /\ \A s \in DOMAIN noteSpentIn : noteSpentIn[s] # 0
      /\ \A s \in DOMAIN voucherSpentIn : voucherSpentIn[s] # 0
  BY DEF LedgerInv, MappingsTypeOK, IsMapping
<1>4. \A s \in spends : Unspent(ParentType(kind), s)
  BY DEF Recorded, EventOK, Active
<1>5. \A s \in DOMAIN noteSpentIn : noteSpentIn'[s] = noteSpentIn[s]
  <2>1. CASE ParentType(kind) = NOTE
    <3>1. noteSpentIn' = Put(noteSpentIn, spends, aid)
      BY <1>0, <2>1, TypesDiffer DEF Recorded, RecordPolicy
    <3>2. \A s \in DOMAIN noteSpentIn : s \notin spends
      BY <1>3, <1>4, <2>1 DEF Unspent, At
    <3> QED
      BY <3>1, <3>2 DEF Put
  <2>2. CASE ParentType(kind) = VOUCHER
    BY <2>2 DEF Recorded, RecordPolicy
  <2> QED
    BY <2>1, <2>2, TypesDiffer
<1>6. \A s \in DOMAIN voucherSpentIn : voucherSpentIn'[s] = voucherSpentIn[s]
  <2>1. CASE ParentType(kind) = VOUCHER
    <3>1. voucherSpentIn' = Put(voucherSpentIn, spends, aid)
      BY <1>0, <2>1 DEF Recorded, RecordPolicy
    <3>2. \A s \in DOMAIN voucherSpentIn : s \notin spends
      BY <1>3, <1>4, <2>1, TypesDiffer DEF Unspent, At
    <3> QED
      BY <3>1, <3>2 DEF Put
  <2>2. CASE ParentType(kind) = NOTE
    BY <2>2, TypesDiffer DEF Recorded, RecordPolicy
  <2> QED
    BY <2>1, <2>2, TypesDiffer
<1>7. /\ noteTree.acceptedRoots \subseteq noteTree'.acceptedRoots
      /\ voucherTree.acceptedRoots \subseteq voucherTree'.acceptedRoots
  BY DEF Recorded, RecordPolicy, AppendAll
<1> QED
  BY <1>1, <1>2, <1>5, <1>6, <1>7

\* Records, producers, spends and accepted roots are never overwritten.
THEOREM LedgerAppendOnly == Spec => HistoryAppendOnly
<1> DEFINE Appends ==
      /\ \A aid \in DOMAIN auditRecords : auditRecords'[aid] = auditRecords[aid]
      /\ \A ref \in DOMAIN producerOf : producerOf'[ref] = producerOf[ref]
      /\ \A s \in DOMAIN noteSpentIn : noteSpentIn'[s] = noteSpentIn[s]
      /\ \A s \in DOMAIN voucherSpentIn : voucherSpentIn'[s] = voucherSpentIn[s]
      /\ \A tree \in {<<noteTree, noteTree'>>, <<voucherTree, voucherTree'>>} :
           tree[1].acceptedRoots \subseteq tree[2].acceptedRoots
<1>1. ASSUME LedgerInv, [Next]_vars
      PROVE  Appends
  <2>1. RecordsEvent \/ SetsStatus \/ Elsewhere
    BY <1>1, LedgerSteps DEF LedgerInv
  <2>2. CASE RecordsEvent
    BY <1>1, <2>2, RecordedAppends DEF RecordsEvent
  <2>3. CASE SetsStatus
    <3>1. UNCHANGED <<noteTree, voucherTree, producerOf, noteSpentIn, voucherSpentIn,
                      auditRecords>>
      BY <2>3 DEF SetsStatus, SetStatus
    <3> QED
      BY <3>1
  <2>4. CASE Elsewhere
    BY <2>4 DEF Elsewhere
  <2> QED
    BY <2>1, <2>2, <2>3, <2>4
<1> QED
  BY <1>1, LedgerInvariant, PTL DEF Spec, HistoryAppendOnly

\* The registry inside the ledger behaves as the registry alone, so that what
\* the theorems of the Policy registry above show holds of the ledger.
THEOREM LedgerKeepsRegistry == Spec => RegistrySpec
<1>1. Init => RegistryInit
  BY DEF Init
<1>2. ASSUME [Next]_vars
      PROVE  [RegistryNext]_registryVars
  <2>1. CASE PolicyAdministration
    BY <2>1 DEF PolicyAdministration
  <2>2. CASE UNCHANGED vars
    BY <2>2 DEF vars
  <2>3. CASE Next /\ ~PolicyAdministration
    <3>1. UNCHANGED registryVars
      BY <2>3 DEF Next, NextBlock, SetEntryIssuer, Entry, Transfer, Split, Exit, Issue,
         Merge, Process, Proceed, Recall, SetStatus, RecordFixed, registryVars
    <3> QED
      BY <3>1
  <2> QED
    BY <1>2, <2>1, <2>2, <2>3
<1> QED
  BY <1>1, <1>2, PTL DEF Spec, RegistrySpec

-----------------------------------------------------------------------------
\* What the circuits proved of each event stays true of its record.
RecordsSound ==
  \A aid \in RecordIds :
    EventSound(auditRecords[aid].eventKind, auditRecords[aid].parents,
               auditRecords[aid].outputRefs, auditRecords[aid].futureNfs,
               auditRecords[aid].policyRef)

\* A policy can be disabled and superseded, not lost or changed.
LEMMA IssuePoliciesStay ==
  ASSUME RegistryInv, RegistryInv', [Next]_vars, NEW ref, IssuePolicy(ref)
  PROVE  IssuePolicy(ref)'
<1>1. [RegistryNext]_registryVars
  <2>1. CASE PolicyAdministration
    BY <2>1 DEF PolicyAdministration
  <2>2. CASE UNCHANGED vars
    BY <2>2 DEF vars
  <2>3. CASE Next /\ ~PolicyAdministration
    BY <2>3 DEF Next, NextBlock, SetEntryIssuer, Entry, Transfer, Split, Exit, Issue,
       Merge, Process, Proceed, Recall, SetStatus, RecordFixed, registryVars
  <2> QED
    BY <2>1, <2>2, <2>3
<1>2. ref \in DOMAIN policyRecords'
  <2>1. ref \in DOMAIN policyRecords
    BY DEF IssuePolicy
  <2> QED
    BY <1>1, <2>1 DEF RegistryNext, RegisterPolicyAuthority, ReservePolicy,
       ReservePolicyVersion, RegisterPolicy, SetPolicyGrant, DisablePolicy, registryVars, Put
<1>3. ref.kind = ISSUE
  BY DEF IssuePolicy, RegistryInv, FamilyKindFixed
<1>4. /\ policyRecords'[ref].eventKind = ISSUE
      /\ ArityOK(ISSUE, policyRecords'[ref].inputArity, policyRecords'[ref].outputArity)
  BY <1>2, <1>3 DEF RegistryInv, FamilyKindFixed
<1> QED
  BY <1>2, <1>4 DEF IssuePolicy, ArityOK, PROCESS, ISSUE

\* Nor does what an event proved depend on what comes later.
LEMMA SoundStays ==
  ASSUME RegistryInv, RegistryInv', [Next]_vars, commitments \subseteq commitments',
         NEW kind, NEW parents, NEW outputs, NEW futureNfs, NEW policyRef,
         EventSound(kind, parents, outputs, futureNfs, policyRef)
  PROVE  EventSound(kind, parents, outputs, futureNfs, policyRef)'
<1>1. ASSUME NEW h, Ref(CLAIM, h) \in Range(outputs)
      PROVE  Backed(kind, parents, outputs, policyRef, h)' /\ IssuePolicy(h.policy)'
  <2>1. Backed(kind, parents, outputs, policyRef, h) /\ IssuePolicy(h.policy)
    BY <1>1 DEF EventSound
  <2>2. IssuePolicy(h.policy)'
    BY <2>1, IssuePoliciesStay
  <2>3. Backed(kind, parents, outputs, policyRef, h)'
    BY <2>1 DEF Backed
  <2> QED
    BY <2>2, <2>3
<1> QED
  BY <1>1 DEF EventSound

\* Every step keeps the records sound.
LEMMA RecordsStaySound ==
  ASSUME LedgerInv, RegistryInv, RegistryInv', RecordsSound, [Next]_vars
  PROVE  RecordsSound'
<1>1. RecordsEvent \/ SetsStatus \/ Elsewhere
  BY LedgerSteps DEF LedgerInv
<1>2. CASE RecordsEvent
  <2>1. PICK kind, spends, parents, outputs, futureNfs, policyRef :
          Recorded(kind, spends, parents, outputs, futureNfs, policyRef)
    BY <1>2 DEF RecordsEvent
  <2>2. PICK aid : aid = nextAuditRecordId
    OBVIOUS
  <2>3. PICK record : /\ record = [eventKind |-> kind, policyRef |-> policyRef,
                                   outputRefs |-> outputs, parents |-> parents,
                                   futureNfs |-> futureNfs]
                      /\ auditRecords' = Put(auditRecords, {aid}, record)
                      /\ commitments \subseteq commitments'
    BY <2>1, <2>2 DEF Recorded, RecordPolicy
  <2>4. RecordIds' = RecordIds \cup {aid} /\ aid \notin RecordIds
    BY <2>1, <2>2, RecordedRefs
  <2>5. /\ auditRecords'[aid] = record
        /\ \A x \in RecordIds : auditRecords'[x] = auditRecords[x]
    BY <2>3, <2>4 DEF Put, LedgerInv, HistoryOK
  <2>6. EventSound(kind, parents, outputs, futureNfs, policyRef)'
    <3>1. EventSound(kind, parents, outputs, futureNfs, policyRef)
      BY <2>1 DEF Recorded
    <3> QED
      BY <2>3, <3>1, SoundStays
  <2>7. /\ record.eventKind = kind /\ record.parents = parents
        /\ record.outputRefs = outputs /\ record.futureNfs = futureNfs
        /\ record.policyRef = policyRef
    BY <2>3
  <2>8. ASSUME NEW x \in RecordIds
        PROVE  EventSound(auditRecords[x].eventKind, auditRecords[x].parents,
                          auditRecords[x].outputRefs, auditRecords[x].futureNfs,
                          auditRecords[x].policyRef)'
    <3>1. PICK r : r = auditRecords[x]
      OBVIOUS
    <3>2. EventSound(r.eventKind, r.parents, r.outputRefs, r.futureNfs, r.policyRef)
      BY <3>1 DEF RecordsSound
    <3>3. EventSound(r.eventKind, r.parents, r.outputRefs, r.futureNfs, r.policyRef)'
      BY <2>3, <3>2, SoundStays
    <3>4. auditRecords'[x] = r
      BY <2>5, <3>1
    <3> QED
      BY <3>3, <3>4
  <2> QED
    BY <2>4, <2>5, <2>6, <2>7, <2>8 DEF RecordsSound
<1>3. CASE SetsStatus \/ Elsewhere
  <2>1. UNCHANGED <<nextAuditRecordId, auditRecords, commitments>>
    BY <1>3 DEF SetsStatus, SetStatus, Elsewhere
  <2>2. ASSUME NEW x \in RecordIds
        PROVE  EventSound(auditRecords[x].eventKind, auditRecords[x].parents,
                          auditRecords[x].outputRefs, auditRecords[x].futureNfs,
                          auditRecords[x].policyRef)'
    <3>1. PICK r : r = auditRecords[x]
      OBVIOUS
    <3>2. EventSound(r.eventKind, r.parents, r.outputRefs, r.futureNfs, r.policyRef)
      BY <3>1 DEF RecordsSound
    <3>3. EventSound(r.eventKind, r.parents, r.outputRefs, r.futureNfs, r.policyRef)'
      BY <2>1, <3>2, SoundStays
    <3> QED
      BY <2>1, <3>1, <3>3
  <2> QED
    BY <2>1, <2>2 DEF RecordsSound, RecordIds
<1> QED
  BY <1>1, <1>2, <1>3

LEMMA RecordsAreSound == Spec => [](LedgerInv /\ RegistryInv /\ RecordsSound)
<1>1. Init => RecordsSound
  BY DEF Init, RecordsSound, RecordIds
<1>2. LedgerInv /\ RegistryInv /\ RegistryInv' /\ RecordsSound /\ [Next]_vars => RecordsSound'
  BY RecordsStaySound
<1> QED
  BY <1>1, <1>2, LedgerInvariant, LedgerKeepsRegistry, RegistryInvariant, PTL DEF Spec

\* Waste leaves the chain: only Exit consumes a waste note, whoever recovers or
\* merges what.
THEOREM LedgerWasteOnlyExits == Spec => []WasteOnlyExits
<1>1. LedgerInv /\ RecordsSound => WasteOnlyExits
  <2> SUFFICES ASSUME RecordsSound,
                      NEW aid \in RecordIds, NEW ref \in ParentRefs(aid), ref.rawId.role = WASTE
               PROVE  auditRecords[aid].eventKind = EXIT
    BY DEF WasteOnlyExits
  <2>1. PICK i \in DOMAIN auditRecords[aid].parents : ref.rawId = auditRecords[aid].parents[i]
    BY RefFields DEF ParentRefs, OutputRefs
  <2> QED
    BY <2>1 DEF RecordsSound, EventSound
<1> QED
  BY <1>1, RecordsAreSound, PTL

\* What the auditor decrypts from a record are the spend values of its outputs,
\* position by position.
THEOREM LedgerFutureNfs == Spec => []FutureNfsOpenOutputs
<1>1. RecordsSound => FutureNfsOpenOutputs
  BY DEF RecordsSound, EventSound, Opened, FutureNfsOpenOutputs
<1> QED
  BY <1>1, RecordsAreSound, PTL

\* A product passport verifies ever after it was issued, and the lot it names met
\* the published thresholds of its policy version.
THEOREM LedgerClaimsBacked == Spec => []ClaimsAreBacked
<1>1. ASSUME LedgerInv, RegistryInv, RecordsSound
      PROVE  ClaimsAreBacked
  <2> SUFFICES ASSUME NEW h, Ref(CLAIM, h) \in DOMAIN producerOf, h \in claimRegistered
               PROVE  /\ DPPVerifies(h)
                      /\ \E n \in commitments :
                           /\ auditRecords[producerOf[Ref(CLAIM, h)]].parents = <<n>>
                           /\ n.doc = h.doc
                           /\ MeetsThresholds(n.state, h.policy.version)
    <3>1. \A h \in claimRegistered : Ref(CLAIM, h) \in DOMAIN producerOf
      BY <1>1 DEF LedgerInv, HistoryOK
    <3>2. ASSUME NEW ref \in DOMAIN producerOf, ref.objectType = CLAIM
          PROVE  ref.rawId \in claimRegistered
      <4>1. PICK h \in claimRegistered : ref = Ref(CLAIM, h)
        BY <1>1, <3>2 DEF LedgerInv, HistoryOK
      <4> QED
        BY <4>1, RefFields
    <3> QED
      BY <3>1, <3>2 DEF ClaimsAreBacked
  <2>1. PICK aid : aid = producerOf[Ref(CLAIM, h)]
    OBVIOUS
  <2>2. aid \in RecordIds /\ Ref(CLAIM, h) \in OutputRefs(aid)
    <3>1. PICK x \in RecordIds : Ref(CLAIM, h) \in OutputRefs(x)
      BY <1>1 DEF LedgerInv, ProducedOnce
    <3>2. At(producerOf, Ref(CLAIM, h)) = x
      BY <1>1, <3>1 DEF LedgerInv, ProducedOnce
    <3> QED
      BY <2>1, <3>1, <3>2 DEF At
  <2>3. /\ Backed(auditRecords[aid].eventKind, auditRecords[aid].parents,
                  auditRecords[aid].outputRefs, auditRecords[aid].policyRef, h)
        /\ IssuePolicy(h.policy)
    BY <1>1, <2>2 DEF RecordsSound, EventSound, OutputRefs
  <2>4. At(producerOf, Ref(CLAIM, h)) = aid /\ aid # 0
    BY <2>1, <2>2 DEF At, RecordIds
  <2>5. DPPVerifies(h)
    BY <2>2, <2>3, <2>4 DEF DPPVerifies, Backed, IssuePolicy
  <2> QED
    BY <2>1, <2>3, <2>5 DEF Backed
<1> QED
  BY <1>1, RecordsAreSound, PTL

-----------------------------------------------------------------------------
\* A tree holds the ids of a set, each once, and accepts a root for every number
\* of leaves it ever had.
TreeHolds(tree, ids) ==
  /\ tree.leaves \in Seq(ids)
  /\ Range(tree.leaves) = ids
  /\ IsInjective(tree.leaves)
  /\ tree.acceptedRoots = 0..Len(tree.leaves)

TreesHold == TreeHolds(noteTree, commitments) /\ TreeHolds(voucherTree, voucherCommitments)

\* The ranks of the members of a finite set of numbers are 1, 2, ... without a gap
\* and without repetition.
LEMMA RanksAreDense ==
  ASSUME NEW S \in SUBSET Nat, IsFiniteSet(S)
  PROVE  LET rank(i) == Cardinality({j \in S : j <= i}) IN
           /\ Cardinality(S) \in Nat
           /\ \A i \in S : rank(i) \in 1..Cardinality(S)
           /\ \A i, j \in S : rank(i) = rank(j) => i = j
           /\ \A k \in 1..Cardinality(S) : \E i \in S : rank(i) = k
<1> DEFINE below(i) == {j \in S : j <= i}
           r == [i \in S |-> Cardinality(below(i))]
           n == Cardinality(S)
<1>1. n \in Nat
  BY FS_CardinalityType
<1>2. \A i \in S : IsFiniteSet(below(i)) /\ below(i) \in SUBSET S
  BY FS_Subset
<1>3. ASSUME NEW i \in S PROVE Cardinality(below(i)) \in 1..n
  <2>1. IsFiniteSet(below(i)) /\ below(i) \in SUBSET S /\ below(i) # {}
    BY <1>2
  <2> HIDE DEF below
  <2>2. Cardinality(below(i)) \in Nat /\ Cardinality(below(i)) # 0 /\ Cardinality(below(i)) <= n
    BY <2>1, FS_CardinalityType, FS_EmptySet, FS_Subset
  <2> QED
    BY <1>1, <2>2
<1>4. ASSUME NEW i \in S, NEW j \in S, i < j
      PROVE  Cardinality(below(i)) # Cardinality(below(j))
  <2>1. below(i) \in SUBSET below(j) /\ j \in below(j) /\ j \notin below(i)
    <3>1. i \in Nat /\ j \in Nat /\ \A k \in S : k \in Nat /\ (k <= i => k <= j)
      BY <1>4
    <3>2. j <= j /\ ~(j <= i)
      BY <1>4, <3>1
    <3> QED
      BY <3>1, <3>2
  <2>2. IsFiniteSet(below(j))
    BY <1>2
  <2> HIDE DEF below
  <2> QED
    BY <2>1, <2>2, FS_Subset
<1>5. \A i, j \in S : Cardinality(below(i)) = Cardinality(below(j)) => i = j
  <2> SUFFICES ASSUME NEW i \in S, NEW j \in S, Cardinality(below(i)) = Cardinality(below(j))
               PROVE  i = j
    OBVIOUS
  <2>1. i < j \/ j < i \/ i = j
    OBVIOUS
  <2> HIDE DEF below
  <2> QED
    BY <1>4, <2>1
<1>6. IsFiniteSet(1..n) /\ Cardinality(1..n) = n
  BY <1>1, FS_Interval
<1>7. r \in Injection(S, 1..n)
  <2> HIDE DEF below, n
  <2> QED
    BY <1>3, <1>5 DEF Injection, IsInjective
<1>8. r \in Surjection(S, 1..n)
  <2> HIDE DEF r
  <2> QED
    BY <1>6, <1>7, FS_Injection
<1>9. \A k \in 1..n : \E i \in S : Cardinality(below(i)) = k
  <2> HIDE DEF below, n
  <2> QED
    BY <1>8 DEF Surjection
<1> QED
  BY <1>1, <1>3, <1>5, <1>9

\* The ids of a type, in order, are those of the set, each once when no two outputs
\* are the same object.
LEMMA IdsInOrder ==
  ASSUME NEW type, NEW outputs, DOMAIN outputs \subseteq {1, 2}, Range(outputs) \subseteq Refs
  PROVE  LET ids == IdsOf(type, outputs) IN
           /\ \E n \in Nat : DOMAIN ids = 1..n /\ ids = [k \in 1..n |-> ids[k]]
           /\ Range(ids) = IdSet(type, outputs)
           /\ Distinct(outputs) => IsInjective(ids)
<1> DEFINE S == {i \in DOMAIN outputs : outputs[i].objectType = type}
           rank(i) == Cardinality({j \in S : j <= i})
           n == Cardinality(S)
           at(k) == CHOOSE i \in S : rank(i) = k
           ids == [k \in 1..n |-> outputs[at(k)].rawId]
<1>1. S \in SUBSET Nat /\ IsFiniteSet(S)
  <2>1. S \in SUBSET (1..2)
    OBVIOUS
  <2> HIDE DEF S, rank, n, at, ids
  <2>2. IsFiniteSet(1..2)
    <3>1. 1 \in Int /\ 2 \in Int
      OBVIOUS
    <3> QED
      BY <3>1, FS_Interval
  <2>3. S \subseteq Nat
    BY <2>1
  <2> QED
    BY <2>1, <2>2, <2>3, FS_Subset
<1>2. /\ n \in Nat
      /\ \A i \in S : rank(i) \in 1..n
      /\ \A i, j \in S : rank(i) = rank(j) => i = j
      /\ \A k \in 1..n : \E i \in S : rank(i) = k
  <2> HIDE DEF S
  <2> QED
    BY <1>1, RanksAreDense
<1>3. IdsOf(type, outputs) = ids
  BY DEF IdsOf
<1>4. /\ \A k \in 1..n : at(k) \in S /\ rank(at(k)) = k
      /\ \A i \in S : at(rank(i)) = i
  <2> HIDE DEF S, rank, n
  <2>1. \A k \in 1..n : at(k) \in S /\ rank(at(k)) = k
    BY <1>2
  <2> QED
    BY <1>2, <2>1
<1>5. Range(ids) = {outputs[i].rawId : i \in S}
  <2> HIDE DEF S, rank, n, at
  <2>1. DOMAIN ids = 1..n /\ \A k \in 1..n : \E i \in S : ids[k] = outputs[i].rawId
    BY <1>4
  <2>2. \A i \in S : rank(i) \in 1..n /\ ids[rank(i)] = outputs[i].rawId
    BY <1>2, <1>4
  <2> HIDE DEF ids
  <2> QED
    BY <2>1, <2>2 DEF Range
<1>6. Range(ids) = IdSet(type, outputs)
  <2> HIDE DEF ids
  <2> QED
    BY <1>5 DEF IdSet, Range
<1>7. ASSUME Distinct(outputs) PROVE IsInjective(ids)
  <2>1. \A i, j \in S : outputs[i].rawId = outputs[j].rawId => i = j
    <3> SUFFICES ASSUME NEW i \in S, NEW j \in S, outputs[i].rawId = outputs[j].rawId
                 PROVE  i = j
      OBVIOUS
    <3>1. /\ i \in DOMAIN outputs /\ j \in DOMAIN outputs
          /\ outputs[i].objectType = outputs[j].objectType
      OBVIOUS
    <3>2. outputs[i] \in Refs /\ outputs[j] \in Refs
      BY <3>1 DEF Range
    <3>3. outputs[i] = outputs[j]
      BY <3>1, <3>2, RefsTyped
    <3> QED
      BY <1>7, <3>1, <3>3 DEF Distinct
  <2> HIDE DEF S, rank, n, at
  <2>2. ASSUME NEW k \in 1..n, NEW l \in 1..n, ids[k] = ids[l] PROVE k = l
    <3>1. at(k) = at(l)
      BY <1>4, <2>1, <2>2
    <3> QED
      BY <1>4, <3>1
  <2> QED
    BY <2>2 DEF IsInjective
<1>8. DOMAIN ids = 1..n /\ ids = [k \in 1..n |-> ids[k]]
  OBVIOUS
<1> HIDE DEF ids
<1> QED
  BY <1>2, <1>3, <1>6, <1>7, <1>8

\* Appending new ids to a tree that holds a set.
LEMMA AppendAllHolds ==
  ASSUME NEW tree, NEW S, TreeHolds(tree, S), NEW ids, NEW n \in Nat,
         DOMAIN ids = 1..n, ids = [k \in 1..n |-> ids[k]],
         IsInjective(ids), Range(ids) \cap S = {}
  PROVE  /\ TreeHolds(AppendAll(tree, ids), S \cup Range(ids))
         /\ Len(AppendAll(tree, ids).leaves) = Len(tree.leaves) + Len(ids)
<1> DEFINE T == S \cup Range(ids)
           s == tree.leaves
           leaves == s \o ids
<1>1. s \in Seq(T) /\ DOMAIN s = 1..Len(s) /\ Len(s) \in Nat
  BY DEF TreeHolds
<1>2. ids \in Seq(T) /\ Len(ids) = n
  <2>1. \A k \in 1..n : ids[k] \in T
    BY DEF Range
  <2> HIDE DEF T
  <2> QED
    BY <2>1, FunctionIsSequence
<1>3. /\ leaves \in Seq(T)
      /\ Len(leaves) = Len(s) + n
      /\ \A i \in 1..(Len(s) + n) : leaves[i] = IF i <= Len(s) THEN s[i] ELSE ids[i - Len(s)]
  <2> HIDE DEF T
  <2> QED
    BY <1>1, <1>2, ConcatProperties
<1>4. DOMAIN leaves = 1..(Len(s) + n)
  BY <1>3
<1>5. Range(leaves) = T
  <2>1. Range(leaves) = Range(s) \cup Range(ids)
    BY <1>1, <1>2, RangeConcatenation
  <2> QED
    BY <2>1 DEF TreeHolds
<1>6. ASSUME NEW i \in 1..(Len(s) + n), NEW j \in 1..(Len(s) + n), leaves[i] = leaves[j]
      PROVE  i = j
  <2> HIDE DEF leaves
  <2>1. CASE i <= Len(s) /\ j <= Len(s)
    <3>1. i \in DOMAIN s /\ j \in DOMAIN s /\ s[i] = s[j]
      BY <1>1, <1>3, <1>6, <2>1
    <3> QED
      BY <3>1 DEF TreeHolds, IsInjective
  <2>2. CASE ~(i <= Len(s)) /\ ~(j <= Len(s))
    <3>1. i - Len(s) \in 1..n /\ j - Len(s) \in 1..n /\ ids[i - Len(s)] = ids[j - Len(s)]
      BY <1>1, <1>3, <1>6, <2>2
    <3>2. i - Len(s) = j - Len(s)
      BY <3>1 DEF IsInjective
    <3> QED
      BY <1>1, <3>2
  <2>3. ASSUME NEW k \in 1..(Len(s) + n), NEW l \in 1..(Len(s) + n), k <= Len(s),
               ~(l <= Len(s)), leaves[k] = leaves[l]
        PROVE  FALSE
    <3> HIDE DEF s, T
    <3>1. k \in DOMAIN s /\ l - Len(s) \in DOMAIN ids
      BY <1>1, <2>3
    <3>3. leaves[k] = s[k] /\ leaves[l] = ids[l - Len(s)]
      BY <1>3, <2>3
    <3>4. s[k] = ids[l - Len(s)]
      BY <2>3, <3>3
    <3> USE DEF s
    <3>2. s[k] \in S /\ ids[l - Len(s)] \in Range(ids)
      BY <3>1 DEF TreeHolds, Range
    <3> QED
      BY <3>2, <3>4
  <2> QED
    BY <1>6, <2>1, <2>2, <2>3
<1>7. IsInjective(leaves)
  BY <1>4, <1>6 DEF IsInjective
<1>8. /\ AppendAll(tree, ids).leaves = leaves
      /\ AppendAll(tree, ids).acceptedRoots
           = tree.acceptedRoots \cup (Len(s) + 1 .. Len(leaves))
  BY DEF AppendAll
<1>9. tree.acceptedRoots \cup (Len(s) + 1 .. Len(leaves)) = 0..Len(leaves)
  <2>1. tree.acceptedRoots = 0..Len(s)
    BY DEF TreeHolds
  <2> HIDE DEF s, leaves
  <2> QED
    BY <1>1, <1>3, <2>1
<1> HIDE DEF leaves, s, T
<1>10. AppendAll(tree, ids).leaves = leaves
       /\ AppendAll(tree, ids).acceptedRoots = 0..Len(leaves)
  BY <1>8, <1>9, Zenon
<1>11. TreeHolds(AppendAll(tree, ids), T)
  BY <1>3, <1>5, <1>7, <1>10 DEF TreeHolds
<1>12. Len(AppendAll(tree, ids).leaves) = Len(s) + Len(ids)
  BY <1>2, <1>3, <1>10
<1> QED
  BY <1>11, <1>12 DEF T, s

\* Recording an event appends its notes and vouchers to their trees.
LEMMA RecordedTrees ==
  ASSUME TreesHold, NEW kind, NEW spends, NEW parents, NEW outputs, NEW futureNfs,
         NEW policyRef, Recorded(kind, spends, parents, outputs, futureNfs, policyRef)
  PROVE  TreesHold'
<1>1. /\ DOMAIN outputs \subseteq {1, 2} /\ Range(outputs) \subseteq Refs
      /\ Distinct(outputs) /\ Fresh(outputs)
      /\ commitments' = commitments \cup IdSet(NOTE, outputs)
      /\ voucherCommitments' = voucherCommitments \cup IdSet(VOUCHER, outputs)
      /\ noteTree' = AppendAll(noteTree, IdsOf(NOTE, outputs))
      /\ voucherTree' = AppendAll(voucherTree, IdsOf(VOUCHER, outputs))
  BY DEF Recorded, EventOK, RecordPolicy, Recordable, Fresh
<1>2. /\ IdSet(NOTE, outputs) \cap commitments = {}
      /\ IdSet(VOUCHER, outputs) \cap voucherCommitments = {}
  BY <1>1, TypesDiffer DEF Fresh, IdSet, Range
<1>3. TreeHolds(noteTree', commitments')
  <2> DEFINE ids == IdsOf(NOTE, outputs)
  <2>1. /\ Range(ids) = IdSet(NOTE, outputs) /\ IsInjective(ids)
        /\ \E n \in Nat : DOMAIN ids = 1..n /\ ids = [k \in 1..n |-> ids[k]]
    BY <1>1, IdsInOrder
  <2> HIDE DEF ids
  <2>2. TreeHolds(AppendAll(noteTree, ids), commitments \cup Range(ids))
    BY <1>2, <2>1, AppendAllHolds DEF TreesHold
  <2> QED
    BY <1>1, <2>1, <2>2 DEF ids
<1>4. TreeHolds(voucherTree', voucherCommitments')
  <2> DEFINE ids == IdsOf(VOUCHER, outputs)
  <2>1. /\ Range(ids) = IdSet(VOUCHER, outputs) /\ IsInjective(ids)
        /\ \E n \in Nat : DOMAIN ids = 1..n /\ ids = [k \in 1..n |-> ids[k]]
    BY <1>1, IdsInOrder
  <2> HIDE DEF ids
  <2>2. TreeHolds(AppendAll(voucherTree, ids), voucherCommitments \cup Range(ids))
    BY <1>2, <2>1, AppendAllHolds DEF TreesHold
  <2> QED
    BY <1>1, <2>1, <2>2 DEF ids
<1> QED
  BY <1>3, <1>4 DEF TreesHold

\* The trees hold every commitment exactly once, and every root either ever had
\* stays accepted.
THEOREM LedgerTrees == Spec => []TreesHoldCommitments
<1>1. Init => TreesHold
  <2> SUFFICES ASSUME Init PROVE TreesHold
    OBVIOUS
  <2>1. TreeHolds(EmptyTree, {})
    BY Ranges DEF TreeHolds, EmptyTree, IsInjective
  <2> QED
    BY <2>1 DEF Init, TreesHold
<1>2. ASSUME LedgerInv, TreesHold, [Next]_vars
      PROVE  TreesHold'
  <2>1. RecordsEvent \/ SetsStatus \/ Elsewhere
    BY <1>2, LedgerSteps DEF LedgerInv
  <2>2. CASE RecordsEvent
    BY <1>2, <2>2, RecordedTrees DEF RecordsEvent
  <2>3. CASE SetsStatus \/ Elsewhere
    BY <1>2, <2>3 DEF SetsStatus, SetStatus, Elsewhere, TreesHold
  <2> QED
    BY <2>1, <2>2, <2>3
<1>3. TreesHold => TreesHoldCommitments
  BY DEF TreesHold, TreeHolds, TreesHoldCommitments, IsInjective
<1> QED
  BY <1>1, <1>2, <1>3, LedgerInvariant, PTL DEF Spec

-----------------------------------------------------------------------------
\* The vouchers fit in their tree.
VouchersFit == Len(voucherTree.leaves) <= TreeCapacity

LEMMA RecordedFits ==
  ASSUME TreesHold, VouchersFit, NEW kind, NEW spends, NEW parents, NEW outputs,
         NEW futureNfs, NEW policyRef,
         Recorded(kind, spends, parents, outputs, futureNfs, policyRef)
  PROVE  VouchersFit'
<1> DEFINE ids == IdsOf(VOUCHER, outputs)
<1>1. /\ DOMAIN outputs \subseteq {1, 2} /\ Range(outputs) \subseteq Refs
      /\ Distinct(outputs) /\ Fresh(outputs)
      /\ Len(voucherTree.leaves) + Len(ids) <= TreeCapacity
      /\ voucherTree' = AppendAll(voucherTree, ids)
  BY DEF Recorded, EventOK, RecordPolicy, Recordable, Fresh
<1>2. IdSet(VOUCHER, outputs) \cap voucherCommitments = {}
  BY <1>1, TypesDiffer DEF Fresh, IdSet, Range
<1>3. /\ Range(ids) = IdSet(VOUCHER, outputs) /\ IsInjective(ids)
      /\ \E n \in Nat : DOMAIN ids = 1..n /\ ids = [k \in 1..n |-> ids[k]]
  BY <1>1, IdsInOrder
<1> HIDE DEF ids
<1>4. Len(AppendAll(voucherTree, ids).leaves) = Len(voucherTree.leaves) + Len(ids)
  BY <1>2, <1>3, AppendAllHolds DEF TreesHold
<1> QED
  BY <1>1, <1>4 DEF VouchersFit

\* One note takes one leaf of the tree of notes and none of the other.
LEMMA OneNote ==
  ASSUME NEW m \in Notes
  PROVE  /\ Len(IdsOf(NOTE, <<Ref(NOTE, m)>>)) = 1
         /\ Len(IdsOf(VOUCHER, <<Ref(NOTE, m)>>)) = 0
<1> DEFINE outputs == <<Ref(NOTE, m)>>
<1>1. /\ Range(outputs) = {Ref(NOTE, m)} /\ DOMAIN outputs = {1}
      /\ Range(outputs) \subseteq Refs /\ Distinct(outputs)
  BY Ranges, RefsOf DEF Distinct
<1>2. /\ IdSet(NOTE, outputs) = {m} /\ IdSet(VOUCHER, outputs) = {}
  BY <1>1, TypesDiffer, RefFields DEF IdSet
<1> HIDE DEF outputs
<1>3. ASSUME NEW type
      PROVE  LET ids == IdsOf(type, outputs) IN
               /\ \E n \in Nat : DOMAIN ids = 1..n /\ Len(ids) = n
               /\ Range(ids) = IdSet(type, outputs) /\ IsInjective(ids)
  <2> DEFINE ids == IdsOf(type, outputs)
  <2>1. PICK n \in Nat : DOMAIN ids = 1..n /\ ids = [k \in 1..n |-> ids[k]]
    BY <1>1, IdsInOrder
  <2>2. Range(ids) = IdSet(type, outputs) /\ IsInjective(ids)
    BY <1>1, IdsInOrder
  <2> HIDE DEF ids
  <2>3. Len(ids) = n
    BY <2>1
  <2> QED
    BY <2>1, <2>2, <2>3 DEF ids
<1>4. Len(IdsOf(VOUCHER, outputs)) = 0
  <2>1. PICK n \in Nat : /\ DOMAIN IdsOf(VOUCHER, outputs) = 1..n
                         /\ Len(IdsOf(VOUCHER, outputs)) = n
    BY <1>3
  <2>2. Range(IdsOf(VOUCHER, outputs)) = {}
    BY <1>2, <1>3
  <2>3. 1 \notin DOMAIN IdsOf(VOUCHER, outputs)
    BY <2>2 DEF Range
  <2>4. ~(1 <= n)
    BY <2>1, <2>3
  <2> QED
    BY <2>1, <2>4
<1>5. Len(IdsOf(NOTE, outputs)) = 1
  <2> DEFINE ids == IdsOf(NOTE, outputs)
  <2>1. PICK n \in Nat : DOMAIN ids = 1..n /\ Len(ids) = n
    BY <1>3
  <2>2. Range(ids) = {m} /\ IsInjective(ids)
    BY <1>2, <1>3
  <2> HIDE DEF ids
  <2>3. n # 0
    BY <2>1, <2>2 DEF Range
  <2>4. \A i, j \in 1..n : i = j
    <3>1. \A i \in DOMAIN ids : ids[i] = m
      BY <2>2 DEF Range
    <3> QED
      BY <2>1, <2>2, <3>1 DEF IsInjective
  <2>5. 1 \in 1..n /\ n \in 1..n
    BY <2>3
  <2> QED
    BY <2>1, <2>4, <2>5 DEF ids
<1> QED
  BY <1>4, <1>5 DEF outputs

\* A live, unblocked voucher can be proceeded at any block with a fresh opening: it
\* is a leaf under a root that is still accepted, its spend value is not spent, and
\* its own tree need not have room for another.
THEOREM LedgerNoStranded == Spec => []NoStrandedVoucher
<1>1. Init => TreesHold /\ VouchersFit
  <2> SUFFICES ASSUME Init PROVE TreesHold /\ VouchersFit
    OBVIOUS
  <2>1. TreeHolds(EmptyTree, {})
    BY Ranges DEF TreeHolds, EmptyTree, IsInjective
  <2>2. Len(EmptyTree.leaves) = 0
    BY DEF EmptyTree
  <2> QED
    BY <2>1, <2>2, LedgerAssumption DEF Init, TreesHold, VouchersFit
<1>2. ASSUME LedgerInv, TreesHold, VouchersFit, [Next]_vars
      PROVE  TreesHold' /\ VouchersFit'
  <2>1. RecordsEvent \/ SetsStatus \/ Elsewhere
    BY <1>2, LedgerSteps DEF LedgerInv
  <2>2. CASE RecordsEvent
    BY <1>2, <2>2, RecordedTrees, RecordedFits DEF RecordsEvent
  <2>3. CASE SetsStatus \/ Elsewhere
    BY <1>2, <2>3 DEF SetsStatus, SetStatus, Elsewhere, TreesHold, VouchersFit
  <2> QED
    BY <2>1, <2>2, <2>3
<1>3. ASSUME TreesHold, VouchersFit
      PROVE  NoStrandedVoucher
  <2> SUFFICES ASSUME NEW v \in voucherCommitments,
                      Active(VOUCHER, VoucherNullifier(v)),
                      NEW m \in ResolveOutputs(v, v.receiver) \ commitments,
                      Len(noteTree.leaves) < TreeCapacity,
                      nextAuditRecordId <= MaxRecords
               PROVE  Proceeds(v) /\ Recordable(<<Ref(NOTE, m)>>)
    BY DEF NoStrandedVoucher
  <2>1. ProvenUnder(voucherTree, {v})
    <3>1. /\ Range(voucherTree.leaves) = voucherCommitments
          /\ voucherTree.leaves \in Seq(voucherCommitments)
          /\ voucherTree.acceptedRoots = 0..Len(voucherTree.leaves)
      BY <1>3 DEF TreesHold, TreeHolds
    <3>2. Len(voucherTree.leaves) \in voucherTree.acceptedRoots
      BY <3>1
    <3>3. v \in {voucherTree.leaves[i] : i \in 1..Len(voucherTree.leaves)}
      BY <3>1 DEF Range
    <3> QED
      BY <3>2, <3>3 DEF ProvenUnder
  <2>2. Fresh(<<Ref(NOTE, m)>>)
    <3> DEFINE outputs == <<Ref(NOTE, m)>>
    <3>1. /\ DOMAIN outputs = {1}
          /\ outputs[1].objectType = NOTE /\ outputs[1].rawId = m
      BY DEF Ref
    <3> HIDE DEF outputs
    <3>2. \A i \in DOMAIN outputs :
            CASE outputs[i].objectType = NOTE    -> outputs[i].rawId \notin commitments
              [] outputs[i].objectType = VOUCHER ->
                   outputs[i].rawId \notin voucherCommitments
              [] outputs[i].objectType = CLAIM   -> outputs[i].rawId \notin claimRegistered
      BY <3>1, TypesDiffer
    <3>3. Distinct(outputs)
      BY <3>1 DEF Distinct
    <3>4. Fresh(outputs)
      BY <3>2, <3>3 DEF Fresh
    <3> QED
      BY <3>4 DEF outputs
  <2>3. /\ Len(noteTree.leaves) \in Nat /\ Len(voucherTree.leaves) \in Nat
    BY <1>3 DEF TreesHold, TreeHolds
  <2>4. m \in Notes
    BY DEF ResolveOutputs
  <2>5. Recordable(<<Ref(NOTE, m)>>)
    <3>1. PICK outputs : outputs = <<Ref(NOTE, m)>>
      OBVIOUS
    <3>2. Len(IdsOf(NOTE, outputs)) = 1 /\ Len(IdsOf(VOUCHER, outputs)) = 0
      BY <2>4, <3>1, OneNote
    <3>3. /\ Len(noteTree.leaves) + Len(IdsOf(NOTE, outputs)) <= TreeCapacity
          /\ Len(voucherTree.leaves) + Len(IdsOf(VOUCHER, outputs)) <= TreeCapacity
      BY <1>3, <2>3, <3>2, LedgerAssumption DEF VouchersFit
    <3>4. Fresh(outputs)
      BY <2>2, <3>1
    <3>5. Recordable(outputs)
      BY <3>3, <3>4 DEF Recordable
    <3> QED
      BY <3>1, <3>5
  <2> QED
    BY <2>1, <2>5 DEF Proceeds
<1> QED
  BY <1>1, <1>2, <1>3, LedgerInvariant, PTL DEF Spec

-----------------------------------------------------------------------------
(***************************************************************************)
(* Mass, recycled mass and emissions.                                      *)
(***************************************************************************)

\* What is live is what no record consumed.
ConsumedRefs == UNION {ParentRefs(aid) : aid \in RecordIds}

LiveExact ==
  /\ Live = Objects \ ConsumedRefs
  /\ ConsumedRefs \subseteq Objects
  /\ Objects \subseteq Spendables

LEMMA LiveRefs == LedgerInv => LiveExact
<1> SUFFICES ASSUME LedgerInv PROVE LiveExact
  OBVIOUS
<1>1. Objects \subseteq Spendables
  BY RefsOf DEF Objects, Spendables, LedgerInv, MappingsTypeOK
<1>2. ASSUME NEW aid \in RecordIds, NEW ref \in ParentRefs(aid)
      PROVE  ref \in Objects /\ SpentIn(ref) # 0
  <2>1. ref \in DOMAIN producerOf
    BY DEF LedgerInv, Acyclic
  <2>3. ref.objectType # CLAIM
    BY RefFields, TypesDiffer DEF ParentRefs, OutputRefs
  <2>2. SpentIn(ref) = aid /\ aid # 0
    BY DEF LedgerInv, ConsumedOnce, RecordIds
  <2> QED
    BY <2>1, <2>2, <2>3 DEF LedgerInv, ProducedOnce
<1>3. ASSUME NEW ref \in Objects, SpentIn(ref) # 0
      PROVE  ref \in ConsumedRefs
  <2>1. CASE ref.objectType = NOTE
    <3>1. PICK n : ref = Ref(NOTE, n)
      BY <2>1, RefFields, TypesDiffer DEF Objects
    <3>2. Nullifier(n) \in DOMAIN noteSpentIn
      BY <1>3, <2>1, <3>1, RefFields DEF SpentIn, SpendValue, At
    <3>7. PICK aid \in RecordIds : \E x \in ParentRefs(aid) :
            x.objectType = NOTE /\ SpendValue(x) = Nullifier(n)
      BY <3>2 DEF LedgerInv, ConsumedOnce
    <3>3. PICK x \in ParentRefs(aid) :
            x.objectType = NOTE /\ SpendValue(x) = Nullifier(n)
      BY <3>7
    <3>4. PICK m : x = Ref(NOTE, m)
      BY <3>3, RefFields DEF ParentRefs, OutputRefs
    <3>5. Nullifier(m) = Nullifier(n)
      BY <3>3, <3>4, RefFields DEF SpendValue
    <3>6. m = n
      BY <3>5 DEF Nullifier
    <3> QED
      BY <3>1, <3>3, <3>4, <3>6 DEF ConsumedRefs
  <2>2. CASE ref.objectType # NOTE
    <3>1. PICK v : ref = Ref(VOUCHER, v)
      BY <2>2, RefFields, TypesDiffer DEF Objects
    <3>2. VoucherNullifier(v) \in DOMAIN voucherSpentIn
      BY <1>3, <2>2, <3>1, RefFields DEF SpentIn, SpendValue, At
    <3>7. PICK aid \in RecordIds : \E x \in ParentRefs(aid) :
            x.objectType = VOUCHER /\ SpendValue(x) = VoucherNullifier(v)
      BY <3>2 DEF LedgerInv, ConsumedOnce
    <3>3. PICK x \in ParentRefs(aid) :
            x.objectType = VOUCHER /\ SpendValue(x) = VoucherNullifier(v)
      BY <3>7
    <3>4. PICK w : x = Ref(VOUCHER, w)
      BY <3>3, RefFields DEF ParentRefs, OutputRefs
    <3>5. VoucherNullifier(w) = VoucherNullifier(v)
      BY <3>3, <3>4, RefFields, TypesDiffer DEF SpendValue
    <3>6. w = v
      BY <3>5 DEF VoucherNullifier
    <3> QED
      BY <3>1, <3>3, <3>4, <3>6 DEF ConsumedRefs
  <2> QED
    BY <2>1, <2>2
<1> QED
  BY <1>1, <1>2, <1>3 DEF LiveExact, Live, ConsumedRefs

\* What recording an event does to the live objects and to the sets that the
\* balance is about.
LEMMA RecordedLive ==
  ASSUME LedgerInv, LedgerInv', NEW kind, NEW spends, NEW parents, NEW outputs,
         NEW futureNfs, NEW policyRef,
         Recorded(kind, spends, parents, outputs, futureNfs, policyRef),
         NEW aid, aid = nextAuditRecordId,
         NEW ins, ins = Consumes(kind, parents),
         NEW outs, outs = Range(outputs) \cap Spendables
  PROVE  /\ ins \subseteq Live /\ outs \cap Objects = {} /\ IsFiniteSet(outs)
         /\ Live' = (Live \ ins) \cup outs
         /\ Objects' = Objects \cup outs
         /\ ParentRefs(aid)' = ins
         /\ aid \notin RecordIds
         /\ \A x \in RecordIds : ParentRefs(x)' = ParentRefs(x)
         /\ \A k : EventsOf(k)' = EventsOf(k) \cup (IF k = kind THEN {aid} ELSE {})
         /\ Entered' = Entered \cup (IF kind = ENTRY THEN Range(outputs) ELSE {})
         /\ Gone' = Gone \cup (IF kind \in {EXIT, ISSUE} THEN ins ELSE {})
<1>1. /\ RecordIds' = RecordIds \cup {aid}
      /\ aid \notin RecordIds /\ aid # 0
      /\ ParentRefs(aid)' = ins
      /\ OutputRefs(aid)' = Range(outputs)
      /\ \A x \in RecordIds : /\ ParentRefs(x)' = ParentRefs(x)
                              /\ OutputRefs(x)' = OutputRefs(x)
  BY RecordedRefs
<1>2. /\ DOMAIN producerOf' = DOMAIN producerOf \cup Range(outputs)
      /\ DOMAIN producerOf \cap Range(outputs) = {}
  BY RecordedProducers
<1>3. Objects = {ref \in DOMAIN producerOf : ref.objectType # CLAIM}
      /\ Objects' = {ref \in DOMAIN producerOf' : ref.objectType # CLAIM}
  BY DEF LedgerInv, ProducedOnce
<1>4. outs = {ref \in Range(outputs) : ref.objectType # CLAIM}
  BY DEF Recorded, EventOK, Spendables
<1>5. Objects' = Objects \cup outs /\ outs \cap Objects = {}
  BY <1>2, <1>3, <1>4
<1>6. ins \subseteq Live
  <2>1. ins \subseteq Objects
    BY DEF Recorded, EventOK
  <2>2. \A ref \in ins : /\ ref.objectType = ParentType(kind)
                         /\ Unspent(ParentType(kind), SpendValue(ref))
    BY RefFields DEF Recorded, EventOK, Active, Consumes
  <2>3. \A ref \in ins : SpentIn(ref) = 0
    BY <2>2, TypesDiffer DEF SpentIn, Unspent
  <2> QED
    BY <2>1, <2>3 DEF Live
<1>7. ConsumedRefs' = ConsumedRefs \cup ins
  BY <1>1 DEF ConsumedRefs
<1>8. Live' = (Live \ ins) \cup outs
  <2>1. Live = Objects \ ConsumedRefs /\ ConsumedRefs \subseteq Objects
    BY LiveRefs DEF LiveExact
  <2>3. (LedgerInv => LiveExact)'
    BY LiveRefs, PTL
  <2>4. Live' = Objects' \ ConsumedRefs'
    BY <2>3 DEF LiveExact
  <2> QED
    BY <1>5, <1>6, <1>7, <2>1, <2>4
<1>9. IsFiniteSet(outs)
  <2>1. DOMAIN outputs \subseteq {1, 2}
    BY DEF Recorded, EventOK
  <2>2. Range(outputs) \subseteq {outputs[1], outputs[2]}
    BY <2>1 DEF Range
  <2>3. IsFiniteSet({outputs[1], outputs[2]})
    <3>1. {outputs[1], outputs[2]} = {outputs[1]} \cup {outputs[2]}
          /\ IsFiniteSet({outputs[1]})
      BY FS_Singleton
    <3> QED
      BY <3>1, FS_AddElement
  <2> QED
    BY <2>2, <2>3, FS_Subset
<1>10. /\ auditRecords'[aid].eventKind = kind
       /\ \A x \in RecordIds : auditRecords'[x] = auditRecords[x]
  <2>1. auditRecords' = Put(auditRecords, {aid},
                            [eventKind |-> kind, policyRef |-> policyRef,
                             outputRefs |-> outputs, parents |-> parents,
                             futureNfs |-> futureNfs])
    BY DEF Recorded, RecordPolicy
  <2> QED
    BY <1>1, <2>1 DEF Put, LedgerInv, HistoryOK
<1>11. ASSUME NEW k
       PROVE  EventsOf(k)' = EventsOf(k) \cup (IF k = kind THEN {aid} ELSE {})
  BY <1>1, <1>10 DEF EventsOf
<1>12. Entered' = Entered \cup (IF kind = ENTRY THEN Range(outputs) ELSE {})
  <2>1. \A x \in EventsOf(ENTRY) : x \in RecordIds
    BY DEF EventsOf
  <2> QED
    BY <1>1, <1>11, <2>1 DEF Entered
<1>13. Gone' = Gone \cup (IF kind \in {EXIT, ISSUE} THEN ins ELSE {})
  <2>1. \A x \in EventsOf(EXIT) \cup EventsOf(ISSUE) : x \in RecordIds
    BY DEF EventsOf
  <2>2. EventsOf(EXIT)' \cup EventsOf(ISSUE)'
          = (EventsOf(EXIT) \cup EventsOf(ISSUE))
              \cup (IF kind \in {EXIT, ISSUE} THEN {aid} ELSE {})
    BY <1>11
  <2> QED
    BY <1>1, <2>1, <2>2 DEF Gone
<1> QED
  BY <1>1, <1>5, <1>6, <1>8, <1>9, <1>11, <1>12, <1>13

\* The totals after some objects went and others came.
LEMMA TotalsChange ==
  ASSUME NEW field \in Fields, NEW S \in SUBSET Spendables, IsFiniteSet(S),
         NEW ins \in SUBSET S,
         NEW outs \in SUBSET Spendables, IsFiniteSet(outs), outs \cap S = {}
  PROVE  /\ Total(field, S) \in Int /\ Total(field, ins) \in Int /\ Total(field, outs) \in Int
         /\ Total(field, (S \ ins) \cup outs)
              = (Total(field, S) - Total(field, ins)) + Total(field, outs)
<1> DEFINE rest == S \ ins
<1>1. /\ rest \in SUBSET Spendables /\ IsFiniteSet(rest)
      /\ ins \in SUBSET Spendables /\ IsFiniteSet(ins)
      /\ rest \cap ins = {} /\ rest \cup ins = S /\ rest \cap outs = {}
  BY FS_Subset
<1> HIDE DEF rest
<1>2. /\ Total(field, rest \cup ins) = Total(field, rest) + Total(field, ins)
      /\ Total(field, rest) \in Int /\ Total(field, ins) \in Int
  BY <1>1, TotalOfUnion
<1>3. /\ Total(field, rest \cup outs) = Total(field, rest) + Total(field, outs)
      /\ Total(field, outs) \in Int
  BY <1>1, TotalOfUnion
<1>4. Total(field, S) = Total(field, rest) + Total(field, ins)
  BY <1>1, <1>2
<1>5. /\ Total(field, S) \in Int /\ Total(field, ins) \in Int /\ Total(field, outs) \in Int
      /\ Total(field, rest \cup outs)
           = (Total(field, S) - Total(field, ins)) + Total(field, outs)
  BY <1>2, <1>3, <1>4
<1> QED
  BY <1>5 DEF rest

\* The loss of a set of objects is an integer.
LEMMA LossesType ==
  ASSUME NEW S \in SUBSET Spendables, IsFiniteSet(S)
  PROVE  Losses(S) \in Int
<1>1. Total("q", S) \in Int
  BY TotalIsSum DEF Fields
<1>2. Rates.loss \in Int /\ Rates.denominator \in Nat \ {0}
  BY AllocationAssumption
<1> QED
  BY <1>1, <1>2, MulDivType DEF Losses

\* What the inductive invariant of the balance adds: the objects are finitely many
\* and what was entered is among them.
MassInv ==
  /\ IsFiniteSet(Objects)
  /\ Entered \subseteq Objects
  /\ MassConserved

\* Recording an event adds its loss, if it is Process, to those so far.
LEMMA RecordedLost ==
  ASSUME LedgerInv, IsFiniteSet(Objects), NEW kind, NEW aid, NEW ins \in SUBSET Objects,
         aid \notin RecordIds, ParentRefs(aid)' = ins,
         \A x \in RecordIds : ParentRefs(x)' = ParentRefs(x),
         EventsOf(PROCESS)' = EventsOf(PROCESS) \cup (IF PROCESS = kind THEN {aid} ELSE {})
  PROVE  /\ Lost \in Int
         /\ Lost' = Lost + (IF kind = PROCESS THEN Losses(ins) ELSE 0)
<1> DEFINE E   == EventsOf(PROCESS)
           fun == [x \in E |-> Losses(ParentRefs(x))]
           gun == [x \in EventsOf(PROCESS)' |-> Losses(ParentRefs(x)')]
<1>1. IsFiniteSet(E) /\ E \subseteq RecordIds
  <2>1. nextAuditRecordId - 1 \in Int
    BY DEF LedgerInv, HistoryOK
  <2>2. IsFiniteSet(RecordIds)
    BY <2>1, FS_Interval DEF RecordIds
  <2>3. E \subseteq RecordIds
    BY DEF EventsOf
  <2> QED
    BY <2>2, <2>3, FS_Subset
<1>2. \A S \in SUBSET Objects : Losses(S) \in Int
  BY LiveRefs, LossesType, FS_Subset DEF LiveExact
<1>3. \A x \in E : ParentRefs(x) \in SUBSET Objects
  BY <1>1, LiveRefs DEF LiveExact, ConsumedRefs
<1>4. \A x \in E : gun[x] \in Int /\ gun[x] = fun[x]
  <2> SUFFICES ASSUME NEW x \in E PROVE gun[x] \in Int /\ gun[x] = fun[x]
    OBVIOUS
  <2>1. x \in EventsOf(PROCESS)' /\ ParentRefs(x)' = ParentRefs(x)
    BY <1>1
  <2>2. gun[x] = Losses(ParentRefs(x)) /\ fun[x] = Losses(ParentRefs(x))
    BY <2>1
  <2> QED
    BY <1>2, <1>3, <2>2
<1>5. Lost = SumFunctionOnSet(fun, E) /\ Lost' = SumFunctionOnSet(gun, EventsOf(PROCESS)')
  BY DEF Lost, SumFunction
<1>6. aid \notin E
  BY <1>1
<1>7. kind = PROCESS => gun[aid] = Losses(ins)
  OBVIOUS
<1>8. Losses(ins) \in Int
  BY <1>2
<1> HIDE DEF E, fun, gun
<1>9. SumFunctionOnSet(gun, E) = Lost /\ Lost \in Int
  BY <1>1, <1>4, <1>5, SumSame, SumRemove
<1>10. CASE kind = PROCESS
  <2>1. EventsOf(PROCESS)' = E \cup {aid}
    BY <1>10 DEF E
  <2>2. \A y \in E \cup {aid} : gun[y] \in Int
    BY <1>4, <1>7, <1>8, <1>10
  <2>3. SumFunctionOnSet(gun, E \cup {aid}) = gun[aid] + SumFunctionOnSet(gun, E)
    BY <1>1, <1>6, <2>2, SumAdd
  <2>4. Lost' = Losses(ins) + Lost
    BY <1>5, <1>7, <1>9, <1>10, <2>1, <2>3
  <2>5. Losses(ins) + Lost = Lost + Losses(ins)
    BY <1>8, <1>9
  <2> QED
    BY <1>9, <1>10, <2>4, <2>5
<1>11. CASE kind # PROCESS
  <2>1. EventsOf(PROCESS)' = E
    BY <1>11 DEF E
  <2>2. Lost' = Lost
    BY <1>5, <1>9, <2>1
  <2>3. Lost + 0 = Lost
    BY <1>9
  <2> QED
    BY <1>9, <1>11, <2>2, <2>3
<1> QED
  BY <1>10, <1>11

\* Recording an event keeps the balance.
LEMMA RecordedMass ==
  ASSUME LedgerInv, LedgerInv', MassInv, NEW kind, NEW spends, NEW parents, NEW outputs,
         NEW futureNfs, NEW policyRef,
         Recorded(kind, spends, parents, outputs, futureNfs, policyRef)
  PROVE  MassInv'
<1>0. PICK aid : aid = nextAuditRecordId
  OBVIOUS
<1> DEFINE ins  == Consumes(kind, parents)
           outs == Range(outputs) \cap Spendables
           loss == IF kind = PROCESS THEN Losses(ins) ELSE 0
<1>1. /\ ins \subseteq Live /\ outs \cap Objects = {} /\ IsFiniteSet(outs)
      /\ Live' = (Live \ ins) \cup outs
      /\ Objects' = Objects \cup outs
      /\ ParentRefs(aid)' = ins
      /\ aid \notin RecordIds
      /\ \A x \in RecordIds : ParentRefs(x)' = ParentRefs(x)
      /\ \A k : EventsOf(k)' = EventsOf(k) \cup (IF k = kind THEN {aid} ELSE {})
      /\ Entered' = Entered \cup (IF kind = ENTRY THEN Range(outputs) ELSE {})
      /\ Gone' = Gone \cup (IF kind \in {EXIT, ISSUE} THEN ins ELSE {})
  <2>1. ins = Consumes(kind, parents) /\ outs = Range(outputs) \cap Spendables
    OBVIOUS
  <2> HIDE DEF ins, outs
  <2> QED
    BY <1>0, <2>1, RecordedLive
<1>2. /\ kind = ENTRY => ins = {} /\ outs = Range(outputs)
      /\ kind \in {EXIT, ISSUE} => outs = {}
      /\ kind \notin {ENTRY, EXIT, ISSUE} =>
           /\ Total("q", outs) + loss = Total("q", ins)
           /\ Total("a", outs) = Total("a", ins)
           /\ Total("e", outs) >= Total("e", ins)
  BY DEF Recorded, Balanced
<1>3. outs \in SUBSET Spendables
  OBVIOUS
<1> HIDE DEF ins, outs
<1>4. /\ Live = Objects \ ConsumedRefs /\ ConsumedRefs \subseteq Objects
      /\ Objects \subseteq Spendables
  BY LiveRefs DEF LiveExact
<1>5. IsFiniteSet(Objects) /\ Entered \subseteq Objects
  BY DEF MassInv
<1>6. /\ IsFiniteSet(Live) /\ Live \in SUBSET Spendables
      /\ IsFiniteSet(Entered) /\ Entered \in SUBSET Spendables
      /\ ins \in SUBSET Spendables /\ IsFiniteSet(ins) /\ ins \in SUBSET Objects
  BY <1>1, <1>4, <1>5, FS_Subset
<1>7. /\ Gone \in SUBSET Spendables /\ IsFiniteSet(Gone) /\ Gone \cap ins = {}
  <2>1. Gone \subseteq ConsumedRefs
    BY DEF Gone, EventsOf, ConsumedRefs
  <2> QED
    BY <1>1, <1>4, <1>5, <2>1, FS_Subset
<1>8. /\ Entered' = Entered \cup (IF kind = ENTRY THEN outs ELSE {})
      /\ Entered \cap outs = {}
  BY <1>1, <1>2, <1>5
<1>9. Lost \in Int /\ Lost' = Lost + loss
  <2>1. EventsOf(PROCESS)' = EventsOf(PROCESS) \cup (IF PROCESS = kind THEN {aid} ELSE {})
    BY <1>1
  <2> QED
    BY <1>1, <1>5, <1>6, <2>1, RecordedLost
<1> HIDE DEF loss
<1>10. ASSUME NEW field \in Fields
       PROVE  /\ Total(field, Live) \in Int /\ Total(field, ins) \in Int
              /\ Total(field, outs) \in Int /\ Total(field, Gone) \in Int
              /\ Total(field, Entered) \in Int
              /\ Total(field, Live') = (Total(field, Live) - Total(field, ins))
                                          + Total(field, outs)
              /\ Total(field, Gone \cup ins) = Total(field, Gone) + Total(field, ins)
              /\ Total(field, Entered \cup outs) = Total(field, Entered) + Total(field, outs)
  <2>1. /\ Total(field, Live) \in Int /\ Total(field, ins) \in Int
        /\ Total(field, outs) \in Int
        /\ Total(field, (Live \ ins) \cup outs)
             = (Total(field, Live) - Total(field, ins)) + Total(field, outs)
    <3>1. /\ outs \cap Live = {} /\ ins \in SUBSET Live /\ Live \in SUBSET Spendables
          /\ IsFiniteSet(outs) /\ IsFiniteSet(Live)
      BY <1>1, <1>4, <1>6
    <3> QED
      BY <1>3, <3>1, TotalsChange
  <2>2. /\ Total(field, Gone) \in Int
        /\ Total(field, Gone \cup ins) = Total(field, Gone) + Total(field, ins)
    BY <1>6, <1>7, TotalOfUnion
  <2>3. /\ Total(field, Entered) \in Int
        /\ Total(field, Entered \cup outs) = Total(field, Entered) + Total(field, outs)
    BY <1>1, <1>3, <1>6, <1>8, TotalOfUnion
  <2> QED
    BY <1>1, <2>1, <2>2, <2>3
<1>11. \A field \in Fields : Total(field, {}) = 0
  BY TotalOfNone
<1>12. /\ Total("q", Live) + Total("q", Gone) + Lost = Total("q", Entered)
       /\ Total("a", Live) + Total("a", Gone) = Total("a", Entered)
       /\ Total("e", Live) + Total("e", Gone) >= Total("e", Entered)
  BY DEF MassInv, MassConserved
<1>13. "q" \in Fields /\ "a" \in Fields /\ "e" \in Fields
  BY DEF Fields
<1>14. /\ Total("q", Live) \in Int /\ Total("q", ins) \in Int
       /\ Total("q", outs) \in Int /\ Total("q", Gone) \in Int
       /\ Total("q", Entered) \in Int
       /\ Total("q", Live') = (Total("q", Live) - Total("q", ins)) + Total("q", outs)
       /\ Total("q", Gone \cup ins) = Total("q", Gone) + Total("q", ins)
       /\ Total("q", Entered \cup outs) = Total("q", Entered) + Total("q", outs)
  BY <1>10, <1>13
<1>15. /\ Total("a", Live) \in Int /\ Total("a", ins) \in Int
       /\ Total("a", outs) \in Int /\ Total("a", Gone) \in Int
       /\ Total("a", Entered) \in Int
       /\ Total("a", Live') = (Total("a", Live) - Total("a", ins)) + Total("a", outs)
       /\ Total("a", Gone \cup ins) = Total("a", Gone) + Total("a", ins)
       /\ Total("a", Entered \cup outs) = Total("a", Entered) + Total("a", outs)
  BY <1>10, <1>13
<1>16. /\ Total("e", Live) \in Int /\ Total("e", ins) \in Int
       /\ Total("e", outs) \in Int /\ Total("e", Gone) \in Int
       /\ Total("e", Entered) \in Int
       /\ Total("e", Live') = (Total("e", Live) - Total("e", ins)) + Total("e", outs)
       /\ Total("e", Gone \cup ins) = Total("e", Gone) + Total("e", ins)
       /\ Total("e", Entered \cup outs) = Total("e", Entered) + Total("e", outs)
  BY <1>10, <1>13
<1>17. /\ Total("q", Live') + Total("q", Gone') + Lost' = Total("q", Entered')
       /\ Total("a", Live') + Total("a", Gone') = Total("a", Entered')
       /\ Total("e", Live') + Total("e", Gone') >= Total("e", Entered')
  <2>1. CASE kind = ENTRY
    <3>1. /\ Gone' = Gone /\ Entered' = Entered \cup outs /\ loss = 0 /\ ins = {}
      BY <1>1, <1>2, <1>8, <2>1, KindsDiffer DEF loss
    <3>2. Total("q", ins) = 0 /\ Total("a", ins) = 0 /\ Total("e", ins) = 0
      BY <1>11, <1>13, <3>1
    <3> QED
      BY <1>9, <1>12, <1>14, <1>15, <1>16, <3>1, <3>2
  <2>2. CASE kind \in {EXIT, ISSUE}
    <3>1. /\ Gone' = Gone \cup ins /\ Entered' = Entered /\ loss = 0 /\ outs = {}
      BY <1>1, <1>2, <1>8, <2>2, KindsDiffer DEF loss
    <3>2. Total("q", outs) = 0 /\ Total("a", outs) = 0 /\ Total("e", outs) = 0
      BY <1>11, <1>13, <3>1
    <3> QED
      BY <1>9, <1>12, <1>14, <1>15, <1>16, <3>1, <3>2
  <2>3. CASE kind \notin {ENTRY, EXIT, ISSUE}
    <3>1. /\ Gone' = Gone /\ Entered' = Entered
          /\ Total("q", outs) + loss = Total("q", ins)
          /\ Total("a", outs) = Total("a", ins)
          /\ Total("e", outs) >= Total("e", ins)
      BY <1>1, <1>2, <1>8, <2>3
    <3>2. loss \in Int
      BY <1>1, <1>6, LossesType DEF loss
    <3> QED
      BY <1>9, <1>12, <1>14, <1>15, <1>16, <3>1, <3>2
  <2> QED
    BY <2>1, <2>2, <2>3
<1>18. MassConserved'
  BY <1>17 DEF MassConserved
<1>19. IsFiniteSet(Objects')
  BY <1>1, <1>5, FS_Union
<1>20. Entered' \subseteq Objects'
  BY <1>1, <1>5, <1>8
<1> QED
  BY <1>18, <1>19, <1>20 DEF MassInv

\* What was entered is live, or left, or was lost at the rates of the Process
\* policy; recycled mass is exact and emissions are only added.
THEOREM LedgerMassConserved == Spec => []MassConserved
<1>1. Init => MassInv
  <2> SUFFICES ASSUME Init PROVE MassInv
    OBVIOUS
  <2>1. RecordIds = {} /\ Objects = {}
    BY DEF Init, RecordIds, Objects
  <2>2. Live = {} /\ Entered = {} /\ Gone = {} /\ EventsOf(PROCESS) = {}
    BY <2>1 DEF Live, Entered, Gone, EventsOf
  <2>3. Lost = 0
    <3>1. Lost = SumFunctionOnSet([x \in EventsOf(PROCESS) |-> Losses(ParentRefs(x))], {})
      BY <2>2 DEF Lost, SumFunction
    <3> QED
      BY <3>1, SumOfNone
  <2>4. Total("q", {}) = 0 /\ Total("a", {}) = 0 /\ Total("e", {}) = 0
    BY TotalOfNone DEF Fields
  <2>5. MassConserved
    BY <2>2, <2>3, <2>4 DEF MassConserved
  <2> QED
    BY <2>1, <2>2, <2>5, FS_EmptySet DEF MassInv
<1>2. ASSUME LedgerInv, LedgerInv', MassInv, [Next]_vars
      PROVE  MassInv'
  <2>1. RecordsEvent \/ SetsStatus \/ Elsewhere
    BY <1>2, LedgerSteps DEF LedgerInv
  <2>2. CASE RecordsEvent
    BY <1>2, <2>2, RecordedMass DEF RecordsEvent
  <2>3. CASE SetsStatus \/ Elsewhere
    <3>1. UNCHANGED <<commitments, voucherCommitments, noteSpentIn, voucherSpentIn,
                      nextAuditRecordId, auditRecords>>
      BY <2>3 DEF SetsStatus, SetStatus, Elsewhere
    <3>2. /\ RecordIds' = RecordIds
          /\ \A x : ParentRefs(x)' = ParentRefs(x) /\ OutputRefs(x)' = OutputRefs(x)
          /\ \A ref : SpentIn(ref)' = SpentIn(ref)
          /\ Objects' = Objects
      BY <3>1 DEF RecordIds, ParentRefs, OutputRefs, SpentIn, Objects
    <3>3. \A k : EventsOf(k)' = EventsOf(k)
      BY <3>1, <3>2 DEF EventsOf
    <3>4. Live' = Live /\ Entered' = Entered /\ Gone' = Gone
      BY <3>2, <3>3 DEF Live, Entered, Gone
    <3>5. Lost' = Lost
      BY <3>2, <3>3 DEF Lost
    <3> QED
      BY <1>2, <3>2, <3>4, <3>5 DEF MassInv, MassConserved
  <2> QED
    BY <2>1, <2>2, <2>3
<1>3. MassInv => MassConserved
  BY DEF MassInv
<1> QED
  BY <1>1, <1>2, <1>3, LedgerInvariant, PTL DEF Spec

-----------------------------------------------------------------------------
(***************************************************************************)
(* The ledger implements AssetFlow.                                        *)
(***************************************************************************)

\* The state of AssetFlow, as V2LedgerFlow reads it off the ledger.
FlowEvents == [aid \in RecordIds |-> [inputs |-> ParentRefs(aid), outputs |-> OutputRefs(aid)]]
HeldRefs   == WithStatus({FROZEN, REVOKED})
BarredRefs == WithStatus({REVOKED})

-----------------------------------------------------------------------------
\* The records are a sequence of events.
LEMMA EventsAreSequence ==
  ASSUME LedgerInv
  PROVE  /\ FlowEvents \in Seq({FlowEvents[aid] : aid \in RecordIds})
         /\ Len(FlowEvents) = nextAuditRecordId - 1
<1>1. nextAuditRecordId \in Nat \ {0}
  BY DEF LedgerInv, HistoryOK
<1>2. RecordIds = 1..(nextAuditRecordId - 1) /\ nextAuditRecordId - 1 \in Nat
  BY <1>1 DEF RecordIds
<1>3. \A n \in Nat : \A f : DOMAIN f = 1..n /\ f = [i \in 1..n |-> f[i]]
                        => f \in Seq({f[i] : i \in 1..n}) /\ Len(f) = n
  OBVIOUS
<1> QED
  BY <1>2, <1>3 DEF FlowEvents

\* The mapped history has created what has a producer, and consumed what is
\* the parent of a record.
LEMMA HistoryOfRecords ==
  ASSUME LedgerInv
  PROVE  /\ Flow!Created(FlowEvents) = DOMAIN producerOf
         /\ Flow!Consumed(FlowEvents) = UNION {ParentRefs(aid) : aid \in RecordIds}
<1>1. DOMAIN FlowEvents = RecordIds
  BY DEF FlowEvents
<1>2. \A aid \in RecordIds : FlowEvents[aid].inputs = ParentRefs(aid)
                             /\ FlowEvents[aid].outputs = OutputRefs(aid)
  BY DEF FlowEvents
<1>3. Flow!Created(FlowEvents) = UNION {OutputRefs(aid) : aid \in RecordIds}
  BY <1>1, <1>2 DEF Flow!Created
<1>4. Flow!Consumed(FlowEvents) = UNION {ParentRefs(aid) : aid \in RecordIds}
  BY <1>1, <1>2 DEF Flow!Consumed
<1> QED
  BY <1>3, <1>4 DEF LedgerInv, ProducedOnce

\* An object whose spend value is unspent was not consumed.
LEMMA UnspentNotConsumed ==
  ASSUME LedgerInv, NEW ref, SpentIn(ref) = 0
  PROVE  ref \notin Flow!Consumed(FlowEvents)
<1>1. \A aid \in RecordIds : \A x \in ParentRefs(aid) : SpentIn(x) = aid /\ aid # 0
  BY DEF LedgerInv, ConsumedOnce, RecordIds
<1> QED
  BY <1>1, HistoryOfRecords

\* An object has one of these statuses exactly when its spend value has.
LEMMA StatusOfRefs ==
  ASSUME MappingsTypeOK, NEW S, ACTIVE \notin S
  PROVE  /\ \A n : Ref(NOTE, n) \in WithStatus(S)
                   <=> At(noteStatusByNf, Nullifier(n)) \in S
         /\ \A v : Ref(VOUCHER, v) \in WithStatus(S)
                   <=> At(voucherStatusByNf, VoucherNullifier(v)) \in S
<1>1. \A s \in DOMAIN noteStatusByNf : s = Nullifier(s.cm)
  BY DEF MappingsTypeOK, IsMapping, NoteNfs, Nullifier
<1>2. \A s \in DOMAIN voucherStatusByNf : s = VoucherNullifier(s.rv)
  BY DEF MappingsTypeOK, IsMapping, VoucherNfs, VoucherNullifier
<1>3. ASSUME NEW n
      PROVE  Ref(NOTE, n) \in WithStatus(S) <=> At(noteStatusByNf, Nullifier(n)) \in S
  <2>1. ASSUME Ref(NOTE, n) \in WithStatus(S)
        PROVE  At(noteStatusByNf, Nullifier(n)) \in S
    <3>1. PICK s \in DOMAIN noteStatusByNf :
            noteStatusByNf[s] \in S /\ Ref(NOTE, n) = Ref(NOTE, s.cm)
      BY <2>1, RefFields, TypesDiffer DEF WithStatus
    <3>2. n = s.cm
      BY <3>1, RefFields
    <3> QED
      BY <1>1, <3>1, <3>2 DEF At
  <2>2. ASSUME At(noteStatusByNf, Nullifier(n)) \in S
        PROVE  Ref(NOTE, n) \in WithStatus(S)
    <3>1. /\ Nullifier(n) \in DOMAIN noteStatusByNf
          /\ noteStatusByNf[Nullifier(n)] \in S
      BY <2>2 DEF At, ACTIVE
    <3>2. Nullifier(n).cm = n
      BY DEF Nullifier
    <3> QED
      BY <3>1, <3>2 DEF WithStatus
  <2> QED
    BY <2>1, <2>2
<1>4. ASSUME NEW v
      PROVE  Ref(VOUCHER, v) \in WithStatus(S)
             <=> At(voucherStatusByNf, VoucherNullifier(v)) \in S
  <2>1. ASSUME Ref(VOUCHER, v) \in WithStatus(S)
        PROVE  At(voucherStatusByNf, VoucherNullifier(v)) \in S
    <3>1. PICK s \in DOMAIN voucherStatusByNf :
            voucherStatusByNf[s] \in S /\ Ref(VOUCHER, v) = Ref(VOUCHER, s.rv)
      BY <2>1, RefFields, TypesDiffer DEF WithStatus
    <3>2. v = s.rv
      BY <3>1, RefFields
    <3> QED
      BY <1>2, <3>1, <3>2 DEF At
  <2>2. ASSUME At(voucherStatusByNf, VoucherNullifier(v)) \in S
        PROVE  Ref(VOUCHER, v) \in WithStatus(S)
    <3>1. /\ VoucherNullifier(v) \in DOMAIN voucherStatusByNf
          /\ voucherStatusByNf[VoucherNullifier(v)] \in S
      BY <2>2 DEF At, ACTIVE
    <3>2. VoucherNullifier(v).rv = v
      BY DEF VoucherNullifier
    <3> QED
      BY <3>1, <3>2 DEF WithStatus
  <2> QED
    BY <2>1, <2>2
<1> QED
  BY <1>3, <1>4

\* Every blocked object is a note or a voucher.
LEMMA WithStatusTyped ==
  ASSUME MappingsTypeOK, NEW S, NEW ref \in WithStatus(S)
  PROVE  \/ \E n \in Notes : ref = Ref(NOTE, n)
         \/ \E v \in Vouchers : ref = Ref(VOUCHER, v)
<1>1. \A s \in DOMAIN noteStatusByNf : s.cm \in Notes
  BY DEF MappingsTypeOK, IsMapping, NoteNfs, Nullifier
<1>2. \A s \in DOMAIN voucherStatusByNf : s.rv \in Vouchers
  BY DEF MappingsTypeOK, IsMapping, VoucherNfs, VoucherNullifier
<1> QED
  BY <1>1, <1>2 DEF WithStatus

-----------------------------------------------------------------------------
\* What an event consumes and produces is acceptable to AssetFlow.
LEMMA RecordedAcceptable ==
  ASSUME LedgerInv, NEW kind, NEW spends, NEW parents, NEW outputs, NEW futureNfs,
         NEW policyRef, Recorded(kind, spends, parents, outputs, futureNfs, policyRef),
         NEW event, event = [inputs |-> Consumes(kind, parents), outputs |-> Range(outputs)]
  PROVE  Flow!Acceptable(FlowEvents, HeldRefs, event)
<1>1. /\ Consumes(kind, parents) \subseteq Objects
      /\ spends = {SpendValue(ref) : ref \in Consumes(kind, parents)}
      /\ \A s \in spends : Active(ParentType(kind), s)
      /\ Range(outputs) \subseteq Refs
  BY DEF Recorded, EventOK
<1>2. \A ref \in Consumes(kind, parents) : ref.objectType = ParentType(kind)
  BY RefFields DEF Consumes
<1>3. ASSUME NEW ref \in Consumes(kind, parents)
      PROVE  ref \in (Flow!LiveIn(FlowEvents) \cap Spendables) \ HeldRefs
  <2>1. ref \in Objects /\ Active(ref.objectType, SpendValue(ref))
    BY <1>1, <1>2
  <2>2. \/ \E n \in Notes : ref = Ref(NOTE, n)
        \/ \E v \in Vouchers : ref = Ref(VOUCHER, v)
    BY <2>1 DEF Objects, LedgerInv, MappingsTypeOK
  <2>3. ref \in Spendables
    BY <2>2, RefsOf DEF Spendables
  <2>4. ref \in Flow!Created(FlowEvents)
    BY <2>1, HistoryOfRecords DEF LedgerInv, ProducedOnce
  <2>5. SpentIn(ref) = 0
    BY <2>1, <2>2, RefFields, TypesDiffer DEF Active, Unspent, SpentIn
  <2>6. ref \notin Flow!Consumed(FlowEvents)
    BY <2>5, UnspentNotConsumed
  <2>7. ref \notin HeldRefs
    <3>1. ACTIVE \notin {FROZEN, REVOKED}
      BY DEF ACTIVE, FROZEN, REVOKED
    <3>2. CASE \E n \in Notes : ref = Ref(NOTE, n)
      <4>1. PICK n \in Notes : ref = Ref(NOTE, n)
        BY <3>2
      <4>2. At(noteStatusByNf, Nullifier(n)) = ACTIVE
        BY <2>1, <4>1, RefFields DEF Active, Unblocked, SpendValue
      <4> QED
        BY <3>1, <4>1, <4>2, StatusOfRefs DEF HeldRefs, LedgerInv
    <3>3. CASE \E v \in Vouchers : ref = Ref(VOUCHER, v)
      <4>1. PICK v \in Vouchers : ref = Ref(VOUCHER, v)
        BY <3>3
      <4>2. At(voucherStatusByNf, VoucherNullifier(v)) = ACTIVE
        BY <2>1, <4>1, RefFields, TypesDiffer DEF Active, Unblocked, SpendValue
      <4> QED
        BY <3>1, <4>1, <4>2, StatusOfRefs DEF HeldRefs, LedgerInv
    <3> QED
      BY <2>2, <3>2, <3>3
  <2> QED
    BY <2>3, <2>4, <2>6, <2>7 DEF Flow!LiveIn
<1>4. Range(outputs) \subseteq Refs \ Flow!Created(FlowEvents)
  <2>1. DOMAIN producerOf \cap Range(outputs) = {}
    BY RecordedProducers
  <2> QED
    BY <1>1, <2>1, HistoryOfRecords
<1> QED
  BY <1>3, <1>4 DEF Flow!Acceptable, Spendables

\* Recording an event appends it to the mapped history.
LEMMA RecordedAppended ==
  ASSUME LedgerInv, NEW kind, NEW spends, NEW parents, NEW outputs, NEW futureNfs,
         NEW policyRef, Recorded(kind, spends, parents, outputs, futureNfs, policyRef),
         NEW event, event = [inputs |-> Consumes(kind, parents), outputs |-> Range(outputs)]
  PROVE  /\ FlowEvents' = Append(FlowEvents, event)
         /\ FlowEvents' # <<>>
         /\ Flow!Last(FlowEvents') = event
<1>0. PICK aid : aid = nextAuditRecordId
  OBVIOUS
<1>1. aid \in Nat \ {0} /\ RecordIds = 1..(aid - 1) /\ RecordIds' = 1..aid
  BY <1>0 DEF LedgerInv, HistoryOK, RecordIds, Recorded, RecordPolicy
<1>2. /\ ParentRefs(aid)' = event.inputs
      /\ OutputRefs(aid)' = event.outputs
      /\ \A x \in RecordIds : /\ ParentRefs(x)' = ParentRefs(x)
                              /\ OutputRefs(x)' = OutputRefs(x)
  BY <1>0, RecordedRefs
<1>3. FlowEvents'[aid] = event /\ aid \in RecordIds'
  BY <1>1, <1>2 DEF FlowEvents
<1>4. \A x \in RecordIds : FlowEvents'[x] = FlowEvents[x]
  BY <1>1, <1>2 DEF FlowEvents
<1>5. DOMAIN FlowEvents' = 1..aid /\ FlowEvents' = [x \in 1..aid |-> FlowEvents'[x]]
  BY <1>1 DEF FlowEvents
<1>6. Len(FlowEvents) = aid - 1
  BY <1>0, EventsAreSequence
<1>7. FlowEvents' = [x \in 1..aid |-> IF x = aid THEN event ELSE FlowEvents[x]]
  BY <1>1, <1>3, <1>4, <1>5
<1>8. Append(FlowEvents, event)
        = [x \in 1..aid |-> IF x = aid THEN event ELSE FlowEvents[x]]
  <2> DEFINE T == {FlowEvents[x] : x \in RecordIds} \cup {event}
  <2>1. FlowEvents \in Seq(T)
    BY EventsAreSequence
  <2> HIDE DEF FlowEvents, T
  <2>2. event \in T
    BY DEF T
  <2>3. /\ Append(FlowEvents, event) \in Seq(T)
        /\ Len(Append(FlowEvents, event)) = aid
        /\ \A x \in 1..(aid - 1) : Append(FlowEvents, event)[x] = FlowEvents[x]
        /\ Append(FlowEvents, event)[aid] = event
    BY <1>1, <1>6, <2>1, <2>2, AppendProperties
  <2>4. /\ DOMAIN Append(FlowEvents, event) = 1..aid
        /\ Append(FlowEvents, event) = [x \in 1..aid |-> Append(FlowEvents, event)[x]]
    BY <1>1, <2>3
  <2> QED
    BY <1>1, <2>3, <2>4
<1>9. Len(FlowEvents') = aid
  BY <1>1, <1>5
<1> QED
  BY <1>1, <1>3, <1>5, <1>7, <1>8, <1>9 DEF Flow!Last

\* The status of the object ref was old and becomes new.
ChangesStatus(ref, old, new) ==
  \/ \E n \in Notes :
       /\ ref = Ref(NOTE, n)
       /\ old = At(noteStatusByNf, Nullifier(n))
       /\ noteStatusByNf' = Put(noteStatusByNf, {Nullifier(n)}, new)
       /\ UNCHANGED voucherStatusByNf
  \/ \E v \in Vouchers :
       /\ ref = Ref(VOUCHER, v)
       /\ old = At(voucherStatusByNf, VoucherNullifier(v))
       /\ voucherStatusByNf' = Put(voucherStatusByNf, {VoucherNullifier(v)}, new)
       /\ UNCHANGED noteStatusByNf

\* What a change of one status does to the blocked objects.
LEMMA StatusChanged ==
  ASSUME LedgerInv, LedgerInv', NEW ref, NEW old, NEW new, ChangesStatus(ref, old, new),
         NEW S, ACTIVE \notin S
  PROVE  /\ ref \in WithStatus(S) <=> old \in S
         /\ WithStatus(S)' = IF new \in S THEN WithStatus(S) \cup {ref}
                                          ELSE WithStatus(S) \ {ref}
<1> USE DEF ChangesStatus
<1>1. /\ \A n : Ref(NOTE, n) \in WithStatus(S) <=> At(noteStatusByNf, Nullifier(n)) \in S
      /\ \A v : Ref(VOUCHER, v) \in WithStatus(S)
                <=> At(voucherStatusByNf, VoucherNullifier(v)) \in S
      /\ \A n : Ref(NOTE, n) \in WithStatus(S)' <=> At(noteStatusByNf', Nullifier(n)) \in S
      /\ \A v : Ref(VOUCHER, v) \in WithStatus(S)'
                <=> At(voucherStatusByNf', VoucherNullifier(v)) \in S
  <2>1. MappingsTypeOK /\ MappingsTypeOK'
    BY DEF LedgerInv
  <2>2. MappingsTypeOK => /\ \A n : Ref(NOTE, n) \in WithStatus(S)
                                    <=> At(noteStatusByNf, Nullifier(n)) \in S
                          /\ \A v : Ref(VOUCHER, v) \in WithStatus(S)
                                    <=> At(voucherStatusByNf, VoucherNullifier(v)) \in S
    BY StatusOfRefs
  <2>3. (MappingsTypeOK => /\ \A n : Ref(NOTE, n) \in WithStatus(S)
                                     <=> At(noteStatusByNf, Nullifier(n)) \in S
                           /\ \A v : Ref(VOUCHER, v) \in WithStatus(S)
                                     <=> At(voucherStatusByNf, VoucherNullifier(v)) \in S)'
    BY StatusOfRefs, PTL
  <2> QED
    BY <2>1, <2>2, <2>3
<1>2. ref \in WithStatus(S) <=> old \in S
  BY <1>1
<1>3. \A n, m : Nullifier(n) = Nullifier(m) => n = m
  BY DEF Nullifier
<1>4. \A v, w : VoucherNullifier(v) = VoucherNullifier(w) => v = w
  BY DEF VoucherNullifier
<1>5. ASSUME NEW m \in Notes
      PROVE  Ref(NOTE, m) \in WithStatus(S)'
             <=> IF Ref(NOTE, m) = ref THEN new \in S ELSE Ref(NOTE, m) \in WithStatus(S)
  <2>1. ASSUME NEW n \in Notes, ref = Ref(NOTE, n),
               noteStatusByNf' = Put(noteStatusByNf, {Nullifier(n)}, new)
        PROVE  At(noteStatusByNf', Nullifier(m))
                 = IF Ref(NOTE, m) = ref THEN new ELSE At(noteStatusByNf, Nullifier(m))
    <3>1. At(noteStatusByNf', Nullifier(m))
            = IF Nullifier(m) \in {Nullifier(n)} THEN new ELSE At(noteStatusByNf, Nullifier(m))
      BY <2>1, AtPut
    <3>2. Nullifier(m) \in {Nullifier(n)} <=> Ref(NOTE, m) = ref
      BY <1>3, <2>1, RefFields
    <3> QED
      BY <3>1, <3>2
  <2>2. ASSUME NEW v \in Vouchers, ref = Ref(VOUCHER, v), UNCHANGED noteStatusByNf
        PROVE  At(noteStatusByNf', Nullifier(m))
                 = IF Ref(NOTE, m) = ref THEN new ELSE At(noteStatusByNf, Nullifier(m))
    <3>1. Ref(NOTE, m) # ref
      BY <2>2, RefFields, TypesDiffer
    <3> QED
      BY <2>2, <3>1
  <2> QED
    BY <1>1, <2>1, <2>2
<1>6. ASSUME NEW w \in Vouchers
      PROVE  Ref(VOUCHER, w) \in WithStatus(S)'
             <=> IF Ref(VOUCHER, w) = ref THEN new \in S ELSE Ref(VOUCHER, w) \in WithStatus(S)
  <2>1. ASSUME NEW v \in Vouchers, ref = Ref(VOUCHER, v),
               voucherStatusByNf' = Put(voucherStatusByNf, {VoucherNullifier(v)}, new)
        PROVE  At(voucherStatusByNf', VoucherNullifier(w))
                 = IF Ref(VOUCHER, w) = ref THEN new
                                            ELSE At(voucherStatusByNf, VoucherNullifier(w))
    <3>1. At(voucherStatusByNf', VoucherNullifier(w))
            = IF VoucherNullifier(w) \in {VoucherNullifier(v)} THEN new
              ELSE At(voucherStatusByNf, VoucherNullifier(w))
      BY <2>1, AtPut
    <3>2. VoucherNullifier(w) \in {VoucherNullifier(v)} <=> Ref(VOUCHER, w) = ref
      BY <1>4, <2>1, RefFields
    <3> QED
      BY <3>1, <3>2
  <2>2. ASSUME NEW n \in Notes, ref = Ref(NOTE, n), UNCHANGED voucherStatusByNf
        PROVE  At(voucherStatusByNf', VoucherNullifier(w))
                 = IF Ref(VOUCHER, w) = ref THEN new
                                            ELSE At(voucherStatusByNf, VoucherNullifier(w))
    <3>1. Ref(VOUCHER, w) # ref
      BY <2>2, RefFields, TypesDiffer
    <3> QED
      BY <2>2, <3>1
  <2> QED
    BY <1>1, <2>1, <2>2
<1>7. ASSUME NEW x \in WithStatus(S)
      PROVE  \/ \E n \in Notes : x = Ref(NOTE, n)
             \/ \E v \in Vouchers : x = Ref(VOUCHER, v)
  BY WithStatusTyped DEF LedgerInv
<1>8. ASSUME NEW x \in WithStatus(S)'
      PROVE  \/ \E n \in Notes : x = Ref(NOTE, n)
             \/ \E v \in Vouchers : x = Ref(VOUCHER, v)
  <2>1. \A s \in DOMAIN noteStatusByNf' : s.cm \in Notes
    BY DEF LedgerInv, MappingsTypeOK, IsMapping, NoteNfs, Nullifier
  <2>2. \A s \in DOMAIN voucherStatusByNf' : s.rv \in Vouchers
    BY DEF LedgerInv, MappingsTypeOK, IsMapping, VoucherNfs, VoucherNullifier
  <2> QED
    BY <2>1, <2>2 DEF WithStatus
<1>9. \/ \E n \in Notes : ref = Ref(NOTE, n)
      \/ \E v \in Vouchers : ref = Ref(VOUCHER, v)
  OBVIOUS
<1>10. \A x : x \in WithStatus(S)'
         <=> IF x = ref THEN new \in S ELSE x \in WithStatus(S)
  BY <1>5, <1>6, <1>7, <1>8, <1>9
<1> QED
  BY <1>2, <1>10

\* A change of one status is a step of AssetFlow: active to frozen blocks the
\* object, frozen to active releases it, frozen to revoked revokes it.
LEMMA StatusStepFlows ==
  ASSUME LedgerInv, LedgerInv', NEW ref \in Spendables, NEW old, NEW new,
         ChangesStatus(ref, old, new), StatusStep(old, new), SpentIn(ref) = 0,
         FlowEvents' = FlowEvents
  PROVE  Flow!Next
<1>1. /\ ACTIVE \notin {FROZEN, REVOKED} /\ ACTIVE \notin {REVOKED}
      /\ FROZEN \notin {REVOKED}
  BY DEF ACTIVE, FROZEN, REVOKED
<1>2. /\ ref \in HeldRefs <=> old \in {FROZEN, REVOKED}
      /\ HeldRefs' = IF new \in {FROZEN, REVOKED} THEN HeldRefs \cup {ref}
                                                  ELSE HeldRefs \ {ref}
  BY <1>1, StatusChanged DEF HeldRefs
<1>3. /\ ref \in BarredRefs <=> old \in {REVOKED}
      /\ BarredRefs' = IF new \in {REVOKED} THEN BarredRefs \cup {ref}
                                            ELSE BarredRefs \ {ref}
  BY <1>1, StatusChanged DEF BarredRefs
<1>4. CASE old = ACTIVE /\ new = FROZEN
  <2>1. ref \notin HeldRefs /\ HeldRefs' = HeldRefs \cup {ref} /\ BarredRefs' = BarredRefs
    BY <1>1, <1>2, <1>3, <1>4
  <2>2. ref \notin Flow!Consumed(FlowEvents)
    BY UnspentNotConsumed
  <2>3. Flow!Block(ref)
    BY <2>1, <2>2 DEF Flow!Block, FlowEvents, HeldRefs, BarredRefs
  <2>4. ref \in (HeldRefs' \ HeldRefs) \cap Spendables
    BY <2>1
  <2> QED
    BY <2>3, <2>4 DEF Flow!Next, HeldRefs, Spendables
<1>5. CASE old = FROZEN /\ new = ACTIVE
  <2>1. /\ ref \in HeldRefs \ BarredRefs /\ HeldRefs' = HeldRefs \ {ref}
        /\ BarredRefs' = BarredRefs
    BY <1>1, <1>2, <1>3, <1>5
  <2>2. Flow!Release(ref)
    BY <2>1 DEF Flow!Release, FlowEvents, HeldRefs, BarredRefs
  <2>3. ref \in HeldRefs \ HeldRefs'
    BY <2>1
  <2> QED
    BY <2>2, <2>3 DEF Flow!Next, HeldRefs
<1>6. CASE old = FROZEN /\ new = REVOKED
  <2>1. /\ ref \in HeldRefs \ BarredRefs /\ HeldRefs' = HeldRefs
        /\ BarredRefs' = BarredRefs \cup {ref}
    BY <1>1, <1>2, <1>3, <1>6
  <2>2. Flow!Revoke(ref)
    BY <2>1 DEF Flow!Revoke, FlowEvents, HeldRefs, BarredRefs
  <2>3. ref \in BarredRefs' \ BarredRefs
    BY <2>1
  <2> QED
    BY <2>2, <2>3 DEF Flow!Next, BarredRefs
<1> QED
  BY <1>4, <1>5, <1>6 DEF StatusStep

-----------------------------------------------------------------------------
\* The ledger implements AssetFlow: its initial state is the empty history,
\* every event is an acceptable event there, every change of a status blocks,
\* releases or revokes, and everything else is invisible.
THEOREM LedgerImplementsFlow == Spec => ImplementsAssetFlow
<1>1. Init => Flow!Init
  <2> SUFFICES ASSUME Init PROVE Flow!Init
    OBVIOUS
  <2>1. RecordIds = {}
    BY DEF Init, RecordIds
  <2>2. FlowEvents = <<>>
    BY <2>1 DEF FlowEvents
  <2>3. HeldRefs = {} /\ BarredRefs = {}
    BY DEF Init, HeldRefs, BarredRefs, WithStatus, EmptyMapping
  <2> QED
    BY <2>2, <2>3 DEF Flow!Init, FlowEvents, HeldRefs, BarredRefs
<1>2. ASSUME LedgerInv, LedgerInv', [Next]_vars
      PROVE  [Flow!Next]_Flow!flowVars
  <2>1. RecordsEvent \/ SetsStatus \/ Elsewhere
    BY <1>2, LedgerSteps DEF LedgerInv
  <2>2. CASE RecordsEvent
    <3>1. PICK kind, spends, parents, outputs, futureNfs, policyRef :
            Recorded(kind, spends, parents, outputs, futureNfs, policyRef)
      BY <2>2 DEF RecordsEvent
    <3>2. PICK event : event = [inputs |-> Consumes(kind, parents), outputs |-> Range(outputs)]
      OBVIOUS
    <3>3. /\ Flow!Acceptable(FlowEvents, HeldRefs, event)
          /\ FlowEvents' = Append(FlowEvents, event)
          /\ FlowEvents' # <<>>
          /\ Flow!Last(FlowEvents') = event
      BY <1>2, <3>1, <3>2, RecordedAcceptable, RecordedAppended
    <3>4. HeldRefs' = HeldRefs /\ BarredRefs' = BarredRefs
      BY <3>1 DEF Recorded, HeldRefs, BarredRefs, WithStatus
    <3>5. Flow!Record(event)
      BY <3>3, <3>4 DEF Flow!Record, FlowEvents, HeldRefs, BarredRefs
    <3> QED
      BY <3>3, <3>5 DEF Flow!Next, FlowEvents
  <2>3. CASE SetsStatus
    <3>1. UNCHANGED <<nextAuditRecordId, auditRecords>>
      BY <2>3 DEF SetsStatus, SetStatus
    <3>2. FlowEvents' = FlowEvents
      BY <3>1 DEF FlowEvents, RecordIds, ParentRefs, OutputRefs
    <3>3. ASSUME NEW n \in Notes, NEW new \in Statuses, SetStatus(NOTE, Nullifier(n), new)
          PROVE  Flow!Next
      <4>1. /\ StatusStep(At(noteStatusByNf, Nullifier(n)), new)
            /\ noteStatusByNf' = Put(noteStatusByNf, {Nullifier(n)}, new)
            /\ UNCHANGED voucherStatusByNf
            /\ At(noteSpentIn, Nullifier(n)) = 0
        BY <3>3, TypesDiffer DEF SetStatus
      <4>2. Ref(NOTE, n) \in Spendables /\ SpentIn(Ref(NOTE, n)) = 0
        BY <4>1, RefsOf, RefFields DEF Spendables, SpentIn, SpendValue
      <4>3. PICK ref, old :
                 /\ ref \in Spendables
                 /\ ref = Ref(NOTE, n)
                 /\ old = At(noteStatusByNf, Nullifier(n))
        BY <4>2
      <4>4. ChangesStatus(ref, old, new)
        BY <3>3, <4>1, <4>3 DEF ChangesStatus
      <4> QED
        BY <1>2, <3>2, <4>1, <4>2, <4>3, <4>4, StatusStepFlows
    <3>4. ASSUME NEW v \in Vouchers, NEW new \in Statuses,
                 SetStatus(VOUCHER, VoucherNullifier(v), new)
          PROVE  Flow!Next
      <4>1. /\ StatusStep(At(voucherStatusByNf, VoucherNullifier(v)), new)
            /\ voucherStatusByNf' = Put(voucherStatusByNf, {VoucherNullifier(v)}, new)
            /\ UNCHANGED noteStatusByNf
            /\ At(voucherSpentIn, VoucherNullifier(v)) = 0
        BY <3>4, TypesDiffer DEF SetStatus
      <4>2. Ref(VOUCHER, v) \in Spendables /\ SpentIn(Ref(VOUCHER, v)) = 0
        BY <4>1, RefsOf, RefFields, TypesDiffer DEF Spendables, SpentIn, SpendValue
      <4>3. PICK ref, old :
                 /\ ref \in Spendables
                 /\ ref = Ref(VOUCHER, v)
                 /\ old = At(voucherStatusByNf, VoucherNullifier(v))
        BY <4>2
      <4>4. ChangesStatus(ref, old, new)
        BY <3>4, <4>1, <4>3 DEF ChangesStatus
      <4> QED
        BY <1>2, <3>2, <4>1, <4>2, <4>3, <4>4, StatusStepFlows
    <3> QED
      BY <2>3, <3>3, <3>4 DEF SetsStatus
  <2>4. CASE Elsewhere
    <3>1. FlowEvents' = FlowEvents
      BY <2>4 DEF Elsewhere, FlowEvents, RecordIds, ParentRefs, OutputRefs
    <3>2. HeldRefs' = HeldRefs /\ BarredRefs' = BarredRefs
      BY <2>4 DEF Elsewhere, HeldRefs, BarredRefs, WithStatus
    <3> QED
      BY <3>1, <3>2 DEF Flow!flowVars, FlowEvents, HeldRefs, BarredRefs
  <2> QED
    BY <2>1, <2>2, <2>3, <2>4
<1> QED
  BY <1>1, <1>2, LedgerInvariant, PTL DEF Spec, ImplementsAssetFlow, Flow!Spec

-----------------------------------------------------------------------------
(* What AssetFlow promises (FlowProofs), of this ledger.                     *)

FlowP == INSTANCE FlowProofs WITH
  Objects   <- Refs,
  Spendable <- {ref \in Refs : ref.objectType # CLAIM},
  events    <- [aid \in RecordIds |-> [inputs |-> ParentRefs(aid),
                                       outputs |-> OutputRefs(aid)]],
  blocked   <- WithStatus({FROZEN, REVOKED}),
  revoked   <- WithStatus({REVOKED}),
  \* The comparison ledger, which FlowProofs is about too, has no part here.
  Administrator <- 0, Accounts <- {}, Documents <- {}, MaxTransactions <- 0,
  participants <- {}, documents <- <<>>, transitions <- <<>>

LEMMA FlowKeeps == Flow!Spec => []Flow!Sound /\ Flow!Lasting
<1>1. /\ Flow!Init <=> FlowP!Init
      /\ [Flow!Next]_(Flow!flowVars) <=> [FlowP!Next]_(FlowP!flowVars)
      /\ Flow!Sound <=> FlowP!Sound
  BY DEF Flow!Init, FlowP!Init, Flow!Next, FlowP!Next, Flow!flowVars,
    FlowP!flowVars, Flow!Sound, FlowP!Sound, Flow!Record, FlowP!Record,
    Flow!Block, FlowP!Block, Flow!Release, FlowP!Release, Flow!Revoke,
    FlowP!Revoke, Flow!Acceptable, FlowP!Acceptable, Flow!Last, FlowP!Last,
    Flow!LiveIn, FlowP!LiveIn, Flow!Created, FlowP!Created, Flow!Consumed,
    FlowP!Consumed, Flow!Causal, FlowP!Causal
<1>2. FlowP!Spec => []FlowP!Sound /\ FlowP!Lasting
  BY FlowP!FlowIsSound
<1> QED
  BY <1>1, <1>2, PTL
  DEF Flow!Spec, FlowP!Spec, Flow!Lasting, FlowP!Lasting, Flow!flowVars,
    FlowP!flowVars

\* On the main ledger nothing is consumed twice, before it exists or while it is
\* blocked, and no event or revocation is undone.
THEOREM LedgerSound == Spec => []Flow!Sound /\ Flow!Lasting
BY LedgerImplementsFlow, FlowKeeps DEF ImplementsAssetFlow
=============================================================================
