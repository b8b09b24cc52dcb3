--------------------------- MODULE PolicyRegistry ---------------------------
(***************************************************************************)
(* The Policy registry of contracts/src/ZkDPPV2Ledger.sol: authorities are *)
(* registered by the admin, an authority reserves a policy (family, first  *)
(* version), registers the reserved version with its verifier, reserves    *)
(* the next version, grants scopes and disables versions.  Every external  *)
(* function is one action; a call that reverts changes nothing and is no   *)
(* step.                                                                   *)
(*                                                                         *)
(* _computePolicyRef hashes (kind, authority, policy, version); the hash   *)
(* is collision-free here, so a reference is the record of the four        *)
(* values.  A verifier contract is named by the reference its circuit was  *)
(* compiled for: the circuits assert PolicyRef = <that constant>.          *)
(***************************************************************************)
EXTENDS SolidityMapping

CONSTANTS
  Accounts,        \* Ethereum accounts other than address(0)
  Scopes,          \* non-zero policy scope references
  Verifiers,       \* addresses with code that registerPolicy may be given
  MaxAuthorities,  \* bound on nextAuthorityId
  MaxPolicies,     \* bound on nextPolicyId of an authority
  MaxVersions      \* bound on nextPolicyVersion of a policy

ASSUME RegistryAssumption ==
  /\ MaxAuthorities \in Nat
  /\ MaxPolicies \in Nat
  /\ MaxVersions \in Nat

VARIABLES
  nextAuthorityId,
  authorityIdOf,       \* account -> authority id
  policyAuthorities,   \* authority id -> [account, enabled]
  nextPolicyId,        \* authority id -> next policy id
  nextPolicyVersion,   \* <<authority id, policy id>> -> next version
  policyFamilies,      \* <<authority id, policy id>> -> event kind
  policyReservations,  \* policy ref -> reservation
  policyRecords,       \* policy ref -> record
  policyGrants         \* the granted <<policy ref, scope>> pairs

registryVars == <<nextAuthorityId, authorityIdOf, policyAuthorities,
                  nextPolicyId, nextPolicyVersion, policyFamilies,
                  policyReservations, policyRecords, policyGrants>>

PROCESS == 6
ISSUE   == 8

PolicyRef(kind, a, p, v) ==
  [kind |-> kind, authority |-> a, policy |-> p, version |-> v]

PolicyRefs == [kind : {PROCESS, ISSUE}, authority : Nat \ {0},
               policy : Nat \ {0}, version : Nat \ {0}]

Reservation(ref) == [authorityId |-> ref.authority, policyId |-> ref.policy,
                     version |-> ref.version, eventKind |-> ref.kind]

-----------------------------------------------------------------------------
RegistryInit ==
  /\ nextAuthorityId = 1
  /\ authorityIdOf = EmptyMapping
  /\ policyAuthorities = EmptyMapping
  /\ nextPolicyId = EmptyMapping
  /\ nextPolicyVersion = EmptyMapping
  /\ policyFamilies = EmptyMapping
  /\ policyReservations = EmptyMapping
  /\ policyRecords = EmptyMapping
  /\ policyGrants = {}

\* _authority: the sender is a registered and enabled authority.
IsAuthority(sender) ==
  /\ At(authorityIdOf, sender) # 0
  /\ policyAuthorities[authorityIdOf[sender]].enabled

Unregistered(account) == At(authorityIdOf, account) = 0

\* Called by the admin.
RegisterPolicyAuthority(account) ==
  /\ nextAuthorityId <= MaxAuthorities
  /\ Unregistered(account)
  /\ nextAuthorityId' = nextAuthorityId + 1
  /\ authorityIdOf' = Put(authorityIdOf, {account}, nextAuthorityId)
  /\ policyAuthorities' = Put(policyAuthorities, {nextAuthorityId},
                              [account |-> account, enabled |-> TRUE])
  /\ nextPolicyId' = Put(nextPolicyId, {nextAuthorityId}, 1)
  /\ UNCHANGED <<nextPolicyVersion, policyFamilies, policyReservations,
                 policyRecords, policyGrants>>

ReservePolicy(sender, kind) ==
  LET a   == authorityIdOf[sender]
      p   == nextPolicyId[a]
      ref == PolicyRef(kind, a, p, 1)
  IN  /\ IsAuthority(sender)
      /\ kind \in {PROCESS, ISSUE}
      /\ p <= MaxPolicies
      /\ nextPolicyId' = Put(nextPolicyId, {a}, p + 1)
      /\ policyFamilies' = Put(policyFamilies, {<<a, p>>}, kind)
      /\ nextPolicyVersion' = Put(nextPolicyVersion, {<<a, p>>}, 2)
      /\ policyReservations' = Put(policyReservations, {ref}, Reservation(ref))
      /\ UNCHANGED <<nextAuthorityId, authorityIdOf, policyAuthorities,
                     policyRecords, policyGrants>>

\* The version before the one to reserve next.
PreviousRef(family) ==
  PolicyRef(policyFamilies[family], family[1], family[2], nextPolicyVersion[family] - 1)

\* Mutant: any reserved previous version will do.
PreviousIsReserved(family) == PreviousRef(family) \in DOMAIN policyReservations

PreviousIsRegistered(family) == PreviousRef(family) \in DOMAIN policyRecords

\* The next version may be reserved once the previous one is registered.
ReservePolicyVersion(sender, p) ==
  LET a       == authorityIdOf[sender]
      family  == <<a, p>>
      version == nextPolicyVersion[family]
      ref     == PolicyRef(policyFamilies[family], a, p, version)
  IN  /\ IsAuthority(sender)
      /\ family \in DOMAIN policyFamilies
      /\ PreviousIsRegistered(family)
      /\ version <= MaxVersions
      /\ nextPolicyVersion' = Put(nextPolicyVersion, {family}, version + 1)
      /\ policyReservations' = Put(policyReservations, {ref}, Reservation(ref))
      /\ UNCHANGED <<nextAuthorityId, authorityIdOf, policyAuthorities,
                     nextPolicyId, policyFamilies, policyRecords, policyGrants>>

ArityOK(kind, inputs, outputs) ==
  \/ kind = PROCESS /\ inputs = 3 /\ outputs = 2
  \/ kind = ISSUE   /\ inputs = 1 /\ outputs = 1

\* ref is reserved by the sender's authority.
ReservedBy(sender, ref) ==
  /\ ref \in DOMAIN policyReservations
  /\ policyReservations[ref].authorityId = authorityIdOf[sender]

\* A reference is registered once.
Registrable(sender, ref) == ReservedBy(sender, ref) /\ ref \notin DOMAIN policyRecords

RegisterPolicy(sender, ref, inputs, outputs, vkHash, verifier) ==
  LET r == policyReservations[ref]
  IN  /\ IsAuthority(sender)
      /\ Registrable(sender, ref)
      /\ verifier \in Verifiers
      /\ vkHash # 0
      /\ ArityOK(r.eventKind, inputs, outputs)
      /\ policyRecords' =
           Put(policyRecords, {ref},
               [authorityId |-> r.authorityId, policyId |-> r.policyId,
                version |-> r.version, eventKind |-> r.eventKind,
                inputArity |-> inputs, outputArity |-> outputs,
                vkHash |-> vkHash, verifierRef |-> verifier, enabled |-> TRUE])
      /\ UNCHANGED <<nextAuthorityId, authorityIdOf, policyAuthorities,
                     nextPolicyId, nextPolicyVersion, policyFamilies,
                     policyReservations, policyGrants>>

\* ref is a registered policy of the sender's authority.
OwnsPolicy(sender, ref) ==
  /\ ref \in DOMAIN policyRecords
  /\ IsAuthority(sender)
  /\ policyRecords[ref].authorityId = authorityIdOf[sender]

Grantable(sender, ref) ==
  OwnsPolicy(sender, ref) /\ policyRecords[ref].eventKind = PROCESS

\* Grants are not refused for a disabled policy: _policy refuses its use.
SetPolicyGrant(sender, ref, scope, allowed) ==
  /\ Grantable(sender, ref)
  /\ policyGrants' = IF allowed THEN policyGrants \cup {<<ref, scope>>}
                                ELSE policyGrants \ {<<ref, scope>>}
  /\ UNCHANGED <<nextAuthorityId, authorityIdOf, policyAuthorities,
                 nextPolicyId, nextPolicyVersion, policyFamilies,
                 policyReservations, policyRecords>>

DisablePolicy(sender, ref) ==
  /\ OwnsPolicy(sender, ref)
  /\ policyRecords[ref].enabled
  /\ policyRecords' = [policyRecords EXCEPT ![ref].enabled = FALSE]
  /\ UNCHANGED <<nextAuthorityId, authorityIdOf, policyAuthorities,
                 nextPolicyId, nextPolicyVersion, policyFamilies,
                 policyReservations, policyGrants>>

RegistryNext ==
  \/ \E account \in Accounts : RegisterPolicyAuthority(account)
  \/ \E sender \in Accounts, kind \in {PROCESS, ISSUE} : ReservePolicy(sender, kind)
  \/ \E sender \in Accounts, p \in 1..MaxPolicies : ReservePolicyVersion(sender, p)
  \/ \E sender \in Accounts, ref \in DOMAIN policyReservations,
        inputs \in 1..3, outputs \in 1..2, vkHash \in 0..1, verifier \in Verifiers :
       RegisterPolicy(sender, ref, inputs, outputs, vkHash, verifier)
  \/ \E sender \in Accounts, ref \in DOMAIN policyRecords,
        scope \in Scopes, allowed \in BOOLEAN :
       SetPolicyGrant(sender, ref, scope, allowed)
  \/ \E sender \in Accounts, ref \in DOMAIN policyRecords : DisablePolicy(sender, ref)

RegistrySpec == RegistryInit /\ [][RegistryNext]_registryVars

-----------------------------------------------------------------------------
\* ref names a policy of this kind and arity, enabled or not.
PolicyOfKind(ref, kind, inputs, outputs) ==
  /\ ref \in DOMAIN policyRecords
  /\ policyRecords[ref].eventKind = kind
  /\ policyRecords[ref].inputArity = inputs
  /\ policyRecords[ref].outputArity = outputs

\* _policy.
UsablePolicy(ref, kind, inputs, outputs) ==
  PolicyOfKind(ref, kind, inputs, outputs) /\ policyRecords[ref].enabled

\* policyGrants[ref][scope].
Granted(ref, scope) == <<ref, scope>> \in policyGrants

-----------------------------------------------------------------------------
PolicyRecordType ==
  [authorityId : Nat \ {0}, policyId : Nat \ {0}, version : Nat \ {0},
   eventKind : {PROCESS, ISSUE}, inputArity : {1, 3}, outputArity : {1, 2},
   vkHash : Nat \ {0}, verifierRef : Verifiers, enabled : BOOLEAN]

\* Every mapping of the registry holds keys and values of its declared type.
RegistryTypeOK ==
  /\ nextAuthorityId \in Nat \ {0}
  /\ IsMapping(authorityIdOf, Accounts, Nat \ {0})
  /\ IsMapping(policyAuthorities, Nat \ {0}, [account : Accounts, enabled : {TRUE}])
  /\ IsMapping(nextPolicyId, Nat \ {0}, Nat \ {0})
  /\ IsMapping(nextPolicyVersion, (Nat \ {0}) \X (Nat \ {0}), Nat \ {0})
  /\ IsMapping(policyFamilies, (Nat \ {0}) \X (Nat \ {0}), {PROCESS, ISSUE})
  /\ IsMapping(policyReservations, PolicyRefs,
               [authorityId : Nat \ {0}, policyId : Nat \ {0},
                version : Nat \ {0}, eventKind : {PROCESS, ISSUE}])
  /\ IsMapping(policyRecords, PolicyRefs, PolicyRecordType)
  /\ policyGrants \subseteq PolicyRefs \X Scopes

\* An account is one authority and an authority one account, however often
\* registerPolicyAuthority is called: both directions of the mapping agree,
\* and ids are dense.
AuthoritiesBijective ==
  /\ DOMAIN policyAuthorities = 1..(nextAuthorityId - 1)
  /\ \A id \in DOMAIN policyAuthorities :
       /\ policyAuthorities[id].account \in DOMAIN authorityIdOf
       /\ authorityIdOf[policyAuthorities[id].account] = id
  /\ \A account \in DOMAIN authorityIdOf :
       /\ authorityIdOf[account] \in DOMAIN policyAuthorities
       /\ policyAuthorities[authorityIdOf[account]].account = account

\* reservePolicyVersion looks at the previous version only; still no version
\* is ever reserved while any lower version of the same policy and kind is
\* unregistered, so a policy's version history has no hole.
VersionsContiguous ==
  \A ref \in DOMAIN policyReservations :
    \A v \in 1..(ref.version - 1) :
      PolicyRef(ref.kind, ref.authority, ref.policy, v) \in DOMAIN policyRecords

\* A policy id of an authority has one kind for all its versions: no reference
\* is reserved under the other kind, what is registered is what was reserved by
\* the same authority, and scopes are granted on PROCESS policies only.
FamilyKindFixed ==
  /\ \A ref \in DOMAIN policyReservations :
       /\ policyReservations[ref] = Reservation(ref)
       /\ <<ref.authority, ref.policy>> \in DOMAIN policyFamilies
       /\ policyFamilies[<<ref.authority, ref.policy>>] = ref.kind
  /\ \A ref \in DOMAIN policyRecords :
       /\ ref \in DOMAIN policyReservations
       /\ policyRecords[ref].authorityId = ref.authority
       /\ policyRecords[ref].eventKind = ref.kind
       /\ ArityOK(ref.kind, policyRecords[ref].inputArity,
                  policyRecords[ref].outputArity)
  /\ \A grant \in policyGrants :
       grant[1] \in DOMAIN policyRecords /\ grant[1].kind = PROCESS

\* disablePolicy is final: once disabled, a record never changes again, and no
\* later registration, version or grant replaces or re-enables it.  While
\* enabled, disabling is the only change a record can see.
DisabledForever ==
  [][\A ref \in DOMAIN policyRecords :
       /\ ref \in DOMAIN policyRecords'
       /\ policyRecords'[ref] \in
            {policyRecords[ref], [policyRecords[ref] EXCEPT !.enabled = FALSE]}]_registryVars
=============================================================================
