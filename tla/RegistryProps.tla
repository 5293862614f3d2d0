---------------------------- MODULE RegistryProps ----------------------------
(***************************************************************************)
(* What the DeviceRegistry owes its callers between two operations.        *)
(***************************************************************************)
EXTENDS Registry, FiniteSets

Live == registry.order
Entry(e) == registry.heap[e]
Slot(a) == registry.addressTable[a]

DeviceEntry ==
    [primaryAddress: Address, addresses: SUBSET Address,
     info: DeviceInfo, physical: PhysicalIdentity,
     identityKey: IdentityKey \union {NoKey},
     planes: SUBSET Provider, projections: SUBSET Provider,
     index: (SUBSET Provider) \union {NoIndex}, indexErr: BOOLEAN,
     Faces: UNION {[A -> BusFace] : A \in SUBSET Address}]

(* The types of registry.go:72-91, nil pointers included. *)
TypeOK ==
    /\ DOMAIN registry =
          {"observationGeneration", "proofGeneration", "providers", "entries",
           "addressTable", "identity", "qualifiedWitnesses", "topology", "order", "heap"}
    /\ registry.observationGeneration \in Nat
    /\ registry.proofGeneration \in Nat
    /\ registry.providers \subseteq Provider
    /\ registry.entries \in [Address -> EntryId \union {Nil}]
    /\ registry.addressTable \in [Address -> AddressSlot \union {NoSlot}]
    /\ registry.identity \in [IdentityKey -> EntryId \union {Nil}]
    /\ registry.qualifiedWitnesses \in
          [Address -> [authorityKey: IdentityKey \union {NoKey},
                       RegistryObservationGeneration: Nat, RegistryProofGeneration: Nat]]
    /\ registry.topology \in [Address -> SUBSET Address]
    /\ registry.order \in SUBSET EntryId
    /\ DOMAIN registry.heap = EntryId
    /\ \A e \in Live : Entry(e) \in DeviceEntry

(* The address map, the entries' own address lists, the slots' Device      *)
(* pointers and the iteration order describe one partition of the resolved *)
(* addresses, whatever sequence of joins, splits and merges led here.      *)
AddressPartition ==
    /\ \A a \in Address :
          /\ registry.entries[a] # Nil => /\ registry.entries[a] \in Live
                                          /\ a \in Entry(registry.entries[a]).addresses
                                          /\ Slot(a) # NoSlot
          /\ Slot(a) # NoSlot => Slot(a).Device = registry.entries[a]
    /\ \A e \in Live :
          /\ Entry(e).primaryAddress \in Entry(e).addresses
          /\ \A a \in Entry(e).addresses : registry.entries[a] = e

(* Routing reads the cached Faces: they say what the live slots say. *)
FacesMirrorSlots ==
    \A e \in Live : Entry(e).Faces = [a \in Entry(e).addresses |-> FaceOf(Slot(a))]

(* A frame for a role is sent to an address that resolves to the device    *)
(* now, and that has the role or, its role unobserved, the class for it.   *)
RoutedAddressesFitTheRole ==
    \A e \in Live : \A role \in {"Master", "Slave"} :
        \A a \in AddressByRole(Entry(e), role) :
            /\ registry.entries[a] = e
            /\ \/ Slot(a).Role = role
               \/ Slot(a).Role = "Unknown" /\ ClassOf[a] = role

(* The index selects exactly the entries whose current triple is published. *)
IdentityIndexIsCurrent ==
    /\ \A k \in IdentityKey :
          registry.identity[k] # Nil =>
              /\ registry.identity[k] \in Live
              /\ IsCurrentQualifiedIdentityKey(registry, registry.identity[k], k)
    /\ \A e \in Live :
          Entry(e).identityKey # NoKey => registry.identity[Entry(e).identityKey] = e

Witness(a) == registry.qualifiedWitnesses[a]
Witnessed == {a \in Address : Witness(a).authorityKey # NoKey}

(* No operation leaves behind a witness its address no longer earns. *)
WitnessesAreCurrent ==
    \A a \in Witnessed : QualifiedIdentityWitnessCurrent(registry, a)

(* Two addresses are proved to be the same device exactly when they belong *)
(* to one entry.                                                           *)
WitnessesAgreeWithGroups ==
    \A a, b \in Witnessed :
        Witness(a).authorityKey = Witness(b).authorityKey
            <=> registry.entries[a] = registry.entries[b]

(* Proof generations identify proofs and follow observation order. *)
ProofsAreOrdered ==
    /\ \A a \in Witnessed :
          /\ Witness(a).RegistryObservationGeneration \in 1 .. registry.observationGeneration
          /\ Witness(a).RegistryProofGeneration \in 1 .. registry.proofGeneration
    /\ \A a, b \in Witnessed :
          a # b => /\ Witness(a).RegistryProofGeneration # Witness(b).RegistryProofGeneration
                   /\ Witness(a).RegistryProofGeneration < Witness(b).RegistryProofGeneration
                      => Witness(a).RegistryObservationGeneration
                            < Witness(b).RegistryObservationGeneration

(* The registry implements the ledger of proofs its consumers rely on. *)
Ledger == INSTANCE WitnessLedger WITH
    Authority <- IdentityKey, NoAuthority <- NoKey,
    Group <- EntryId, NoGroup <- Nil,
    clock <- registry.observationGeneration, issued <- registry.proofGeneration,
    group <- registry.entries, proof <- registry.qualifiedWitnesses
LedgerSpec == Ledger!Spec

(* A consumer that holds a generation sees every later change of state. *)
EveryChangeAdvancesGeneration ==
    [][registry' # registry =>
          registry'.observationGeneration = registry.observationGeneration + 1]_registry

(* A face's confidence, role and source never regress, except that the one *)
(* face an operation is about may start afresh when it changes entry.      *)
HistoryRetained(old, new) ==
    old # NoSlot =>
        /\ new # NoSlot
        /\ new.VerificationState >= old.VerificationState
        /\ old.Role # "Unknown" => new.Role = old.Role
        /\ old.DiscoverySource # "Unknown" => new.DiscoverySource = old.DiscoverySource
FaceHistoryIsRetained ==
    [][\E subject \in Address : \A a \in Address :
          a # subject \/ registry'.entries[a] = registry.entries[a]
              => HistoryRetained(Slot(a), registry'.addressTable[a])]_registry

(* One operation concerns one address.  Another address changes entry only *)
(* when its whole group is merged into one that was known already, and     *)
(* nothing either knows of serial, MAC or model contradicts the other.     *)
Corroborating(e, d) ==
    /\ CanMergeIdentity(Entry(e).info, Entry(d).info)
    /\ ~ HasConflictingModelSignature(Entry(e).info, Entry(d).info)
BystandersMoveOnlyWithEvidence ==
    [][\E subject \in Address : \A x \in Address \ {subject} :
          LET from == registry.entries[x]
              to   == registry'.entries[x]
          IN  from \notin {Nil, to} =>
                  /\ to \in Live
                  /\ Corroborating(from, to)
                  /\ \A y \in Entry(from).addresses : registry'.entries[y] = to]_registry

Confirmed(r, a) ==
    r.addressTable[a] # NoSlot /\ r.addressTable[a].VerificationState = IdentityConfirmed

(* A face becomes confirmed because it was itself observed, which at most  *)
(* one face is per operation, or because explicit topology joins it to     *)
(* another confirmed face of its own entry.                                *)
ConfirmationFollowsTopology ==
    [][\E subject \in Address : \A x \in Address \ {subject} :
          Confirmed(registry', x) /\ ~ Confirmed(registry, x) =>
              \E y \in registry'.topology[x] :
                  /\ Confirmed(registry', y)
                  /\ registry'.entries[y] = registry'.entries[x]
                  /\ registry'.entries[subject] = registry'.entries[x]]_registry

(* "Leaving an address group invalidates any topology evidence attached to *)
(* that face" (registry_alias.go:372).                                     *)
TopologyJoinsOneGroup ==
    \A a \in Address : \A b \in registry.topology[a] :
        registry.entries[a] = registry.entries[b]

(* The index served for an entry is the index of the projections it shows. *)
IndexMatchesProjections ==
    \A e \in Live :
        Entry(e).index = IF Entry(e).indexErr THEN NoIndex ELSE Entry(e).projections

(* An address that resolves keeps resolving, to whichever entry: callers   *)
(* look an address up again after the lock was released and call a method  *)
(* on what they get (scan.go:202, 210, 213).                               *)
ResolvedStaysResolved ==
    [][\A a \in Address : registry.entries[a] # Nil => registry'.entries[a] # Nil]_registry
=============================================================================
