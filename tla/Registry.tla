------------------------------ MODULE Registry ------------------------------
(***************************************************************************)
(* The DeviceRegistry (package registry).  Every public mutation runs      *)
(* under the write lock r.mu, so each is one action; callers on different  *)
(* goroutines interleave them freely.  The state is one record, as the Go  *)
(* receiver is one struct, and each *Locked helper is an operator from a   *)
(* registry record to the registry record it leaves behind.                *)
(*                                                                         *)
(* A *deviceEntry pointer is a member of EntryId; heap holds what it       *)
(* points to.  entry.addresses, and r.order, are sets: when a group loses  *)
(* its primary address the new one is any remaining member, because the    *)
(* slice order behind addresses[0] is not kept.  entry.info.Address is     *)
(* always assigned together with primaryAddress and is not kept apart.     *)
(* Observation times are left out.  planes, projections and the canonical  *)
(* index are the sets of providers they were built from.                   *)
(***************************************************************************)
EXTENDS DeviceIdentity, Naturals

CONSTANTS
    Address,              \* the bus addresses of the instance
    ClassOf,              \* protocol.AddressClassOf (external)
    CompanionOf,          \* protocol.CompanionOfSource (external), partial
    Observation,          \* the DeviceInfo values callers can register
    ObservedRole,         \* the roles callers stamp observations with
    Provider,             \* the plane providers
    InitialProviders,     \* those given to NewDeviceRegistry
    ProvidesProjections,  \* those implementing ProjectionProvider
    MalformedProjections, \* those whose projections BuildCanonicalIndex rejects
    Match(_, _),          \* Match(p, info): provider p claims the device
    EntryId,              \* identities of *deviceEntry allocations
    Nil,                  \* the nil *deviceEntry
    NoSlot,               \* the nil *AddressSlot
    NoIndex,              \* the zero CanonicalIndex, its maps nil
    Unallocated,          \* what a never-allocated EntryId points to
    MaxObservationGeneration \* bound on observationGeneration, for TLC

VARIABLE registry

SlotRole          == {"Unknown", "Master", "Slave"}
DiscoverySource   == {"Unknown", "PassiveObserved", "StaticSeed", "ActiveConfirmed"}
Candidate         == 1
Corroborated      == 2
IdentityConfirmed == 3
VerificationState == 0 .. IdentityConfirmed

AddressSlot ==
    [Role: SlotRole, DiscoverySource: DiscoverySource,
     VerificationState: VerificationState, Device: EntryId \union {Nil}]

ASSUME NullAssumption == Nil \notin EntryId /\ NoSlot \notin AddressSlot

ASSUME ObservationAssumption ==
    Observation \subseteq DeviceInfo /\ ObservedRole \subseteq SlotRole

ASSUME ProviderAssumption == InitialProviders \subseteq Provider

ASSUME AddressAssumption ==
    /\ Address # {}
    /\ ClassOf \in [Address -> {"Master", "Slave", "Reserved"}]
    /\ DOMAIN CompanionOf \subseteq Address
    /\ \A a \in DOMAIN CompanionOf : CompanionOf[a] \in Address

(* canonicalPhysicalIdentity(o).key() of every observation, and the keys   *)
(* that can index an entry: those some observation carries complete.       *)
IncomingKey == [o \in Observation |-> KeyOf(o)]
IdentityKey == {IncomingKey[o] : o \in Observation} \ {NoKey}

BusFace ==
    [Role: SlotRole, DiscoverySource: DiscoverySource,
     VerificationState: VerificationState]

FaceOf(slot) ==
    [Role |-> slot.Role, DiscoverySource |-> slot.DiscoverySource,
     VerificationState |-> slot.VerificationState]

EmptySlot ==
    [Role |-> "Unknown", DiscoverySource |-> "Unknown",
     VerificationState |-> 0, Device |-> Nil]

(* The deviceEntry literal registerLocked starts a new entry from. *)
NewEntry(a) ==
    [primaryAddress |-> a, addresses |-> {a},
     info |-> NoInfo, physical |-> NoInfo, identityKey |-> NoKey,
     planes |-> {}, projections |-> {}, index |-> NoIndex, indexErr |-> FALSE,
     Faces |-> [x \in {} |-> EmptySlot]]

NoWitness ==
    [authorityKey |-> NoKey,
     RegistryObservationGeneration |-> 0, RegistryProofGeneration |-> 0]

Init ==
    registry =
        [observationGeneration |-> 0,
         proofGeneration       |-> 0,
         providers             |-> InitialProviders,
         entries               |-> [a \in Address |-> Nil],
         addressTable          |-> [a \in Address |-> NoSlot],
         identity              |-> [k \in IdentityKey |-> Nil],
         qualifiedWitnesses    |-> [a \in Address |-> NoWitness],
         topology              |-> [a \in Address |-> {}],
         order                 |-> {},
         heap                  |-> [e \in EntryId |-> Unallocated]]

-----------------------------------------------------------------------------
(* Slots and faces *)

EnsureSlot(slot) == IF slot = NoSlot THEN EmptySlot ELSE slot

(* Slips: confidence overwritten, or added up, instead of raised. *)
Overwritten(state, floor) == floor
AddedUp(state, floor)     == state + floor
AtLeast(state, floor) == IF state < floor THEN floor ELSE state

(* recordDiscoverySource: the first known source is retained. *)
RecordDiscoverySource(slot, source) ==
    IF slot.DiscoverySource = "Unknown" THEN source ELSE slot.DiscoverySource

StickyRole(slot, role) == IF slot.Role = "Unknown" THEN role ELSE slot.Role

(* A slot stamped with a source, a confidence floor and a role. *)
Stamp(slot, source, floor, role) ==
    [slot EXCEPT
        !.DiscoverySource   = RecordDiscoverySource(slot, source),
        !.VerificationState = AtLeast(slot.VerificationState, floor),
        !.Role              = StickyRole(slot, role)]

MarkSlotPassiveObservedLocked(slot, role) ==
    Stamp(slot, "PassiveObserved", Corroborated, role)
MarkSlotStaticSeedLocked(slot, role) ==
    Stamp(slot, "StaticSeed", Candidate, role)

SetSlot(s, a, slot) == [s EXCEPT !.addressTable[a] = slot]
SlotFor(s, a)       == EnsureSlot(s.addressTable[a])
(* Slip: a slot that has a device is never moved to another. *)
AttachedIfFree(slot, e) == IF slot.Device = Nil THEN [slot EXCEPT !.Device = e] ELSE slot
Attached(slot, e)   == [slot EXCEPT !.Device = e]

ObserveAddressSlotLocked(s, a, e, state) ==
    SetSlot(s, a, Attached(Stamp(SlotFor(s, a), "ActiveConfirmed", state, "Unknown"), e))

(* Every address of e has a slot, attached to e unless another entry holds *)
(* it, and e's Faces are copied from those slots.                          *)
SyncEntryFacesLocked(s, e) ==
    LET addresses == s.heap[e].addresses
        synced(a) == IF SlotFor(s, a).Device = Nil THEN Attached(SlotFor(s, a), e)
                                                   ELSE SlotFor(s, a)
    IN  [s EXCEPT
            !.addressTable  = [a \in Address |->
                                  IF a \in addresses THEN synced(a) ELSE @[a]],
            !.heap[e].Faces = [a \in addresses |-> FaceOf(synced(a))]]

(* Slip: marking a slot does not refresh its entry's faces. *)
FacesLeftStale(s, a) == s
SyncIfAttached(s, a) ==
    IF s.addressTable[a].Device = Nil THEN s
                                      ELSE SyncEntryFacesLocked(s, s.addressTable[a].Device)

(* Slip: the address class is trusted before the observed role. *)
ByClassOnly(entry, role) == {a \in DOMAIN entry.Faces : ClassOf[a] = role}
(* deviceEntry.AddressByRole: an explicit role wins over one inferred from *)
(* the address class; the faces that may be returned for a role.           *)
AddressByRole(entry, role) ==
    LET explicit == {a \in DOMAIN entry.Faces : entry.Faces[a].Role = role}
        inferred == {a \in DOMAIN entry.Faces :
                        entry.Faces[a].Role = "Unknown" /\ ClassOf[a] = role}
    IN  IF explicit # {} THEN explicit ELSE inferred

-----------------------------------------------------------------------------
(* The identity index *)

IsCurrentQualifiedIdentityKey(s, e, key) ==
    /\ e # Nil
    /\ key # NoKey
    /\ s.heap[e].identityKey = key
    /\ Key(s.heap[e].physical) = key

(* The entry a key selects: none when the row is stale. *)
CurrentIdentityEntry(s, key) ==
    IF key = NoKey \/ ~ IsCurrentQualifiedIdentityKey(s, s.identity[key], key)
    THEN Nil ELSE s.identity[key]

(* currentIdentityEntryLocked also deletes the stale row it meets. *)
DropStaleIdentity(s, key) ==
    IF key = NoKey \/ IsCurrentQualifiedIdentityKey(s, s.identity[key], key)
    THEN s ELSE [s EXCEPT !.identity[key] = Nil]

(* Slip: an entry keeps the rows of its former triples. *)
KeepHistoricalBindings(s, e, key) == s
(* e's rows other than the one for key are deleted. *)
RetainCurrentIdentityBindingLocked(s, e, key) ==
    [s EXCEPT !.identity = [k \in IdentityKey |->
                               IF @[k] = e /\ k # key THEN Nil ELSE @[k]]]
RemoveIdentityBindingsLocked(s, e) == RetainCurrentIdentityBindingLocked(s, e, NoKey)

BindIdentity(s, e, key) ==
    [s EXCEPT !.heap[e].identityKey = key,
              !.identity = [k \in IdentityKey |-> IF k = key THEN e ELSE @[k]]]

(* The key e may publish: none when the key's current owner conflicts. *)
PublishableKey(s, e, key, incumbent) ==
    IF /\ incumbent \notin {Nil, e}
       /\ ~ CanMergeIdentity(s.heap[e].info, s.heap[incumbent].info)
    THEN NoKey ELSE key

ReplaceBinding(s, e, key) ==
    BindIdentity(RetainCurrentIdentityBindingLocked(s, e, key), e, key)

PublishCurrentIdentityBindingLocked(s, e, key) ==
    ReplaceBinding(DropStaleIdentity(s, key), e,
                   PublishableKey(s, e, key, CurrentIdentityEntry(s, key)))

-----------------------------------------------------------------------------
(* Topology: explicit source-target relations, kept apart from identity *)

RecordTopologyAliasLocked(s, a, b) ==
    IF a = b THEN s
    ELSE [s EXCEPT !.topology[a] = @ \union {b}, !.topology[b] = @ \union {a}]

ForgetTopologyAddressLocked(s, a) ==
    [s EXCEPT !.topology = [x \in Address |-> IF x = a THEN {} ELSE @[x] \ {a}]]

(* What the breadth-first walk of confirmTopologyIdentitySlotsLocked sees: *)
(* the least set holding a and closed under the topology edges between     *)
(* addresses that resolve to e.                                            *)
TopologyClosed(s, e, S) ==
    \A x \in S : s.entries[x] = e =>
        \A y \in s.topology[x] : s.entries[y] = e => y \in S
(* Slip: sharing an identity is taken for topology. *)
IdentityMembers(s, a, e) == {x \in Address : s.entries[x] = e}
Joined(s, a, e) ==
    {x \in Address : /\ s.entries[x] = e
                     /\ \A S \in SUBSET Address :
                            (a \in S /\ TopologyClosed(s, e, S)) => x \in S}

ConfirmTopologyIdentitySlotsLocked(s, a, e) ==
    LET joined == Joined(s, a, e)
    IN  [s EXCEPT !.addressTable =
        [x \in Address |->
            IF x \in joined
            THEN [SlotFor(s, x) EXCEPT !.VerificationState = AtLeast(@, IdentityConfirmed)]
            ELSE @[x]]]

-----------------------------------------------------------------------------
(* Joining and leaving address groups *)

IndexOf(projections) == IF projections \intersect MalformedProjections # {}
                        THEN NoIndex ELSE projections

(* absorbIdentityLocked: dst's empty fields and derived state are filled   *)
(* from src.  An index counts as absent only when its maps are nil.        *)
AbsorbIdentity(dst, src, info) ==
    [dst EXCEPT
        !.info        = info,
        !.physical    = IF @ = NoInfo THEN src.physical
                                      ELSE CanonicalPhysicalIdentity(info),
        !.planes      = IF @ = {} THEN src.planes ELSE @,
        !.projections = IF @ = {} THEN src.projections ELSE @,
        !.index       = IF @ = NoIndex THEN src.index ELSE @,
        !.indexErr    = @ \/ src.indexErr]
AbsorbIdentityLocked(s, dst, src) ==
    [s EXCEPT !.heap[dst] =
        AbsorbIdentity(@, s.heap[src], FillMissing(@.info, s.heap[src].info))]

(* All of src's addresses move to dst, and src leaves the registry. *)
MergeRegisteredAliasesLocked(s, dst, src) ==
    LET moved == s.heap[src].addresses
    IN  RemoveIdentityBindingsLocked(
            [AbsorbIdentityLocked(s, dst, src) EXCEPT
                !.heap[dst].addresses = @ \union moved,
                !.entries      = [a \in Address |-> IF a \in moved THEN dst ELSE @[a]],
                !.addressTable = [a \in Address |->
                    IF a \in moved THEN Attached(SlotFor(s, a), dst) ELSE @[a]],
                !.order        = @ \ {src}],
            src)

(* The group e without address a; heir is its next primary address. *)
WithoutAddress(entry, a, heir) ==
    [entry EXCEPT !.addresses = @ \ {a},
                  !.primaryAddress = IF @ = a THEN heir ELSE @]

(* Slip: a group is dropped with the address that leaves it. *)
DetachGroup(s, e, a, heir) ==
    [s EXCEPT !.entries = [x \in Address |-> IF @[x] = e THEN Nil ELSE @[x]],
              !.order   = @ \ {e}]
(* detachAddressLocked: a leaves e's group and loses its slot and topology. *)
DetachAddressLocked(s, e, a, heir) ==
    LET unslotted == [s EXCEPT !.entries[a] = Nil,
                               !.addressTable[a] = IF @ # NoSlot /\ @.Device = e
                                                   THEN NoSlot ELSE @]
        left == [ForgetTopologyAddressLocked(unslotted, a) EXCEPT
                    !.heap[e] = WithoutAddress(@, a, heir)]
    IN  CASE a \notin s.heap[e].addresses -> unslotted
          [] s.heap[e].addresses = {a} ->
                [RemoveIdentityBindingsLocked(left, e) EXCEPT !.order = @ \ {e}]
          [] OTHER -> SyncEntryFacesLocked(left, e)

(* The possible next primaries of the group of a, when a leaves it. *)
Heirs(s, a) ==
    LET e == s.entries[a]
    IN  IF e = Nil \/ s.heap[e].primaryAddress # a \/ s.heap[e].addresses = {a}
        THEN {a} ELSE s.heap[e].addresses \ {a}

(* The authority a merged group keeps: the one canonical, or else          *)
(* secondary, already had, if the merged identity still spells it.         *)
MergedAuthority(s, canonical, secondary, physical) ==
    LET had == IF s.heap[canonical].identityKey # NoKey
               THEN s.heap[canonical].identityKey ELSE s.heap[secondary].identityKey
    IN  IF Key(physical) = had THEN had ELSE NoKey

WithPhysical(s, canonical, secondary, physical) ==
    PublishCurrentIdentityBindingLocked(
        [s EXCEPT !.heap[canonical].physical = physical], canonical,
        MergedAuthority(s, canonical, secondary, physical))
RebuildPhysical(s, canonical, secondary) ==
    WithPhysical(s, canonical, secondary,
                 CanonicalPhysicalIdentity(s.heap[canonical].info))

(* mergeRemovedAliasEntryLocked: canonical keeps useful fields of the      *)
(* removed secondary.                                                      *)
MergeRemovedAliasEntryLocked(s, canonical, secondary) ==
    [RebuildPhysical(RemoveIdentityBindingsLocked(
         AbsorbIdentityLocked(s, canonical, secondary), secondary), canonical, secondary)
     EXCEPT !.order = @ \ {secondary}]

(* AliasAddresses, once it is known that "from" joins the group canonical: *)
(* the group "from" belonged to disappears or survives without it.         *)
LeaveSecondary(s, canonical, from, secondary, heir) ==
    IF secondary \in {Nil, canonical} THEN s
    ELSE LET left == [s EXCEPT !.heap[secondary] = WithoutAddress(@, from, heir)]
         IN  IF s.heap[secondary].addresses = {from}
             THEN MergeRemovedAliasEntryLocked(left, canonical, secondary)
             ELSE SyncEntryFacesLocked(left, secondary)

JoinGroup(s, canonical, from) ==
    SyncEntryFacesLocked(
        [s EXCEPT !.addressTable[from]        = Attached(@, canonical),
                  !.heap[canonical].addresses = @ \union {from},
                  !.entries[from]             = canonical],
        canonical)

MoveToGroup(s, canonical, from, heir) ==
    JoinGroup(LeaveSecondary(s, canonical, from, s.addressTable[from].Device, heir),
              canonical, from)

(* The canonical group is a's, or else b's; without either nothing moves. *)
Grouped(s, a, b, heir) ==
    CASE s.addressTable[a].Device # Nil -> MoveToGroup(s, s.addressTable[a].Device, b, heir)
      [] /\ s.addressTable[a].Device = Nil
         /\ s.addressTable[b].Device # Nil -> MoveToGroup(s, s.addressTable[b].Device, a, heir)
      [] OTHER -> s

RecordIfJoined(s, a, b) ==
    IF s.entries[a] # Nil /\ s.entries[a] = s.entries[b]
    THEN RecordTopologyAliasLocked(s, a, b) ELSE s

Ensured(s, addresses) ==
    [s EXCEPT !.addressTable = [x \in Address |->
                                   IF x \in addresses THEN SlotFor(s, x) ELSE @[x]]]

Aliased(s, a, b, heir) == RecordIfJoined(Grouped(Ensured(s, {a, b}), a, b, heir), a, b)

-----------------------------------------------------------------------------
(* registerLocked *)

(* Entry e is known by another serial or MAC than o carries. *)
Contradicts(s, o, e) == e # Nil /\ ~ CanMergeIdentity(o, s.heap[e].info)

(* admitIdentityCandidate: the indexed entry for o's key, unless it is     *)
(* contradicted by o; an observation that contradicts it leaves an address *)
(* that already resolves untouched.                                        *)
Admitted(s, o, candidate) == IF Contradicts(s, o, candidate) THEN Nil ELSE candidate
ExistingByIdentity(s, o)  == Admitted(s, o, CurrentIdentityEntry(s, IncomingKey[o]))
IdentityConflict(s, o)    == Contradicts(s, o, CurrentIdentityEntry(s, IncomingKey[o]))
RetainedConflict(s, a, o) == IdentityConflict(s, o) /\ s.entries[a] # Nil

(* An entry selected by address alone gives way to a new one when o, with  *)
(* a full triple, contradicts it.                                          *)
Retained(s, a, o, selected) ==
    IF /\ selected = s.entries[a]
       /\ IncomingKey[o] # NoKey
       /\ Contradicts(s, o, selected)
    THEN Nil ELSE selected

(* The entry o is stored in; Nil when it needs one of its own.  The branch *)
(* that keeps an alias group together for an observation without a triple  *)
(* changes nothing: such an observation selects by address only.           *)
SelectEntry(s, a, o, byIdentity) ==
    Retained(s, a, o, IF byIdentity # Nil THEN byIdentity ELSE s.entries[a])

MergesInto(s, o, selected, byAddress) ==
    /\ IncomingKey[o] # NoKey
    /\ CompatibleAliasEnrichment(o, s.heap[byAddress])
    /\ CompatibleAliasEnrichment(s.heap[selected].info, s.heap[byAddress])

(* The group a belonged to merges into the selected entry, or loses a. *)
LeaveGroup(s, a, o, byIdentity, selected, heir) ==
    CASE s.entries[a] \in {Nil, selected} -> s
      [] /\ s.entries[a] \notin {Nil, selected}
         /\ byIdentity # Nil
         /\ MergesInto(s, o, selected, s.entries[a]) ->
            MergeRegisteredAliasesLocked(s, selected, s.entries[a])
      [] OTHER -> DetachAddressLocked(s, s.entries[a], a, heir)

JoinEntry(s, a, selected, fresh) ==
    IF selected = Nil
    THEN [s EXCEPT !.heap[fresh] = NewEntry(a), !.order = @ \union {fresh}]
    ELSE [s EXCEPT !.heap[selected].addresses = @ \union {a}]

(* The info kept for the entry: o's fields, the entry's where o has none,  *)
(* and the entry's own DeviceID spelling when it was selected by identity. *)
StoredInfo(o, entry, keepID) ==
    [FillMissing(o, entry.info) EXCEPT !["DeviceID"] =
        IF keepID /\ entry.info["DeviceID"] # Missing THEN entry.info["DeviceID"] ELSE @]

(* before is the registry the call started from. *)
AuthorityKey(before, o, entry) ==
    CASE IdentityConflict(before, o) -> NoKey
      [] IncomingKey[o] = NoKey /\ PreservesCurrentIdentityAuthority(o, entry) -> entry.identityKey
      [] OTHER -> IncomingKey[o]

(* Planes, projections and index are rebuilt from the stored info. *)
Rebuilt(entry, info, matched) ==
    LET projections == matched \intersect ProvidesProjections
        invalid     == IndexOf(projections) = NoIndex
    IN  [entry EXCEPT
            !.info        = info,
            !.physical    = CanonicalPhysicalIdentity(info),
            !.planes      = matched,
            !.projections = IF invalid THEN {} ELSE projections,
            !.index       = IndexOf(projections),
            !.indexErr    = invalid]

Matched(s, info) == {p \in s.providers : Match(p, info)}

StoreInfo(s, a, e, info, key) ==
    [PublishCurrentIdentityBindingLocked(
         [s EXCEPT !.heap[e] = Rebuilt(@, info, Matched(s, info))], e, key)
     EXCEPT !.entries[a] = e]

Store(before, s, a, o, e, keepID) ==
    StoreInfo(s, a, e, StoredInfo(o, s.heap[e], keepID), AuthorityKey(before, o, s.heap[e]))

RegisterInto(s, a, o, byIdentity, selected, fresh, heir) ==
    Store(s,
          JoinEntry(LeaveGroup(DropStaleIdentity(s, IncomingKey[o]),
                               a, o, byIdentity, selected, heir), a, selected, fresh),
          a, o,
          IF selected = Nil THEN fresh ELSE selected,
          byIdentity \notin {Nil, s.entries[a]})

(* registerLocked past the retained conflict; it leaves a resolving to the *)
(* entry it returns.                                                       *)
RegisterAdmitted(s, a, o, byIdentity, fresh, heir) ==
    RegisterInto(s, a, o, byIdentity, SelectEntry(s, a, o, byIdentity), fresh, heir)
RegisterLocked(s, a, o, fresh, heir) ==
    RegisterAdmitted(s, a, o, ExistingByIdentity(s, o), fresh, heir)

(* A pointer no live entry has; which one is of no consequence, but a       *)
(* caller may still hold a released one, so those are the last choice.      *)
Unused(s)    == {e \in EntryId \ s.order : s.heap[e] = Unallocated}
Allocated(s) == {CHOOSE e \in EntryId :
                    e \in IF Unused(s) # {} THEN Unused(s) ELSE EntryId \ s.order}

-----------------------------------------------------------------------------
(* Qualified identity witnesses *)

IsQualifiedWitnessAddress(a) == ClassOf[a] \in {"Master", "Slave"}

(* Slip: a witness lasts while its authority is indexed, wherever it is. *)
AuthorityStillIndexed(s, a) ==
    /\ s.qualifiedWitnesses[a].authorityKey # NoKey
    /\ s.identity[s.qualifiedWitnesses[a].authorityKey] # Nil

QualifiedIdentityWitnessCurrent(s, a) ==
    LET witness == s.qualifiedWitnesses[a]
        e       == s.entries[a]
    IN  /\ witness.authorityKey # NoKey
        /\ witness.RegistryObservationGeneration # 0
        /\ witness.RegistryProofGeneration # 0
        /\ IsQualifiedWitnessAddress(a)
        /\ IsCurrentQualifiedIdentityKey(s, e, witness.authorityKey)
        /\ s.identity[witness.authorityKey] = e

(* Slip: no witness is ever retired. *)
WitnessesNotRetired(s) == s
ReconcileQualifiedIdentityWitnessesLocked(s) ==
    [s EXCEPT !.qualifiedWitnesses =
        [a \in Address |-> IF QualifiedIdentityWitnessCurrent(s, a) THEN @[a] ELSE NoWitness]]

(* Slip: a proof reuses the generation of the one before. *)
SameProofGeneration(s) == s.proofGeneration
NextProofGeneration(s) == s.proofGeneration + 1

(* Only a direct observation whose address now resolves to the authority   *)
(* for its own triple is proof; each proof has a fresh generation.         *)
ProvesIdentity(s, a, o, e) ==
    /\ IsQualifiedWitnessAddress(a)
    /\ IncomingKey[o] # NoKey
    /\ s.entries[a] = e
    /\ IsCurrentQualifiedIdentityKey(s, e, IncomingKey[o])
    /\ s.identity[IncomingKey[o]] = e
RecordDirectQualifiedIdentityWitnessLocked(s, a, o, e) ==
    IF ~ ProvesIdentity(s, a, o, e) THEN s
    ELSE [s EXCEPT
            !.proofGeneration = NextProofGeneration(s),
            !.qualifiedWitnesses[a] =
                [authorityKey |-> IncomingKey[o],
                 RegistryObservationGeneration |-> s.observationGeneration,
                 RegistryProofGeneration |-> NextProofGeneration(s)]]

-----------------------------------------------------------------------------
(* The operations *)

(* Slip: a mutation does not advance the generation. *)
Unadvanced(s) == s
Advance(s) == [s EXCEPT !.observationGeneration = @ + 1]

(* Not a guard of the code: the bound that keeps TLC's instance finite. *)
WithinBound == registry.observationGeneration < MaxObservationGeneration

ConfirmFrom(s, a, e) ==
    ConfirmTopologyIdentitySlotsLocked(
        ObserveAddressSlotLocked(s, a, e, IdentityConfirmed), a, e)

(* Register of o for a, past registerLocked, which returned e. *)
ActivelyObserved(s, a, o, e) ==
    RecordDirectQualifiedIdentityWitnessLocked(
        ReconcileQualifiedIdentityWitnessesLocked(Advance(SyncEntryFacesLocked(
            IF IncomingKey[o] # NoKey THEN ConfirmFrom(s, a, e)
                                      ELSE ObserveAddressSlotLocked(s, a, e, Candidate), e))),
        a, o, e)
RegisteredActively(s, a, o) == ActivelyObserved(s, a, o, s.entries[a])

Register(a, o) ==
    /\ WithinBound
    /\ ~ RetainedConflict(registry, a, o)
    /\ EntryId # registry.order
    /\ \E fresh \in Allocated(registry), heir \in Heirs(registry, a) :
          registry' = RegisteredActively(RegisterLocked(registry, a, o, fresh, heir), a, o)

(* RegisterStaticSeed and RegisterPassiveObserved differ in the stamp. *)
StampedRegistration(s, a, e, stamped) ==
    ReconcileQualifiedIdentityWitnessesLocked(
        Advance(SyncEntryFacesLocked(SetSlot(s, a, Attached(stamped, e)), e)))
RegisteredAsSeed(s, a, role) ==
    StampedRegistration(s, a, s.entries[a], MarkSlotStaticSeedLocked(SlotFor(s, a), role))
RegisteredPassively(s, a, role) ==
    StampedRegistration(s, a, s.entries[a], MarkSlotPassiveObservedLocked(SlotFor(s, a), role))

RegisterStaticSeed(a, o, role) ==
    /\ WithinBound
    /\ ~ RetainedConflict(registry, a, o)
    /\ EntryId # registry.order
    /\ \E fresh \in Allocated(registry), heir \in Heirs(registry, a) :
          registry' = RegisteredAsSeed(RegisterLocked(registry, a, o, fresh, heir), a, role)

RegisterPassiveObserved(a, o, role) ==
    /\ WithinBound
    /\ ~ RetainedConflict(registry, a, o)
    /\ EntryId # registry.order
    /\ \E fresh \in Allocated(registry), heir \in Heirs(registry, a) :
          registry' = RegisteredPassively(RegisterLocked(registry, a, o, fresh, heir), a, role)

ConfirmScanIdentity(a) ==
    /\ WithinBound
    /\ registry.entries[a] # Nil
    /\ registry' = Advance(SyncEntryFacesLocked(
                       ConfirmFrom(registry, a, registry.entries[a]), registry.entries[a]))

MarkSlotStaticSeed(a, role) ==
    /\ WithinBound
    /\ registry' = Advance(SyncIfAttached(
                       SetSlot(registry, a, MarkSlotStaticSeedLocked(SlotFor(registry, a), role)), a))

(* The slot update MarkSlotPassiveObserved and the companion admission share. *)
PassivelyMarked(s, a, role) ==
    SyncIfAttached(SetSlot(s, a, MarkSlotPassiveObservedLocked(SlotFor(s, a), role)), a)

MarkSlotPassiveObserved(a, role) ==
    /\ WithinBound
    /\ registry' = Advance(PassivelyMarked(registry, a, role))

AliasAddresses(a, b) ==
    /\ WithinBound
    /\ \E heir \in Heirs(registry, b) :
          registry' = ReconcileQualifiedIdentityWitnessesLocked(
                          Advance(Aliased(registry, a, b, heir)))

(* A call with a zero observation time, or a source without a companion,   *)
(* returns before it reads the registry.                                   *)
AdmitPassiveCompanion(source) ==
    /\ WithinBound
    /\ source \in DOMAIN CompanionOf
    /\ QualifiedIdentityWitnessCurrent(registry, source)
    /\ SlotFor(registry, CompanionOf[source]).Role \in {"Unknown", "Slave"}
    /\ registry' = Advance(PassivelyMarked(registry, CompanionOf[source], "Slave"))

RegisterProvider(p) ==
    /\ WithinBound
    /\ p \notin registry.providers
    /\ registry' = Advance([registry EXCEPT !.providers = @ \union {p}])

Next ==
    \/ \E a \in Address, o \in Observation : Register(a, o)
    \/ \E a \in Address, o \in Observation, role \in ObservedRole :
          \/ RegisterStaticSeed(a, o, role)
          \/ RegisterPassiveObserved(a, o, role)
    \/ \E a \in Address, role \in ObservedRole :
          \/ MarkSlotStaticSeed(a, role)
          \/ MarkSlotPassiveObserved(a, role)
    \/ \E a \in Address : ConfirmScanIdentity(a)
    \/ \E a, b \in Address : AliasAddresses(a, b)
    \/ \E source \in Address : AdmitPassiveCompanion(source)
    \/ \E p \in Provider : RegisterProvider(p)

Spec == Init /\ [][Next]_registry
=============================================================================
