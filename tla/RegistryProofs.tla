--------------------------- MODULE RegistryProofs ---------------------------
(* Proofs about DeviceRegistry, for every set of addresses, observations,    *)
(* roles and providers and any number of operations.                         *)
EXTENDS RegistryProps, ByteLists, FiniteSetTheorems, TLAPS

-----------------------------------------------------------------------------
\* What every helper on a registry record keeps

Witnesses ==
  [Address -> [authorityKey: IdentityKey \union {NoKey},
               RegistryObservationGeneration: Nat, RegistryProofGeneration: Nat]]

RegistryState ==
  [observationGeneration: Nat, proofGeneration: Nat,
   providers: SUBSET Provider,
   entries: [Address -> EntryId \union {Nil}],
   addressTable: [Address -> AddressSlot \union {NoSlot}],
   identity: [IdentityKey -> EntryId \union {Nil}],
   qualifiedWitnesses: Witnesses,
   topology: [Address -> SUBSET Address],
   order: SUBSET EntryId,
   heap: [EntryId -> DeviceEntry \union {Unallocated}]]

\* e is a *deviceEntry that points to an entry.
Points(s, e) == e \in EntryId /\ s.heap[e] \in DeviceEntry

\* No pointer dangles, wherever the registry keeps one.
PointersType(s) ==
  /\ \A a \in Address : s.entries[a] # Nil => Points(s, s.entries[a])
  /\ \A a \in Address : s.addressTable[a] # NoSlot /\ s.addressTable[a].Device # Nil
         => Points(s, s.addressTable[a].Device)
  /\ \A k \in IdentityKey : s.identity[k] # Nil => Points(s, s.identity[k])
  /\ \A e \in s.order : Points(s, e)

Typed(s) == s \in RegistryState /\ PointersType(s)

\* t is a registry a *Locked helper may make of s: entries stay allocated, and
\* counters and witnesses are left alone.
Yields(s, t) ==
  /\ Typed(t)
  /\ \A e \in EntryId : Points(s, e) => Points(t, e)
  /\ t.observationGeneration = s.observationGeneration
  /\ t.proofGeneration = s.proofGeneration
  /\ t.qualifiedWitnesses = s.qualifiedWitnesses

\* Helpers are called one after the other (no single line of the code).
LEMMA YieldsTransitive ==
  ASSUME NEW s, NEW t, NEW u, Yields(s, t), Yields(t, u)
  PROVE  Yields(s, u)
BY DEF Yields

\* A helper may return without a change (registry_alias.go:65).
LEMMA YieldsReflexive ==
  ASSUME NEW s, Typed(s)
  PROVE  Yields(s, s)
BY DEF Yields

-----------------------------------------------------------------------------
\* Slots and faces

\* A slot read or made by ensureAddressSlotLocked (registry_scan.go:5).
LEMMA SlotForType ==
  ASSUME NEW s, Typed(s), NEW a \in Address
  PROVE  /\ SlotFor(s, a) \in AddressSlot
         /\ SlotFor(s, a).Device # Nil => Points(s, SlotFor(s, a).Device)
<1>1. EmptySlot \in AddressSlot /\ EmptySlot.Device = Nil
  BY DEF EmptySlot, AddressSlot, SlotRole, DiscoverySource, VerificationState,
         IdentityConfirmed
<1>2. QED BY <1>1 DEF SlotFor, EnsureSlot, Typed, RegistryState, PointersType

\* A stamp keeps the slot's Device (registry_scan.go:54-74).
LEMMA StampType ==
  ASSUME NEW slot \in AddressSlot, NEW source \in DiscoverySource,
         NEW floor \in VerificationState, NEW role \in SlotRole
  PROVE  /\ Stamp(slot, source, floor, role) \in AddressSlot
         /\ Stamp(slot, source, floor, role).Device = slot.Device
BY DEF Stamp, RecordDiscoverySource, AtLeast, StickyRole, AddressSlot

\* Storing a slot (registry_scan.go:10).
LEMMA SetSlotYields ==
  ASSUME NEW s, Typed(s), NEW a \in Address, NEW slot \in AddressSlot,
         slot.Device # Nil => Points(s, slot.Device)
  PROVE  Yields(s, SetSlot(s, a, slot))
<1>1. SetSlot(s, a, slot) \in RegistryState
  BY DEF Typed, RegistryState, SetSlot
<1>2. PointersType(SetSlot(s, a, slot))
  BY DEF Typed, RegistryState, SetSlot, PointersType, Points
<1>3. QED BY <1>1, <1>2 DEF Typed, Yields, SetSlot, RegistryState, Points

\* Attaching a slot to an entry (registry_scan.go:118).
LEMMA AttachedType ==
  ASSUME NEW slot \in AddressSlot, NEW e \in EntryId
  PROVE  Attached(slot, e) \in AddressSlot /\ Attached(slot, e).Device = e
BY DEF Attached, AddressSlot

\* observeAddressSlotLocked (registry_scan.go:115).
LEMMA ObserveYields ==
  ASSUME NEW s, Typed(s), NEW a \in Address, NEW e, Points(s, e),
         NEW state \in VerificationState
  PROVE  Yields(s, ObserveAddressSlotLocked(s, a, e, state))
<1>1. "ActiveConfirmed" \in DiscoverySource /\ "Unknown" \in SlotRole
  BY DEF DiscoverySource, SlotRole
<1>2. Stamp(SlotFor(s, a), "ActiveConfirmed", state, "Unknown") \in AddressSlot
  BY <1>1, SlotForType, StampType
<1>3. QED BY <1>2, AttachedType, SetSlotYields DEF ObserveAddressSlotLocked, Points

\* syncEntryFacesLocked (registry_scan.go:139).
LEMMA SyncYields ==
  ASSUME NEW s, Typed(s), NEW e, Points(s, e)
  PROVE  Yields(s, SyncEntryFacesLocked(s, e))
<1> DEFINE Ad == s.heap[e].addresses
           Sy(a) == IF SlotFor(s, a).Device = Nil THEN Attached(SlotFor(s, a), e)
                                                  ELSE SlotFor(s, a)
           Ta == [a \in Address |-> IF a \in Ad THEN Sy(a) ELSE s.addressTable[a]]
           Fa == [a \in Ad |-> FaceOf(Sy(a))]
           Ne == [s.heap[e] EXCEPT !.Faces = Fa]
           T == [s EXCEPT !.addressTable = Ta, !.heap = [@ EXCEPT ![e] = Ne]]
<1>1. SyncEntryFacesLocked(s, e) = T
  BY DEF SyncEntryFacesLocked
<1>2. Ad \subseteq Address
  BY DEF Points, DeviceEntry
<1>3. ASSUME NEW a \in Address
      PROVE Sy(a) \in AddressSlot /\ (Sy(a).Device # Nil => Points(s, Sy(a).Device))
  BY SlotForType, AttachedType DEF Points
<1>4. Ta \in [Address -> AddressSlot \union {NoSlot}]
  BY <1>3 DEF Typed, RegistryState
<1>5. Fa \in [Ad -> BusFace]
  BY <1>2, <1>3 DEF FaceOf, BusFace, AddressSlot
<1>6. Ne \in DeviceEntry
  BY <1>2, <1>5 DEF Points, DeviceEntry
<1> HIDE DEF Ta, Ne, Sy
<1>7. T \in RegistryState
  BY <1>4, <1>6 DEF Typed, RegistryState, Points
<1>8. \A x \in EntryId : Points(s, x) => Points(T, x)
  BY <1>6 DEF Typed, RegistryState, Points
<1>9. \A a \in Address : Ta[a] # NoSlot /\ Ta[a].Device # Nil => Points(s, Ta[a].Device)
  BY <1>3 DEF Ta, Typed, PointersType
<1>10. PointersType(T)
  <2>1. /\ T.entries = s.entries /\ T.identity = s.identity
        /\ T.order = s.order /\ T.addressTable = Ta
    BY DEF Typed, RegistryState
  <2>2. QED BY <1>8, <1>9, <2>1 DEF Typed, PointersType, Points
<1>11. QED BY <1>1, <1>7, <1>8, <1>10 DEF Yields, Typed, RegistryState

\* The refresh of the entry a marked slot belongs to (registry_scan.go:48).
LEMMA SyncIfAttachedYields ==
  ASSUME NEW s, Typed(s), NEW a \in Address, s.addressTable[a] # NoSlot
  PROVE  Yields(s, SyncIfAttached(s, a))
<1>1. s.addressTable[a].Device # Nil => Points(s, s.addressTable[a].Device)
  BY DEF Typed, PointersType
<1>2. QED BY <1>1, SyncYields, YieldsReflexive DEF SyncIfAttached

\* confirmTopologyIdentitySlotsLocked (registry_registration.go:242).
LEMMA ConfirmTopologyYields ==
  ASSUME NEW s, Typed(s), NEW a \in Address, NEW e
  PROVE  Yields(s, ConfirmTopologyIdentitySlotsLocked(s, a, e))
<1> DEFINE Co(x) == [SlotFor(s, x) EXCEPT !.VerificationState = AtLeast(@, IdentityConfirmed)]
           Ta == [x \in Address |-> IF x \in Joined(s, a, e) THEN Co(x) ELSE s.addressTable[x]]
           T == [s EXCEPT !.addressTable = Ta]
<1>1. ConfirmTopologyIdentitySlotsLocked(s, a, e) = T
  BY DEF ConfirmTopologyIdentitySlotsLocked
<1>2. ASSUME NEW x \in Address
      PROVE /\ Co(x) \in AddressSlot
            /\ Co(x).Device # Nil => Points(s, Co(x).Device)
  BY SlotForType DEF AddressSlot, VerificationState, IdentityConfirmed, AtLeast
<1> HIDE DEF Co
<1>3. \A x \in Address : /\ Ta[x] \in AddressSlot \union {NoSlot}
                         /\ Ta[x] # NoSlot /\ Ta[x].Device # Nil => Points(s, Ta[x].Device)
  BY <1>2 DEF Typed, RegistryState, PointersType
<1> HIDE DEF Ta
<1>4. Ta \in [Address -> AddressSlot \union {NoSlot}]
  BY <1>3 DEF Ta
<1>5. T \in RegistryState
  BY <1>4 DEF Typed, RegistryState
<1>6. PointersType(T)
  BY <1>3 DEF Typed, RegistryState, PointersType, Points
<1>7. QED BY <1>1, <1>5, <1>6 DEF Yields, Typed, RegistryState, Points

-----------------------------------------------------------------------------
\* The identity index

\* A key of an observation is one the index can have (identity.go:30).
LEMMA IncomingKeyType ==
  ASSUME NEW o \in Observation
  PROVE  IncomingKey[o] \in IdentityKey \union {NoKey}
BY DEF IdentityKey, IncomingKey

\* The entry a key selects exists (registry_alias.go:18).
LEMMA CurrentIdentityEntryType ==
  ASSUME NEW s, Typed(s), NEW k \in IdentityKey \union {NoKey},
         CurrentIdentityEntry(s, k) # Nil
  PROVE  Points(s, CurrentIdentityEntry(s, k))
BY DEF CurrentIdentityEntry, Typed, PointersType

\* The lookup may delete a stale row (registry_alias.go:23).
LEMMA DropStaleYields ==
  ASSUME NEW s, Typed(s), NEW k \in IdentityKey \union {NoKey}
  PROVE  Yields(s, DropStaleIdentity(s, k))
<1>1. CASE DropStaleIdentity(s, k) = s
  BY <1>1, YieldsReflexive
<1>2. CASE DropStaleIdentity(s, k) # s
  <2> DEFINE T == [s EXCEPT !.identity[k] = Nil]
  <2>1. k \in IdentityKey /\ DropStaleIdentity(s, k) = T
    BY <1>2 DEF DropStaleIdentity
  <2>2. T \in RegistryState
    BY <2>1 DEF Typed, RegistryState
  <2>3. PointersType(T)
    BY <2>1 DEF Typed, RegistryState, PointersType, Points
  <2>4. QED BY <2>1, <2>2, <2>3 DEF Yields, Typed, RegistryState, Points
<1>3. QED BY <1>1, <1>2

\* retainCurrentIdentityBindingLocked only deletes rows (registry_alias.go:37).
LEMMA RetainYields ==
  ASSUME NEW s, Typed(s), NEW e, NEW k
  PROVE  Yields(s, RetainCurrentIdentityBindingLocked(s, e, k))
<1> DEFINE T == RetainCurrentIdentityBindingLocked(s, e, k)
<1>1. T \in RegistryState
  BY DEF Typed, RegistryState, RetainCurrentIdentityBindingLocked
<1>2. PointersType(T)
  BY DEF Typed, RegistryState, PointersType, Points, RetainCurrentIdentityBindingLocked
<1>3. QED BY <1>1, <1>2
  DEF Yields, Typed, RegistryState, Points, RetainCurrentIdentityBindingLocked

\* removeIdentityBindingsLocked (registry_alias.go:52).
LEMMA RemoveYields ==
  ASSUME NEW s, Typed(s), NEW e
  PROVE  Yields(s, RemoveIdentityBindingsLocked(s, e))
BY RetainYields DEF RemoveIdentityBindingsLocked

\* The assignment of an entry (any helper that writes through a *deviceEntry).
LEMMA WriteEntryYields ==
  ASSUME NEW s, Typed(s), NEW e \in EntryId, NEW entry \in DeviceEntry
  PROVE  /\ Yields(s, [s EXCEPT !.heap[e] = entry])
         /\ Points([s EXCEPT !.heap[e] = entry], e)
<1> DEFINE T == [s EXCEPT !.heap[e] = entry]
<1>1. T \in RegistryState
  BY DEF Typed, RegistryState
<1>2. \A x \in EntryId : Points(s, x) => Points(T, x)
  BY DEF Typed, RegistryState, Points
<1>3. PointersType(T)
  BY <1>2 DEF Typed, RegistryState, PointersType, Points
<1>4. QED BY <1>1, <1>2, <1>3 DEF Yields, Typed, RegistryState, Points

\* A row that points to an entry (registry_alias.go:84).
LEMMA SetRowYields ==
  ASSUME NEW s, Typed(s), NEW e, Points(s, e), NEW k
  PROVE  Yields(s, [s EXCEPT !.identity = [x \in IdentityKey |-> IF x = k THEN e ELSE @[x]]])
<1> DEFINE T == [s EXCEPT !.identity = [x \in IdentityKey |-> IF x = k THEN e ELSE @[x]]]
<1>1. T \in RegistryState
  BY DEF Typed, RegistryState, Points
<1>2. PointersType(T)
  BY DEF Typed, RegistryState, PointersType, Points
<1>3. QED BY <1>1, <1>2 DEF Yields, Typed, RegistryState, Points

\* The new key of an entry and its row (registry_alias.go:82-85).
LEMMA BindYields ==
  ASSUME NEW s, Typed(s), NEW e, Points(s, e), NEW k \in IdentityKey \union {NoKey}
  PROVE  Yields(s, BindIdentity(s, e, k))
<1> DEFINE Ne == [s.heap[e] EXCEPT !.identityKey = k]
           U == [s EXCEPT !.heap[e] = Ne]
<1>1. Ne \in DeviceEntry
  BY DEF Points, DeviceEntry
<1>2. Yields(s, U) /\ Points(U, e)
  BY <1>1, WriteEntryYields DEF Points
<1>3. BindIdentity(s, e, k)
        = [U EXCEPT !.identity = [x \in IdentityKey |-> IF x = k THEN e ELSE @[x]]]
  BY DEF BindIdentity, Typed, RegistryState
<1> HIDE DEF U
<1>4. QED BY <1>2, <1>3, SetRowYields, YieldsTransitive DEF Yields

\* publishCurrentIdentityBindingLocked (registry_alias.go:64).
LEMMA PublishYields ==
  ASSUME NEW s, Typed(s), NEW e, Points(s, e), NEW k \in IdentityKey \union {NoKey}
  PROVE  Yields(s, PublishCurrentIdentityBindingLocked(s, e, k))
<1> DEFINE U == DropStaleIdentity(s, k)
           j == PublishableKey(s, e, k, CurrentIdentityEntry(s, k))
           V == RetainCurrentIdentityBindingLocked(U, e, j)
<1>1. Yields(s, U)
  BY DropStaleYields
<1>2. j \in IdentityKey \union {NoKey}
  BY DEF PublishableKey
<1>3. Yields(s, V)
  <2>1. Yields(U, V)
    BY <1>1, RetainYields DEF Yields
  <2>2. QED BY <1>1, <2>1, YieldsTransitive
<1>4. Typed(V) /\ Points(V, e)
  BY <1>3 DEF Yields, Points
<1>5. PublishCurrentIdentityBindingLocked(s, e, k) = BindIdentity(V, e, j)
  BY DEF PublishCurrentIdentityBindingLocked, ReplaceBinding
<1> HIDE DEF V, j
<1>6. Yields(V, BindIdentity(V, e, j))
  BY <1>2, <1>4, BindYields
<1>7. QED BY <1>3, <1>5, <1>6, YieldsTransitive

-----------------------------------------------------------------------------
\* Joining and leaving address groups

\* Any update of the topology (registry_alias.go:222-254).
LEMMA TopologyYields ==
  ASSUME NEW s, Typed(s), NEW edges \in [Address -> SUBSET Address]
  PROVE  Yields(s, [s EXCEPT !.topology = edges])
<1> DEFINE T == [s EXCEPT !.topology = edges]
<1>1. T \in RegistryState
  BY DEF Typed, RegistryState
<1>2. PointersType(T)
  BY DEF Typed, RegistryState, PointersType, Points
<1>3. QED BY <1>1, <1>2 DEF Yields, Typed, RegistryState, Points

\* recordTopologyAliasLocked (registry_alias.go:222).
LEMMA RecordTopologyYields ==
  ASSUME NEW s, Typed(s), NEW a \in Address, NEW b \in Address
  PROVE  Yields(s, RecordTopologyAliasLocked(s, a, b))
<1>1. CASE a = b
  BY <1>1, YieldsReflexive DEF RecordTopologyAliasLocked
<1>2. CASE a # b
  <2> DEFINE E == [s.topology EXCEPT ![a] = @ \union {b}, ![b] = @ \union {a}]
  <2>1. E \in [Address -> SUBSET Address]
    BY DEF Typed, RegistryState
  <2>2. RecordTopologyAliasLocked(s, a, b) = [s EXCEPT !.topology = E]
    BY <1>2 DEF RecordTopologyAliasLocked, Typed, RegistryState
  <2>3. QED BY <2>1, <2>2, TopologyYields
<1>3. QED BY <1>1, <1>2

\* forgetTopologyAddressLocked (registry_alias.go:240).
LEMMA ForgetTopologyYields ==
  ASSUME NEW s, Typed(s), NEW a \in Address
  PROVE  Yields(s, ForgetTopologyAddressLocked(s, a))
<1>1. [x \in Address |-> IF x = a THEN {} ELSE s.topology[x] \ {a}]
         \in [Address -> SUBSET Address]
  BY DEF Typed, RegistryState
<1>2. QED BY <1>1, TopologyYields DEF ForgetTopologyAddressLocked

\* Entries leaving r.order (registry_alias.go:219).
LEMMA LeaveOrderYields ==
  ASSUME NEW s, Typed(s), NEW e
  PROVE  Yields(s, [s EXCEPT !.order = @ \ {e}])
<1> DEFINE T == [s EXCEPT !.order = @ \ {e}]
<1>1. T \in RegistryState
  BY DEF Typed, RegistryState
<1>2. PointersType(T)
  BY DEF Typed, RegistryState, PointersType, Points
<1>3. QED BY <1>1, <1>2 DEF Yields, Typed, RegistryState, Points

\* What an entry filled from another keeps (registry_registration.go:135-156).
LEMMA FillMissingType ==
  ASSUME NEW x \in DeviceInfo, NEW y \in DeviceInfo
  PROVE  FillMissing(x, y) \in DeviceInfo
BY DEF FillMissing, DeviceInfo

\* A normalised identity (identity.go:19).
LEMMA CanonicalType ==
  ASSUME NEW x \in DeviceInfo
  PROVE  CanonicalPhysicalIdentity(x) \in PhysicalIdentity
BY NormAssumption DEF CanonicalPhysicalIdentity, DeviceInfo, PhysicalIdentity

\* The entry absorbIdentityLocked writes (registry_alias.go:266-341).
LEMMA AbsorbedEntryType ==
  ASSUME NEW x \in DeviceEntry, NEW y \in DeviceEntry, NEW info \in DeviceInfo,
         CanonicalPhysicalIdentity(info) \in PhysicalIdentity
  PROVE  AbsorbIdentity(x, y, info) \in DeviceEntry
<1> DEFINE ph == IF x.physical = NoInfo THEN y.physical ELSE CanonicalPhysicalIdentity(info)
           pl == IF x.planes = {} THEN y.planes ELSE x.planes
           pr == IF x.projections = {} THEN y.projections ELSE x.projections
           ix == IF x.index = NoIndex THEN y.index ELSE x.index
           er == x.indexErr \/ y.indexErr
<1>1. AbsorbIdentity(x, y, info) =
        [x EXCEPT !.info = info, !.physical = ph, !.planes = pl, !.projections = pr,
                  !.index = ix, !.indexErr = er]
  BY DEF AbsorbIdentity, DeviceEntry
<1>2. /\ ph \in PhysicalIdentity
      /\ pl \in SUBSET Provider
      /\ pr \in SUBSET Provider
      /\ ix \in (SUBSET Provider) \union {NoIndex}
      /\ er \in BOOLEAN
  BY DEF DeviceEntry
<1> HIDE DEF ph, pl, pr, ix, er
<1>3. QED BY <1>1, <1>2, ZenonT(40) DEF DeviceEntry

\* absorbIdentityLocked (registry_alias.go:265).
LEMMA AbsorbYields ==
  ASSUME NEW s, Typed(s), NEW d, Points(s, d), NEW e, Points(s, e)
  PROVE  Yields(s, AbsorbIdentityLocked(s, d, e))
<1> DEFINE info == FillMissing(s.heap[d].info, s.heap[e].info)
           Ne == AbsorbIdentity(s.heap[d], s.heap[e], info)
<1>1. s.heap[d] \in DeviceEntry /\ s.heap[e] \in DeviceEntry
  BY DEF Points
<1>2. info \in DeviceInfo
  BY <1>1, FillMissingType DEF DeviceEntry
<1>3. CanonicalPhysicalIdentity(info) \in PhysicalIdentity
  BY <1>2, CanonicalType
<1> HIDE DEF info
<1>4. Ne \in DeviceEntry
  BY <1>1, <1>2, <1>3, AbsorbedEntryType
<1>5. AbsorbIdentityLocked(s, d, e) = [s EXCEPT !.heap[d] = Ne]
  BY DEF AbsorbIdentityLocked, Points, Typed, RegistryState, info
<1>6. QED BY <1>4, <1>5, WriteEntryYields DEF Points

\* An entry without one of its addresses (registry_alias.go:376-385).
LEMMA WithoutAddressType ==
  ASSUME NEW entry \in DeviceEntry, NEW a \in Address, NEW heir \in Address
  PROVE  WithoutAddress(entry, a, heir) \in DeviceEntry
BY DEF WithoutAddress, DeviceEntry

\* The next primary address is an address (registry_alias.go:382).
LEMMA HeirsType ==
  ASSUME NEW s, Typed(s), NEW a \in Address
  PROVE  Heirs(s, a) \subseteq Address
BY DEF Heirs, Typed, PointersType, Points, DeviceEntry

\* An address leaves the map, and perhaps its slot (registry_alias.go:361-370).
LEMMA UnslottedYields ==
  ASSUME NEW s, Typed(s), NEW a \in Address, NEW e
  PROVE  Yields(s, [s EXCEPT !.entries[a] = Nil,
                             !.addressTable[a] = IF @ # NoSlot /\ @.Device = e
                                                 THEN NoSlot ELSE @])
<1> DEFINE Sl == IF s.addressTable[a] # NoSlot /\ s.addressTable[a].Device = e
                 THEN NoSlot ELSE s.addressTable[a]
           T == [s EXCEPT !.entries[a] = Nil, !.addressTable[a] = Sl]
<1>1. Sl \in AddressSlot \union {NoSlot} /\ (Sl # NoSlot => Sl = s.addressTable[a])
  BY DEF Typed, RegistryState
<1>2. T = [s EXCEPT !.entries[a] = Nil,
                    !.addressTable[a] = IF @ # NoSlot /\ @.Device = e THEN NoSlot ELSE @]
  BY DEF Typed, RegistryState
<1> HIDE DEF Sl
<1>3. T \in RegistryState
  BY <1>1 DEF Typed, RegistryState
<1>4. PointersType(T)
  BY <1>1 DEF Typed, RegistryState, PointersType, Points
<1>5. Yields(s, T)
  BY <1>3, <1>4 DEF Yields, Typed, RegistryState, Points
<1> HIDE DEF T
<1>6. QED BY <1>2, <1>5

\* detachAddressLocked (registry_alias.go:360).
LEMMA DetachYields ==
  ASSUME NEW s, Typed(s), NEW e, Points(s, e), NEW a \in Address, NEW heir \in Address
  PROVE  Yields(s, DetachAddressLocked(s, e, a, heir))
<1> DEFINE U == [s EXCEPT !.entries[a] = Nil,
                          !.addressTable[a] = IF @ # NoSlot /\ @.Device = e
                                              THEN NoSlot ELSE @]
           V == ForgetTopologyAddressLocked(U, a)
           W == [V EXCEPT !.heap[e] = WithoutAddress(@, a, heir)]
<1>1. Yields(s, U)
  BY UnslottedYields
<1>2. DetachAddressLocked(s, e, a, heir) =
        CASE a \notin s.heap[e].addresses -> U
          [] s.heap[e].addresses = {a} ->
                [RemoveIdentityBindingsLocked(W, e) EXCEPT !.order = @ \ {e}]
          [] OTHER -> SyncEntryFacesLocked(W, e)
  BY DEF DetachAddressLocked
<1> HIDE DEF U
<1>3. Yields(s, V)
  BY <1>1, ForgetTopologyYields, YieldsTransitive DEF Yields
<1> HIDE DEF V
<1>4. Yields(s, W) /\ Points(W, e)
  <2>1. Points(V, e) /\ Typed(V)
    BY <1>3 DEF Yields, Points
  <2>2. WithoutAddress(V.heap[e], a, heir) \in DeviceEntry
    BY <2>1, WithoutAddressType DEF Points
  <2>3. W = [V EXCEPT !.heap[e] = WithoutAddress(V.heap[e], a, heir)]
    BY <2>1 DEF Points, Typed, RegistryState
  <2>4. Yields(V, W)
    BY <2>1, <2>2, <2>3, WriteEntryYields DEF Points
  <2>5. QED BY <1>3, <2>1, <2>4, YieldsTransitive DEF Yields, Points
<1> HIDE DEF W
<1>5. Yields(s, SyncEntryFacesLocked(W, e))
  BY <1>4, SyncYields, YieldsTransitive DEF Yields
<1>6. Yields(s, [RemoveIdentityBindingsLocked(W, e) EXCEPT !.order = @ \ {e}])
  <2>1. Yields(s, RemoveIdentityBindingsLocked(W, e))
    BY <1>4, RemoveYields, YieldsTransitive DEF Yields
  <2>2. QED BY <2>1, LeaveOrderYields, YieldsTransitive DEF Yields
<1>7. QED BY <1>1, <1>2, <1>5, <1>6

\* s after addresses moved to d with the slots Ta, and e left r.order.
Regrouped(s, d, e, moved, Ta) ==
  [s EXCEPT !.heap[d].addresses = @ \union moved,
            !.entries = [a \in Address |-> IF a \in moved THEN d ELSE @[a]],
            !.addressTable = Ta,
            !.order = @ \ {e}]

\* Moving a group's addresses (registry_registration.go:341-350).
LEMMA RegroupYields ==
  ASSUME NEW s, Typed(s), NEW d, Points(s, d), NEW e, NEW moved \in SUBSET Address,
         NEW Ta \in [Address -> AddressSlot \union {NoSlot}],
         \A a \in Address : Ta[a] # NoSlot /\ Ta[a].Device # Nil => Points(s, Ta[a].Device)
  PROVE  Yields(s, Regrouped(s, d, e, moved, Ta))
<1> DEFINE Ne == [s.heap[d] EXCEPT !.addresses = @ \union moved]
           En == [a \in Address |-> IF a \in moved THEN d ELSE s.entries[a]]
           V == Regrouped(s, d, e, moved, Ta)
<1>1. Ne \in DeviceEntry
  BY DEF Points, DeviceEntry
<1>2. V = [s EXCEPT !.heap = [@ EXCEPT ![d] = Ne], !.entries = En,
                    !.addressTable = Ta, !.order = @ \ {e}]
  BY DEF Regrouped, Typed, RegistryState, Points
<1>3. /\ En \in [Address -> EntryId \union {Nil}]
      /\ \A a \in Address : En[a] # Nil => Points(s, En[a])
  BY DEF Typed, RegistryState, PointersType, Points
<1> HIDE DEF Ne, En, V
<1>4. V \in RegistryState
  BY <1>1, <1>2, <1>3 DEF Typed, RegistryState, Points
<1>5. \A x \in EntryId : Points(s, x) => Points(V, x)
  BY <1>1, <1>2 DEF Typed, RegistryState, Points
<1>6. PointersType(V)
  BY <1>2, <1>3, <1>5 DEF Typed, RegistryState, PointersType, Points
<1>7. Yields(s, V)
  BY <1>2, <1>4, <1>5, <1>6 DEF Yields, Typed, RegistryState
<1>8. QED BY <1>7 DEF V

\* mergeRegisteredAliasesLocked (registry_registration.go:339).
LEMMA MergeRegisteredYields ==
  ASSUME NEW s, Typed(s), NEW d, Points(s, d), NEW e, Points(s, e)
  PROVE  Yields(s, MergeRegisteredAliasesLocked(s, d, e))
<1> DEFINE moved == s.heap[e].addresses
           U == AbsorbIdentityLocked(s, d, e)
           Ta == [a \in Address |->
                     IF a \in moved THEN Attached(SlotFor(s, a), d) ELSE U.addressTable[a]]
           V == Regrouped(U, d, e, moved, Ta)
<1>1. Yields(s, U)
  BY AbsorbYields
<1>2. MergeRegisteredAliasesLocked(s, d, e) = RemoveIdentityBindingsLocked(V, e)
  BY DEF MergeRegisteredAliasesLocked, Regrouped
<1>3. moved \in SUBSET Address /\ Typed(U) /\ Points(U, d)
  BY <1>1 DEF Points, DeviceEntry, Yields
<1>4. \A a \in Address : /\ Ta[a] \in AddressSlot \union {NoSlot}
                         /\ Ta[a] # NoSlot /\ Ta[a].Device # Nil => Points(U, Ta[a].Device)
  BY <1>3, SlotForType, AttachedType, ZenonT(40) DEF Typed, RegistryState, PointersType, Points
<1>5. Ta \in [Address -> AddressSlot \union {NoSlot}]
  BY <1>4
<1> HIDE DEF U, Ta, moved
<1>6. Yields(U, V)
  BY <1>3, <1>4, <1>5, RegroupYields
<1> HIDE DEF V
<1>7. Yields(V, RemoveIdentityBindingsLocked(V, e))
  BY <1>6, RemoveYields DEF Yields
<1>8. QED BY <1>1, <1>2, <1>6, <1>7, YieldsTransitive

\* mergeRemovedAliasEntryLocked (registry_alias.go:203).
LEMMA MergeRemovedYields ==
  ASSUME NEW s, Typed(s), NEW d, Points(s, d), NEW e, Points(s, e)
  PROVE  Yields(s, MergeRemovedAliasEntryLocked(s, d, e))
<1> DEFINE U == RemoveIdentityBindingsLocked(AbsorbIdentityLocked(s, d, e), e)
           ph == CanonicalPhysicalIdentity(U.heap[d].info)
           Ne == [U.heap[d] EXCEPT !.physical = ph]
           V == [U EXCEPT !.heap[d] = Ne]
           k == MergedAuthority(U, d, e, ph)
           W == PublishCurrentIdentityBindingLocked(V, d, k)
<1>1. Yields(s, U)
  <2>1. Yields(s, AbsorbIdentityLocked(s, d, e))
    BY AbsorbYields
  <2>2. QED BY <2>1, RemoveYields, YieldsTransitive DEF Yields
<1>2. Typed(U) /\ Points(U, d) /\ Points(U, e)
  BY <1>1 DEF Yields, Points
<1>3. MergeRemovedAliasEntryLocked(s, d, e) = [W EXCEPT !.order = @ \ {e}]
  BY <1>2 DEF MergeRemovedAliasEntryLocked, RebuildPhysical, WithPhysical, Typed,
              RegistryState, Points
<1> HIDE DEF U
<1>4. ph \in PhysicalIdentity
  BY <1>2, CanonicalType DEF Points, DeviceEntry
<1>5. k \in IdentityKey \union {NoKey}
  BY <1>2 DEF MergedAuthority, Points, DeviceEntry
<1> HIDE DEF ph, k
<1>6. Ne \in DeviceEntry
  BY <1>2, <1>4 DEF Points, DeviceEntry
<1>7. Yields(U, V) /\ Points(V, d)
  BY <1>2, <1>6, WriteEntryYields DEF Points
<1> HIDE DEF V
<1>8. Yields(V, W)
  BY <1>5, <1>7, PublishYields DEF Yields
<1> HIDE DEF W
<1>9. Yields(W, [W EXCEPT !.order = @ \ {e}])
  BY <1>8, LeaveOrderYields DEF Yields
<1>10. QED BY <1>1, <1>3, <1>7, <1>8, <1>9, YieldsTransitive

\* The secondary of AliasAddresses disappears or survives (registry_alias.go:143-162).
LEMMA LeaveSecondaryYields ==
  ASSUME NEW s, Typed(s), NEW d, Points(s, d), NEW a \in Address, NEW heir \in Address,
         NEW e, e # Nil => Points(s, e)
  PROVE  Yields(s, LeaveSecondary(s, d, a, e, heir))
<1>1. CASE e \in {Nil, d}
  BY <1>1, YieldsReflexive DEF LeaveSecondary
<1>2. CASE e \notin {Nil, d}
  <2> DEFINE Ne == WithoutAddress(s.heap[e], a, heir)
             U == [s EXCEPT !.heap[e] = Ne]
  <2>1. Points(s, e)
    BY <1>2
  <2>2. Ne \in DeviceEntry
    BY <2>1, WithoutAddressType DEF Points
  <2>3. Yields(s, U) /\ Points(U, e) /\ Points(U, d)
    BY <2>1, <2>2, WriteEntryYields DEF Points, Yields
  <2>4. LeaveSecondary(s, d, a, e, heir) = IF s.heap[e].addresses = {a}
                                           THEN MergeRemovedAliasEntryLocked(U, d, e)
                                           ELSE SyncEntryFacesLocked(U, e)
    BY <1>2, <2>1 DEF LeaveSecondary, Points, Typed, RegistryState
  <2> HIDE DEF U
  <2>5. /\ Yields(U, MergeRemovedAliasEntryLocked(U, d, e))
        /\ Yields(U, SyncEntryFacesLocked(U, e))
    BY <2>3, MergeRemovedYields, SyncYields DEF Yields
  <2>6. QED BY <2>3, <2>4, <2>5, YieldsTransitive
<1>3. QED BY <1>1, <1>2

\* An address joins the canonical group (registry_alias.go:163-168).
LEMMA JoinGroupYields ==
  ASSUME NEW s, Typed(s), NEW d, Points(s, d), NEW a \in Address,
         s.addressTable[a] # NoSlot
  PROVE  Yields(s, JoinGroup(s, d, a))
<1> DEFINE Sl == Attached(s.addressTable[a], d)
           Ne == [s.heap[d] EXCEPT !.addresses = @ \union {a}]
           T == [s EXCEPT !.addressTable = [@ EXCEPT ![a] = Sl],
                          !.heap = [@ EXCEPT ![d] = Ne],
                          !.entries = [@ EXCEPT ![a] = d]]
<1>1. Sl \in AddressSlot /\ Sl.Device = d
  BY AttachedType DEF Typed, RegistryState, Points
<1>2. Ne \in DeviceEntry
  BY DEF Points, DeviceEntry
<1>3. JoinGroup(s, d, a) = SyncEntryFacesLocked(T, d)
  BY DEF JoinGroup, Typed, RegistryState, Points
<1> HIDE DEF Sl, Ne
<1>4. T \in RegistryState
  BY <1>1, <1>2 DEF Typed, RegistryState, Points
<1>5. \A x \in EntryId : Points(s, x) => Points(T, x)
  BY <1>2 DEF Typed, RegistryState, Points
<1>6. PointersType(T)
  BY <1>1, <1>5 DEF Typed, RegistryState, PointersType, Points
<1>7. Yields(s, T) /\ Points(T, d)
  BY <1>4, <1>5, <1>6 DEF Yields, Typed, RegistryState, Points
<1> HIDE DEF T
<1>8. Yields(T, SyncEntryFacesLocked(T, d))
  BY <1>7, SyncYields DEF Yields
<1>9. QED BY <1>3, <1>7, <1>8, YieldsTransitive

\* Slots of both addresses exist (registry_alias.go:137-138).
LEMMA EnsuredYields ==
  ASSUME NEW s, Typed(s), NEW A \in SUBSET Address
  PROVE  Yields(s, Ensured(s, A)) /\ \A a \in A : Ensured(s, A).addressTable[a] # NoSlot
<1> DEFINE Ta == [x \in Address |-> IF x \in A THEN SlotFor(s, x) ELSE s.addressTable[x]]
           T == [s EXCEPT !.addressTable = Ta]
<1>1. Ensured(s, A) = T
  BY DEF Ensured
<1>2. \A x \in Address : /\ Ta[x] \in AddressSlot \union {NoSlot}
                         /\ Ta[x] # NoSlot /\ Ta[x].Device # Nil => Points(s, Ta[x].Device)
  BY SlotForType DEF Typed, RegistryState, PointersType
<1>3. \A a \in A : Ta[a] # NoSlot
  BY SlotForType, NullAssumption
<1>4. Ta \in [Address -> AddressSlot \union {NoSlot}]
  BY <1>2
<1> HIDE DEF Ta
<1>5. T \in RegistryState
  BY <1>4 DEF Typed, RegistryState
<1>6. PointersType(T)
  BY <1>2 DEF Typed, RegistryState, PointersType, Points
<1>7. QED BY <1>1, <1>3, <1>5, <1>6 DEF Yields, Typed, RegistryState, Points

\* Deleting rows touches no slot (registry_alias.go:37-54).
LEMMA RetainKeepsSlots ==
  ASSUME NEW s, Typed(s), NEW e, NEW k
  PROVE  RetainCurrentIdentityBindingLocked(s, e, k).addressTable = s.addressTable
BY DEF RetainCurrentIdentityBindingLocked, Typed, RegistryState

\* Publishing a binding touches no slot (registry_alias.go:64-86).
LEMMA PublishKeepsSlots ==
  ASSUME NEW s, Typed(s), NEW e, Points(s, e), NEW k \in IdentityKey \union {NoKey}
  PROVE  PublishCurrentIdentityBindingLocked(s, e, k).addressTable = s.addressTable
<1> DEFINE U == DropStaleIdentity(s, k)
           j == PublishableKey(s, e, k, CurrentIdentityEntry(s, k))
           V == RetainCurrentIdentityBindingLocked(U, e, j)
<1>1. Typed(U) /\ U.addressTable = s.addressTable
  BY DropStaleYields DEF DropStaleIdentity, Typed, RegistryState, Yields
<1>2. PublishCurrentIdentityBindingLocked(s, e, k) = BindIdentity(V, e, j)
  BY DEF PublishCurrentIdentityBindingLocked, ReplaceBinding
<1> HIDE DEF U, j
<1>3. Typed(V) /\ V.addressTable = U.addressTable
  BY <1>1, RetainYields, RetainKeepsSlots DEF Yields
<1> HIDE DEF V
<1>4. BindIdentity(V, e, j).addressTable = V.addressTable
  BY <1>3 DEF BindIdentity, Typed, RegistryState
<1>5. QED BY <1>1, <1>2, <1>3, <1>4

\* Nor does the merge of a removed entry (registry_alias.go:203-220).
LEMMA MergeRemovedKeepsSlots ==
  ASSUME NEW s, Typed(s), NEW d, Points(s, d), NEW e, Points(s, e)
  PROVE  MergeRemovedAliasEntryLocked(s, d, e).addressTable = s.addressTable
<1> DEFINE A == AbsorbIdentityLocked(s, d, e)
           U == RemoveIdentityBindingsLocked(A, e)
           ph == CanonicalPhysicalIdentity(U.heap[d].info)
           Ne == [U.heap[d] EXCEPT !.physical = ph]
           V == [U EXCEPT !.heap[d] = Ne]
           k == MergedAuthority(U, d, e, ph)
           W == PublishCurrentIdentityBindingLocked(V, d, k)
<1>1. Yields(s, A) /\ A.addressTable = s.addressTable
  BY AbsorbYields DEF AbsorbIdentityLocked, Typed, RegistryState
<1> HIDE DEF A
<1>2. Yields(A, U) /\ U.addressTable = A.addressTable
  BY <1>1, RemoveYields, RetainKeepsSlots DEF RemoveIdentityBindingsLocked, Yields
<1>3. Typed(U) /\ Points(U, d) /\ Points(U, e)
  BY <1>1, <1>2 DEF Yields, Points
<1>4. MergeRemovedAliasEntryLocked(s, d, e) = [W EXCEPT !.order = @ \ {e}]
  BY <1>3 DEF MergeRemovedAliasEntryLocked, RebuildPhysical, WithPhysical, Typed,
              RegistryState, Points, A
<1> HIDE DEF U
<1>5. ph \in PhysicalIdentity
  BY <1>3, CanonicalType DEF Points, DeviceEntry
<1>6. k \in IdentityKey \union {NoKey}
  BY <1>3 DEF MergedAuthority, Points, DeviceEntry
<1> HIDE DEF ph, k
<1>7. Ne \in DeviceEntry
  BY <1>3, <1>5 DEF Points, DeviceEntry
<1>8. Yields(U, V) /\ Points(V, d) /\ V.addressTable = U.addressTable
  BY <1>3, <1>7, WriteEntryYields DEF Points, Typed, RegistryState
<1> HIDE DEF V
<1>9. Yields(V, W) /\ W.addressTable = V.addressTable
  BY <1>6, <1>8, PublishYields, PublishKeepsSlots DEF Yields
<1> HIDE DEF W
<1>10. [W EXCEPT !.order = @ \ {e}].addressTable = W.addressTable
  BY <1>9 DEF Yields, Typed, RegistryState
<1>11. QED BY <1>1, <1>2, <1>4, <1>8, <1>9, <1>10

\* Copying faces makes slots and drops none (registry_scan.go:139-157).
LEMMA SyncKeepsSlots ==
  ASSUME NEW s, Typed(s), NEW e \in EntryId, NEW a \in Address, s.addressTable[a] # NoSlot
  PROVE  SyncEntryFacesLocked(s, e).addressTable[a] # NoSlot
<1> DEFINE Sy(x) == IF SlotFor(s, x).Device = Nil THEN Attached(SlotFor(s, x), e)
                                                  ELSE SlotFor(s, x)
           Ta == [x \in Address |-> IF x \in s.heap[e].addresses THEN Sy(x)
                                                                 ELSE s.addressTable[x]]
<1>1. SyncEntryFacesLocked(s, e).addressTable = Ta
  BY DEF SyncEntryFacesLocked, Typed, RegistryState
<1>2. Sy(a) \in AddressSlot
  BY SlotForType, AttachedType
<1>3. QED BY <1>1, <1>2, NullAssumption

\* The slot AliasAddresses is about to attach is still there (registry_alias.go:163).
LEMMA LeaveSecondaryKeepsSlot ==
  ASSUME NEW s, Typed(s), NEW d, Points(s, d), NEW a \in Address, NEW heir \in Address,
         NEW e, e # Nil => Points(s, e), s.addressTable[a] # NoSlot
  PROVE  LeaveSecondary(s, d, a, e, heir).addressTable[a] # NoSlot
<1>1. CASE e \in {Nil, d}
  BY <1>1 DEF LeaveSecondary
<1>2. CASE e \notin {Nil, d}
  <2> DEFINE Ne == WithoutAddress(s.heap[e], a, heir)
             U == [s EXCEPT !.heap[e] = Ne]
  <2>1. Points(s, e)
    BY <1>2
  <2>2. Ne \in DeviceEntry
    BY <2>1, WithoutAddressType DEF Points
  <2>3. Yields(s, U) /\ Points(U, e)
    BY <2>1, <2>2, WriteEntryYields DEF Points
  <2>4. Typed(U) /\ Points(U, d) /\ U.addressTable = s.addressTable
    BY <2>3 DEF Yields, Points, Typed, RegistryState
  <2>5. LeaveSecondary(s, d, a, e, heir) = IF s.heap[e].addresses = {a}
                                           THEN MergeRemovedAliasEntryLocked(U, d, e)
                                           ELSE SyncEntryFacesLocked(U, e)
    BY <1>2, <2>1 DEF LeaveSecondary, Points, Typed, RegistryState
  <2> HIDE DEF U
  <2>6. /\ MergeRemovedAliasEntryLocked(U, d, e).addressTable = U.addressTable
        /\ SyncEntryFacesLocked(U, e).addressTable[a] # NoSlot
    BY <2>3, <2>4, MergeRemovedKeepsSlots, SyncKeepsSlots DEF Points
  <2>7. QED BY <2>4, <2>5, <2>6
<1>3. QED BY <1>1, <1>2

\* An address moves to the canonical group (registry_alias.go:141-168).
LEMMA MoveToGroupYields ==
  ASSUME NEW s, Typed(s), NEW d, Points(s, d), NEW a \in Address, NEW heir \in Address,
         s.addressTable[a] # NoSlot
  PROVE  Yields(s, MoveToGroup(s, d, a, heir))
<1> DEFINE e == s.addressTable[a].Device
           U == LeaveSecondary(s, d, a, e, heir)
<1>1. e # Nil => Points(s, e)
  BY DEF Typed, PointersType
<1>2. MoveToGroup(s, d, a, heir) = JoinGroup(U, d, a)
  BY DEF MoveToGroup
<1> HIDE DEF e
<1>3. Yields(s, U) /\ U.addressTable[a] # NoSlot
  BY <1>1, LeaveSecondaryYields, LeaveSecondaryKeepsSlot
<1> HIDE DEF U
<1>4. Typed(U) /\ Points(U, d)
  BY <1>3 DEF Yields, Points
<1>5. Yields(U, JoinGroup(U, d, a))
  BY <1>3, <1>4, JoinGroupYields
<1>6. QED BY <1>2, <1>3, <1>5, YieldsTransitive

\* The group a and b end up in (registry_alias.go:140-189).
LEMMA GroupedYields ==
  ASSUME NEW s, Typed(s), NEW a \in Address, NEW b \in Address, NEW heir \in Address,
         s.addressTable[a] # NoSlot, s.addressTable[b] # NoSlot
  PROVE  Yields(s, Grouped(s, a, b, heir))
<1> DEFINE da == s.addressTable[a].Device
           db == s.addressTable[b].Device
<1>1. (da # Nil => Points(s, da)) /\ (db # Nil => Points(s, db))
  BY DEF Typed, PointersType
<1>2. Grouped(s, a, b, heir) = CASE da # Nil -> MoveToGroup(s, da, b, heir)
                                 [] da = Nil /\ db # Nil -> MoveToGroup(s, db, a, heir)
                                 [] OTHER -> s
  BY DEF Grouped
<1> HIDE DEF da, db
<1>3. CASE da # Nil
  BY <1>1, <1>2, <1>3, MoveToGroupYields
<1>4. CASE da = Nil /\ db # Nil
  BY <1>1, <1>2, <1>4, MoveToGroupYields
<1>5. CASE da = Nil /\ db = Nil
  BY <1>2, <1>5, YieldsReflexive
<1>6. QED BY <1>3, <1>4, <1>5

\* AliasAddresses up to the generation (registry_alias.go:137-193).
LEMMA AliasedYields ==
  ASSUME NEW s, Typed(s), NEW a \in Address, NEW b \in Address, NEW heir \in Address
  PROVE  Yields(s, Aliased(s, a, b, heir))
<1> DEFINE U == Ensured(s, {a, b})
           V == Grouped(U, a, b, heir)
<1>1. Aliased(s, a, b, heir) = RecordIfJoined(V, a, b)
  BY DEF Aliased
<1>2. Yields(s, U) /\ U.addressTable[a] # NoSlot /\ U.addressTable[b] # NoSlot
  BY EnsuredYields
<1> HIDE DEF U
<1>3. Yields(U, V)
  BY <1>2, GroupedYields DEF Yields
<1> HIDE DEF V
<1>4. Yields(V, RecordIfJoined(V, a, b))
  <2>1. Typed(V)
    BY <1>3 DEF Yields
  <2>2. QED BY <2>1, RecordTopologyYields, YieldsReflexive DEF RecordIfJoined
<1>5. QED BY <1>1, <1>2, <1>3, <1>4, YieldsTransitive

-----------------------------------------------------------------------------
\* registerLocked

\* The entry an incoming key selects (registry_registration.go:75-84).
LEMMA ExistingByIdentityType ==
  ASSUME NEW s, Typed(s), NEW o \in Observation
  PROVE  ExistingByIdentity(s, o) # Nil => Points(s, ExistingByIdentity(s, o))
BY IncomingKeyType, CurrentIdentityEntryType DEF ExistingByIdentity, Admitted

\* The entry an observation is stored in (registry_registration.go:92-113).
LEMMA SelectEntryType ==
  ASSUME NEW s, Typed(s), NEW a \in Address, NEW o, NEW i, i # Nil => Points(s, i)
  PROVE  SelectEntry(s, a, o, i) # Nil => Points(s, SelectEntry(s, a, o, i))
BY DEF SelectEntry, Retained, Typed, PointersType

\* The group the address belonged to (registry_registration.go:115-123).
LEMMA LeaveGroupYields ==
  ASSUME NEW s, Typed(s), NEW a \in Address, NEW o, NEW i, NEW e, NEW heir \in Address,
         i # Nil => e # Nil, e # Nil => Points(s, e)
  PROVE  Yields(s, LeaveGroup(s, a, o, i, e, heir))
<1> DEFINE d == s.entries[a]
<1>1. d # Nil => Points(s, d)
  BY DEF Typed, PointersType
<1>2. LeaveGroup(s, a, o, i, e, heir) =
        CASE d \in {Nil, e} -> s
          [] d \notin {Nil, e} /\ i # Nil /\ MergesInto(s, o, e, d) ->
                MergeRegisteredAliasesLocked(s, e, d)
          [] OTHER -> DetachAddressLocked(s, d, a, heir)
  BY DEF LeaveGroup
<1> HIDE DEF d
<1>3. CASE d \in {Nil, e}
  BY <1>2, <1>3, YieldsReflexive
<1>4. CASE d \notin {Nil, e}
  <2>1. Yields(s, DetachAddressLocked(s, d, a, heir))
    BY <1>1, <1>4, DetachYields
  <2>2. i # Nil => Yields(s, MergeRegisteredAliasesLocked(s, e, d))
    BY <1>1, <1>4, MergeRegisteredYields
  <2>3. QED BY <1>2, <1>4, <2>1, <2>2
<1>5. QED BY <1>3, <1>4

\* An entry selected by identity was admitted (registry_registration.go:76-80).
LEMMA SelectedByIdentity ==
  ASSUME NEW s, NEW a, NEW o, ExistingByIdentity(s, o) # Nil
  PROVE  SelectEntry(s, a, o, ExistingByIdentity(s, o)) # Nil
<1> DEFINE c == CurrentIdentityEntry(s, IncomingKey[o])
<1>1. ExistingByIdentity(s, o) = c /\ ~ Contradicts(s, o, c)
  BY DEF ExistingByIdentity, Admitted
<1>2. QED BY <1>1 DEF SelectEntry, Retained

\* A new entry, or a selected one that gains the address (registry_registration.go:125-133).
LEMMA JoinEntryYields ==
  ASSUME NEW s, Typed(s), NEW a \in Address, NEW selected,
         selected # Nil => Points(s, selected), NEW fresh \in EntryId
  PROVE  /\ Yields(s, JoinEntry(s, a, selected, fresh))
         /\ Points(JoinEntry(s, a, selected, fresh),
                   IF selected = Nil THEN fresh ELSE selected)
<1>1. CASE selected = Nil
  <2> DEFINE U == [s EXCEPT !.heap[fresh] = NewEntry(a)]
             T == [U EXCEPT !.order = @ \union {fresh}]
  <2>1. NewEntry(a) \in DeviceEntry
    <3>1. NoInfo \in DeviceInfo /\ NoInfo \in PhysicalIdentity
      BY NormAssumption DEF NoInfo, DeviceInfo, PhysicalIdentity
    <3>2. [x \in {} |-> EmptySlot] \in UNION {[A -> BusFace] : A \in SUBSET Address}
      OBVIOUS
    <3>3. QED BY <3>1, <3>2 DEF NewEntry, DeviceEntry
  <2>2. Yields(s, U) /\ Points(U, fresh)
    BY <2>1, WriteEntryYields
  <2>3. JoinEntry(s, a, selected, fresh) = T
    BY <1>1 DEF JoinEntry, Typed, RegistryState
  <2>4. Typed(U)
    BY <2>2 DEF Yields
  <2> HIDE DEF U
  <2>5. T \in RegistryState
    BY <2>4 DEF Typed, RegistryState
  <2>6. PointersType(T)
    BY <2>2, <2>4 DEF Typed, RegistryState, PointersType, Points
  <2>7. Yields(U, T) /\ Points(T, fresh)
    BY <2>2, <2>4, <2>5, <2>6 DEF Yields, Typed, RegistryState, Points
  <2>8. QED BY <1>1, <2>2, <2>3, <2>7, YieldsTransitive
<1>2. CASE selected # Nil
  <2> DEFINE Ne == [s.heap[selected] EXCEPT !.addresses = @ \union {a}]
  <2>1. Ne \in DeviceEntry /\ selected \in EntryId
    BY <1>2 DEF Points, DeviceEntry
  <2>2. JoinEntry(s, a, selected, fresh) = [s EXCEPT !.heap[selected] = Ne]
    BY <1>2, <2>1 DEF JoinEntry, Typed, RegistryState
  <2>3. QED BY <1>2, <2>1, <2>2, WriteEntryYields, SMTT(20)
<1>3. QED BY <1>1, <1>2

\* The info an entry keeps (registry_registration.go:135-157).
LEMMA StoredInfoType ==
  ASSUME NEW o \in DeviceInfo, NEW entry \in DeviceEntry, NEW keepID
  PROVE  StoredInfo(o, entry, keepID) \in DeviceInfo
<1>1. FillMissing(o, entry.info) \in DeviceInfo /\ entry.info \in DeviceInfo
  BY FillMissingType DEF DeviceEntry
<1>2. "DeviceID" \in Field
  BY DEF Field, TripleField
<1>3. QED BY <1>1, <1>2 DEF StoredInfo, DeviceInfo

\* The key offered for publication (registry_registration.go:159-171).
LEMMA AuthorityKeyType ==
  ASSUME NEW s, NEW o \in Observation, NEW entry \in DeviceEntry
  PROVE  AuthorityKey(s, o, entry) \in IdentityKey \union {NoKey}
BY IncomingKeyType DEF AuthorityKey, DeviceEntry

\* The rebuilt entry (registry_registration.go:173-199).
LEMMA RebuiltType ==
  ASSUME NEW entry \in DeviceEntry, NEW info \in DeviceInfo, NEW matched \in SUBSET Provider
  PROVE  Rebuilt(entry, info, matched) \in DeviceEntry
<1> DEFINE pr == matched \intersect ProvidesProjections
           ix == IndexOf(pr)
           iv == ix = NoIndex
           kept == IF iv THEN {} ELSE pr
           ph == CanonicalPhysicalIdentity(info)
<1>1. Rebuilt(entry, info, matched) =
        [entry EXCEPT !.info = info, !.physical = ph, !.planes = matched,
                      !.projections = kept, !.index = ix, !.indexErr = iv]
  BY DEF Rebuilt
<1>2. /\ ph \in PhysicalIdentity
      /\ kept \in SUBSET Provider
      /\ ix \in (SUBSET Provider) \union {NoIndex}
      /\ iv \in BOOLEAN
  BY CanonicalType DEF IndexOf
<1> HIDE DEF ph, ix, iv, kept
<1>3. QED BY <1>1, <1>2 DEF DeviceEntry

\* registerLocked from the stored info on (registry_registration.go:135-206).
LEMMA StoreYields ==
  ASSUME NEW before, NEW s, Typed(s), NEW a \in Address, NEW o \in Observation,
         NEW e, Points(s, e), NEW keepID
  PROVE  /\ Yields(s, Store(before, s, a, o, e, keepID))
         /\ Store(before, s, a, o, e, keepID).entries[a] = e
<1> DEFINE info == StoredInfo(o, s.heap[e], keepID)
           k == AuthorityKey(before, o, s.heap[e])
           Ne == Rebuilt(s.heap[e], info, Matched(s, info))
           U == [s EXCEPT !.heap[e] = Ne]
           V == PublishCurrentIdentityBindingLocked(U, e, k)
           T == [V EXCEPT !.entries[a] = e]
<1>1. info \in DeviceInfo /\ k \in IdentityKey \union {NoKey}
  BY StoredInfoType, AuthorityKeyType, ObservationAssumption DEF Points
<1>2. Matched(s, info) \in SUBSET Provider
  BY DEF Matched, Typed, RegistryState
<1>3. Store(before, s, a, o, e, keepID) = T
  BY DEF Store, StoreInfo, Points, Typed, RegistryState
<1> HIDE DEF info, k
<1>4. Ne \in DeviceEntry
  BY <1>1, <1>2, RebuiltType DEF Points
<1>5. Yields(s, U) /\ Points(U, e)
  BY <1>4, WriteEntryYields DEF Points
<1> HIDE DEF U
<1>6. Yields(U, V)
  BY <1>1, <1>5, PublishYields DEF Yields
<1>7. Typed(V) /\ Points(V, e)
  BY <1>5, <1>6 DEF Yields, Points
<1> HIDE DEF V
<1>8. T \in RegistryState
  BY <1>7 DEF Typed, RegistryState, Points
<1>9. PointersType(T)
  BY <1>7 DEF Typed, RegistryState, PointersType, Points
<1>10. Yields(V, T) /\ T.entries[a] = e
  BY <1>7, <1>8, <1>9 DEF Yields, Typed, RegistryState, Points
<1>11. QED BY <1>3, <1>5, <1>6, <1>10, YieldsTransitive

\* registerLocked; the address resolves to the entry it returns
\* (registry_registration.go:66-209).
LEMMA RegisterLockedYields ==
  ASSUME NEW s, Typed(s), NEW a \in Address, NEW o \in Observation,
         NEW fresh \in EntryId, NEW heir \in Address
  PROVE  /\ Yields(s, RegisterLocked(s, a, o, fresh, heir))
         /\ Points(RegisterLocked(s, a, o, fresh, heir),
                   RegisterLocked(s, a, o, fresh, heir).entries[a])
<1> DEFINE i == ExistingByIdentity(s, o)
           e == SelectEntry(s, a, o, i)
           r == IF e = Nil THEN fresh ELSE e
           U == DropStaleIdentity(s, IncomingKey[o])
           V == LeaveGroup(U, a, o, i, e, heir)
           W == JoinEntry(V, a, e, fresh)
           X == Store(s, W, a, o, r, i \notin {Nil, s.entries[a]})
<1>1. RegisterLocked(s, a, o, fresh, heir) = X
  BY DEF RegisterLocked, RegisterAdmitted, RegisterInto
<1>2. (i # Nil => Points(s, i)) /\ (i # Nil => e # Nil)
  BY ExistingByIdentityType, SelectedByIdentity
<1>3. e # Nil => Points(s, e)
  BY <1>2, SelectEntryType
<1>4. Yields(s, U)
  BY IncomingKeyType, DropStaleYields
<1> HIDE DEF U, e, i
<1>5. Typed(U) /\ (e # Nil => Points(U, e))
  BY <1>3, <1>4 DEF Yields, Points
<1>6. Yields(U, V)
  BY <1>2, <1>5, LeaveGroupYields
<1> HIDE DEF V
<1>7. Typed(V) /\ (e # Nil => Points(V, e))
  BY <1>5, <1>6 DEF Yields, Points
<1>8. Yields(V, W) /\ Points(W, r)
  BY <1>7, JoinEntryYields
<1> HIDE DEF W, r
<1>9. Yields(W, X) /\ X.entries[a] = r
  BY <1>8, StoreYields DEF Yields
<1> HIDE DEF X
<1>10. Points(X, r)
  BY <1>8, <1>9 DEF Yields, Points
<1>11. Yields(s, X)
  BY <1>4, <1>6, <1>8, <1>9, YieldsTransitive
<1>12. QED BY <1>1, <1>9, <1>10, <1>11

-----------------------------------------------------------------------------
\* Operations that decide nothing about identity

\* What a witness depends on stays as it is (registry_scan.go:35-74 and
\* registry_registration.go:242-316 write slots and faces only).
Unmoved(s, t) ==
  /\ t.entries = s.entries
  /\ t.identity = s.identity
  /\ \A e \in EntryId : Points(s, e) =>
        /\ t.heap[e].identityKey = s.heap[e].identityKey
        /\ t.heap[e].physical = s.heap[e].physical

Marks(s, t) == Yields(s, t) /\ Unmoved(s, t)

\* Such helpers are called one after the other (no single line of the code).
LEMMA MarksTransitive ==
  ASSUME NEW s, NEW t, NEW u, Marks(s, t), Marks(t, u)
  PROVE  Marks(s, u)
BY YieldsTransitive DEF Marks, Unmoved, Yields

\* Storing a slot (registry_scan.go:10).
LEMMA SetSlotMarks ==
  ASSUME NEW s, Typed(s), NEW a \in Address, NEW slot \in AddressSlot,
         slot.Device # Nil => Points(s, slot.Device)
  PROVE  Marks(s, SetSlot(s, a, slot)) /\ SetSlot(s, a, slot).addressTable[a] = slot
<1>1. Yields(s, SetSlot(s, a, slot))
  BY SetSlotYields
<1>2. /\ Unmoved(s, SetSlot(s, a, slot))
      /\ SetSlot(s, a, slot).addressTable[a] = slot
  BY DEF SetSlot, Unmoved, Typed, RegistryState
<1>3. QED BY <1>1, <1>2 DEF Marks

\* observeAddressSlotLocked (registry_scan.go:115).
LEMMA ObserveMarks ==
  ASSUME NEW s, Typed(s), NEW a \in Address, NEW e, Points(s, e),
         NEW state \in VerificationState
  PROVE  Marks(s, ObserveAddressSlotLocked(s, a, e, state))
<1>1. "ActiveConfirmed" \in DiscoverySource /\ "Unknown" \in SlotRole
  BY DEF DiscoverySource, SlotRole
<1>2. Stamp(SlotFor(s, a), "ActiveConfirmed", state, "Unknown") \in AddressSlot
  BY <1>1, SlotForType, StampType
<1>3. QED BY <1>2, AttachedType, SetSlotMarks DEF ObserveAddressSlotLocked, Points

\* syncEntryFacesLocked (registry_scan.go:139).
LEMMA SyncMarks ==
  ASSUME NEW s, Typed(s), NEW e, Points(s, e)
  PROVE  Marks(s, SyncEntryFacesLocked(s, e))
<1>1. Yields(s, SyncEntryFacesLocked(s, e))
  BY SyncYields
<1>2. Unmoved(s, SyncEntryFacesLocked(s, e))
  BY DEF SyncEntryFacesLocked, Unmoved, Typed, RegistryState, Points, DeviceEntry
<1>3. QED BY <1>1, <1>2 DEF Marks

\* The refresh of the entry a marked slot belongs to (registry_scan.go:48).
LEMMA SyncIfAttachedMarks ==
  ASSUME NEW s, Typed(s), NEW a \in Address, s.addressTable[a] # NoSlot
  PROVE  Marks(s, SyncIfAttached(s, a))
<1>1. s.addressTable[a].Device # Nil => Points(s, s.addressTable[a].Device)
  BY DEF Typed, PointersType
<1>2. Marks(s, s)
  BY YieldsReflexive DEF Marks, Unmoved
<1>3. QED BY <1>1, <1>2, SyncMarks DEF SyncIfAttached

\* confirmTopologyIdentitySlotsLocked (registry_registration.go:242).
LEMMA ConfirmTopologyMarks ==
  ASSUME NEW s, Typed(s), NEW a \in Address, NEW e
  PROVE  Marks(s, ConfirmTopologyIdentitySlotsLocked(s, a, e))
<1>1. Yields(s, ConfirmTopologyIdentitySlotsLocked(s, a, e))
  BY ConfirmTopologyYields
<1>2. Unmoved(s, ConfirmTopologyIdentitySlotsLocked(s, a, e))
  BY DEF ConfirmTopologyIdentitySlotsLocked, Unmoved, Typed, RegistryState
<1>3. QED BY <1>1, <1>2 DEF Marks

\* A slot marked by a passive observation or a seed, and its entry refreshed
\* (registry_scan.go:42-50, registry_registration.go:309-314).
LEMMA StampedSlotMarks ==
  ASSUME NEW s, Typed(s), NEW a \in Address, NEW source \in DiscoverySource,
         NEW floor \in VerificationState, NEW role \in SlotRole
  PROVE  Marks(s, SyncIfAttached(SetSlot(s, a, Stamp(SlotFor(s, a), source, floor, role)), a))
<1> DEFINE slot == Stamp(SlotFor(s, a), source, floor, role)
           U == SetSlot(s, a, slot)
<1>1. slot \in AddressSlot /\ (slot.Device # Nil => Points(s, slot.Device))
  BY SlotForType, StampType
<1> HIDE DEF slot
<1>2. Marks(s, U) /\ U.addressTable[a] = slot
  BY <1>1, SetSlotMarks
<1>3. U.addressTable[a] # NoSlot
  BY <1>1, <1>2, NullAssumption
<1> HIDE DEF U
<1>4. Marks(U, SyncIfAttached(U, a))
  BY <1>2, <1>3, SyncIfAttachedMarks DEF Marks, Yields
<1>5. Marks(s, SyncIfAttached(U, a))
  BY <1>2, <1>4, MarksTransitive
<1>6. QED BY <1>5 DEF U, slot

\* The sources and confidence floors of the stamps (registry_scan.go:54-74,
\* registry_registration.go:318-337).
LEMMA StampConstants ==
  /\ "PassiveObserved" \in DiscoverySource
  /\ "StaticSeed" \in DiscoverySource
  /\ Candidate \in VerificationState
  /\ Corroborated \in VerificationState
  /\ IdentityConfirmed \in VerificationState
  /\ "Slave" \in SlotRole
BY DEF DiscoverySource, VerificationState, Candidate, Corroborated, IdentityConfirmed, SlotRole

\* MarkSlotPassiveObserved up to the generation (registry_scan.go:35-50).
LEMMA PassivelyMarkedMarks ==
  ASSUME NEW s, Typed(s), NEW a \in Address, NEW role \in SlotRole
  PROVE  Marks(s, PassivelyMarked(s, a, role))
BY StampedSlotMarks, StampConstants DEF PassivelyMarked, MarkSlotPassiveObservedLocked

\* A direct observation that confirms (registry_registration.go:17-20).
LEMMA ConfirmFromMarks ==
  ASSUME NEW s, Typed(s), NEW a \in Address, NEW e, Points(s, e)
  PROVE  Marks(s, ConfirmFrom(s, a, e)) /\ Points(ConfirmFrom(s, a, e), e)
<1> DEFINE U == ObserveAddressSlotLocked(s, a, e, IdentityConfirmed)
           V == ConfirmTopologyIdentitySlotsLocked(U, a, e)
<1>1. Marks(s, U)
  BY ObserveMarks, StampConstants
<1> HIDE DEF U
<1>2. Marks(U, V)
  BY <1>1, ConfirmTopologyMarks DEF Marks, Yields
<1>3. Marks(s, V)
  BY <1>1, <1>2, MarksTransitive
<1>4. Points(V, e)
  BY <1>3 DEF Marks, Yields, Points
<1>5. QED BY <1>3, <1>4 DEF ConfirmFrom, U

-----------------------------------------------------------------------------
\* Every operation ends in one of three ways

\* Nothing about identity was decided, or witnesses were retired, or witnesses
\* were retired and perhaps one was recorded.
Completes(s, next) ==
  \E t : /\ Yields(s, t)
         /\ \/ Unmoved(s, t) /\ next = Advance(t)
            \/ next = ReconcileQualifiedIdentityWitnessesLocked(Advance(t))
            \/ \E a \in Address, o \in Observation : \E e :
                  next = RecordDirectQualifiedIdentityWitnessLocked(
                            ReconcileQualifiedIdentityWitnessesLocked(Advance(t)), a, o, e)

\* A fresh pointer exists while some is unused (registry_registration.go:126).
LEMMA AllocatedType ==
  ASSUME NEW s, Typed(s), EntryId # s.order
  PROVE  Allocated(s) \subseteq EntryId
<1>1. \E e \in EntryId : e \notin s.order
  BY DEF Typed, RegistryState
<1>2. QED BY <1>1 DEF Allocated, Unused

\* Register (registry_registration.go:5).
LEMMA RegisterCompletes ==
  ASSUME Typed(registry), NEW a \in Address, NEW o \in Observation, Register(a, o)
  PROVE  Completes(registry, registry')
<1>1. PICK fresh \in Allocated(registry), heir \in Heirs(registry, a) :
         registry' = RegisteredActively(RegisterLocked(registry, a, o, fresh, heir), a, o)
  BY DEF Register
<1>2. fresh \in EntryId /\ heir \in Address
  BY AllocatedType, HeirsType DEF Register
<1> DEFINE U == RegisterLocked(registry, a, o, fresh, heir)
           e == U.entries[a]
           V == IF IncomingKey[o] # NoKey THEN ConfirmFrom(U, a, e)
                                          ELSE ObserveAddressSlotLocked(U, a, e, Candidate)
           T == SyncEntryFacesLocked(V, e)
<1>3. Yields(registry, U) /\ Points(U, e)
  BY <1>2, RegisterLockedYields
<1>4. registry' = RecordDirectQualifiedIdentityWitnessLocked(
                     ReconcileQualifiedIdentityWitnessesLocked(Advance(T)), a, o, e)
  BY <1>1 DEF RegisteredActively, ActivelyObserved
<1> HIDE DEF U, e
<1>5. Yields(U, V)
  BY <1>3, ConfirmFromMarks, ObserveMarks, StampConstants DEF Marks, Yields
<1>6. Points(V, e)
  BY <1>3, <1>5 DEF Yields, Points
<1> HIDE DEF V
<1>7. Yields(V, T)
  BY <1>5, <1>6, SyncYields DEF Yields
<1> HIDE DEF T
<1>8. Yields(registry, T)
  BY <1>3, <1>5, <1>7, YieldsTransitive
<1>9. QED BY <1>4, <1>8 DEF Completes

\* RegisterStaticSeed and RegisterPassiveObserved past registerLocked
\* (registry_registration.go:233-239, registry_scan.go:106-112).
LEMMA StampedRegistrationCompletes ==
  ASSUME NEW s, NEW u, Yields(s, u), NEW a \in Address, Points(u, u.entries[a]),
         NEW source \in DiscoverySource, NEW floor \in VerificationState, NEW role \in SlotRole
  PROVE  Completes(s, StampedRegistration(u, a, u.entries[a],
                                          Stamp(SlotFor(u, a), source, floor, role)))
<1> DEFINE e == u.entries[a]
           slot == Attached(Stamp(SlotFor(u, a), source, floor, role), e)
           V == SetSlot(u, a, slot)
           T == SyncEntryFacesLocked(V, e)
<1>1. Typed(u)
  BY DEF Yields
<1>2. slot \in AddressSlot /\ slot.Device = e
  BY <1>1, SlotForType, StampType, AttachedType DEF Points
<1>3. StampedRegistration(u, a, e, Stamp(SlotFor(u, a), source, floor, role))
        = ReconcileQualifiedIdentityWitnessesLocked(Advance(T))
  BY DEF StampedRegistration
<1> HIDE DEF slot
<1>4. Yields(u, V)
  BY <1>1, <1>2, SetSlotYields
<1>5. Points(V, e)
  BY <1>4 DEF Yields, Points
<1> HIDE DEF V
<1>6. Yields(V, T)
  BY <1>4, <1>5, SyncYields DEF Yields
<1> HIDE DEF T
<1>7. Yields(s, T)
  BY <1>4, <1>6, YieldsTransitive
<1>8. QED BY <1>3, <1>7 DEF Completes

\* RegisterStaticSeed (registry_registration.go:225).
LEMMA RegisterStaticSeedCompletes ==
  ASSUME Typed(registry), NEW a \in Address, NEW o \in Observation, NEW role \in ObservedRole,
         RegisterStaticSeed(a, o, role)
  PROVE  Completes(registry, registry')
<1>1. PICK fresh \in Allocated(registry), heir \in Heirs(registry, a) :
         registry' = RegisteredAsSeed(RegisterLocked(registry, a, o, fresh, heir), a, role)
  BY DEF RegisterStaticSeed
<1>2. fresh \in EntryId /\ heir \in Address /\ role \in SlotRole
  BY AllocatedType, HeirsType, ObservationAssumption DEF RegisterStaticSeed
<1>3. QED
  BY <1>1, <1>2, RegisterLockedYields, StampedRegistrationCompletes, StampConstants
  DEF RegisteredAsSeed, MarkSlotStaticSeedLocked

\* RegisterPassiveObserved (registry_scan.go:98).
LEMMA RegisterPassiveObservedCompletes ==
  ASSUME Typed(registry), NEW a \in Address, NEW o \in Observation, NEW role \in ObservedRole,
         RegisterPassiveObserved(a, o, role)
  PROVE  Completes(registry, registry')
<1>1. PICK fresh \in Allocated(registry), heir \in Heirs(registry, a) :
         registry' = RegisteredPassively(RegisterLocked(registry, a, o, fresh, heir), a, role)
  BY DEF RegisterPassiveObserved
<1>2. fresh \in EntryId /\ heir \in Address /\ role \in SlotRole
  BY AllocatedType, HeirsType, ObservationAssumption DEF RegisterPassiveObserved
<1>3. QED
  BY <1>1, <1>2, RegisterLockedYields, StampedRegistrationCompletes, StampConstants
  DEF RegisteredPassively, MarkSlotPassiveObservedLocked

\* The operations that only mark (confirmScanIdentity, MarkSlotStaticSeed,
\* MarkSlotPassiveObserved, the companion admission).
LEMMA MarkingCompletes ==
  ASSUME NEW s, NEW t, Marks(s, t)
  PROVE  Completes(s, Advance(t))
BY DEF Marks, Completes

\* confirmScanIdentity (registry_registration.go:28).
LEMMA ConfirmScanIdentityCompletes ==
  ASSUME Typed(registry), NEW a \in Address, ConfirmScanIdentity(a)
  PROVE  Completes(registry, registry')
<1> DEFINE e == registry.entries[a]
           U == ConfirmFrom(registry, a, e)
<1>1. Points(registry, e)
  BY DEF ConfirmScanIdentity, Typed, PointersType
<1>2. registry' = Advance(SyncEntryFacesLocked(U, e))
  BY DEF ConfirmScanIdentity
<1>3. Marks(registry, U) /\ Points(U, e)
  BY <1>1, ConfirmFromMarks
<1> HIDE DEF e, U
<1>4. Marks(U, SyncEntryFacesLocked(U, e))
  BY <1>3, SyncMarks DEF Marks, Yields
<1>5. QED BY <1>2, <1>3, <1>4, MarksTransitive, MarkingCompletes

\* MarkSlotStaticSeed (registry_registration.go:303).
LEMMA MarkSlotStaticSeedCompletes ==
  ASSUME Typed(registry), NEW a \in Address, NEW role \in ObservedRole,
         MarkSlotStaticSeed(a, role)
  PROVE  Completes(registry, registry')
<1>1. role \in SlotRole
  BY ObservationAssumption
<1>2. Marks(registry, SyncIfAttached(
         SetSlot(registry, a, MarkSlotStaticSeedLocked(SlotFor(registry, a), role)), a))
  BY <1>1, StampedSlotMarks, StampConstants DEF MarkSlotStaticSeedLocked
<1>3. QED BY <1>2, MarkingCompletes DEF MarkSlotStaticSeed

\* MarkSlotPassiveObserved (registry_scan.go:35).
LEMMA MarkSlotPassiveObservedCompletes ==
  ASSUME Typed(registry), NEW a \in Address, NEW role \in ObservedRole,
         MarkSlotPassiveObserved(a, role)
  PROVE  Completes(registry, registry')
BY PassivelyMarkedMarks, MarkingCompletes, ObservationAssumption DEF MarkSlotPassiveObserved

\* AdmitPassiveCompanion (admit_passive_companion.go:18).
LEMMA AdmitPassiveCompanionCompletes ==
  ASSUME Typed(registry), NEW source \in Address, AdmitPassiveCompanion(source)
  PROVE  Completes(registry, registry')
<1>1. CompanionOf[source] \in Address
  BY AddressAssumption DEF AdmitPassiveCompanion
<1>2. QED
  BY <1>1, PassivelyMarkedMarks, MarkingCompletes, StampConstants DEF AdmitPassiveCompanion

\* AliasAddresses (registry_alias.go:133).
LEMMA AliasAddressesCompletes ==
  ASSUME Typed(registry), NEW a \in Address, NEW b \in Address, AliasAddresses(a, b)
  PROVE  Completes(registry, registry')
<1>1. PICK heir \in Heirs(registry, b) :
         registry' = ReconcileQualifiedIdentityWitnessesLocked(
                         Advance(Aliased(registry, a, b, heir)))
  BY DEF AliasAddresses
<1>2. Yields(registry, Aliased(registry, a, b, heir))
  BY AliasedYields, HeirsType
<1>3. QED BY <1>1, <1>2 DEF Completes

\* RegisterProvider (registry.go:104).
LEMMA RegisterProviderCompletes ==
  ASSUME Typed(registry), NEW p \in Provider, RegisterProvider(p)
  PROVE  Completes(registry, registry')
<1> DEFINE T == [registry EXCEPT !.providers = @ \union {p}]
<1>1. T \in RegistryState
  BY DEF Typed, RegistryState
<1>2. PointersType(T)
  BY DEF Typed, RegistryState, PointersType, Points
<1>3. Marks(registry, T)
  BY <1>1, <1>2 DEF Marks, Yields, Unmoved, Typed, RegistryState, Points
<1>4. QED BY <1>3, MarkingCompletes DEF RegisterProvider

\* Every operation (the exported methods of DeviceRegistry).
LEMMA EveryOperationCompletes ==
  ASSUME Typed(registry), Next
  PROVE  Completes(registry, registry')
BY RegisterCompletes, RegisterStaticSeedCompletes, RegisterPassiveObservedCompletes,
   ConfirmScanIdentityCompletes, MarkSlotStaticSeedCompletes,
   MarkSlotPassiveObservedCompletes, AdmitPassiveCompanionCompletes,
   AliasAddressesCompletes, RegisterProviderCompletes
DEF Next

-----------------------------------------------------------------------------
\* How the witnesses of a completed operation compare with those before

\* A generation later, all else is the same (registry.go:111-119).
LEMMA AdvanceType ==
  ASSUME NEW s, Typed(s)
  PROVE  /\ Typed(Advance(s))
         /\ Advance(s).observationGeneration = s.observationGeneration + 1
         /\ Advance(s).proofGeneration = s.proofGeneration
         /\ Advance(s).qualifiedWitnesses = s.qualifiedWitnesses
         /\ Advance(s).entries = s.entries
         /\ Advance(s).identity = s.identity
         /\ Advance(s).heap = s.heap
BY DEF Advance, Typed, RegistryState, PointersType, Points

CurrentWitnesses(s) ==
  \A a \in Address : s.qualifiedWitnesses[a].authorityKey # NoKey
                        => QualifiedIdentityWitnessCurrent(s, a)

\* What a witness depends on beside its own record.
SameOwners(s, t) == t.entries = s.entries /\ t.identity = s.identity /\ t.heap = s.heap

\* reconcileQualifiedIdentityWitnessesLocked (qualified_identity_witness.go:104).
LEMMA ReconcileType ==
  ASSUME NEW s, Typed(s)
  PROVE  LET t == ReconcileQualifiedIdentityWitnessesLocked(s)
         IN  /\ Typed(t)
             /\ SameOwners(s, t)
             /\ t.observationGeneration = s.observationGeneration
             /\ t.proofGeneration = s.proofGeneration
             /\ \A a \in Address : t.qualifiedWitnesses[a] =
                   IF QualifiedIdentityWitnessCurrent(s, a) THEN s.qualifiedWitnesses[a]
                                                            ELSE NoWitness
<1> DEFINE Ws == [a \in Address |-> IF QualifiedIdentityWitnessCurrent(s, a)
                                    THEN s.qualifiedWitnesses[a] ELSE NoWitness]
           T == [s EXCEPT !.qualifiedWitnesses = Ws]
<1>1. ReconcileQualifiedIdentityWitnessesLocked(s) = T
  BY DEF ReconcileQualifiedIdentityWitnessesLocked
<1>2. Ws \in Witnesses
  BY DEF Typed, RegistryState, Witnesses, NoWitness
<1>3. \A a \in Address : Ws[a] = IF QualifiedIdentityWitnessCurrent(s, a)
                                 THEN s.qualifiedWitnesses[a] ELSE NoWitness
  OBVIOUS
<1> HIDE DEF Ws
<1>4. T \in RegistryState
  BY <1>2 DEF Typed, RegistryState
<1>5. PointersType(T)
  BY DEF Typed, RegistryState, PointersType, Points
<1>6. QED BY <1>1, <1>3, <1>4, <1>5 DEF Typed, RegistryState, SameOwners

\* The witness recorded for a (qualified_identity_witness.go:85-101).
Recorded(s, a, o) ==
  [authorityKey |-> IncomingKey[o],
   RegistryObservationGeneration |-> s.observationGeneration,
   RegistryProofGeneration |-> s.proofGeneration + 1]

\* recordDirectQualifiedIdentityWitnessLocked (qualified_identity_witness.go:73).
LEMMA RecordType ==
  ASSUME NEW s, Typed(s), NEW a \in Address, NEW o \in Observation, NEW e,
         ProvesIdentity(s, a, o, e)
  PROVE  LET t == RecordDirectQualifiedIdentityWitnessLocked(s, a, o, e)
         IN  /\ Typed(t)
             /\ SameOwners(s, t)
             /\ t.observationGeneration = s.observationGeneration
             /\ t.proofGeneration = s.proofGeneration + 1
             /\ t.qualifiedWitnesses[a] = Recorded(s, a, o)
             /\ \A b \in Address \ {a} : t.qualifiedWitnesses[b] = s.qualifiedWitnesses[b]
<1> DEFINE W == Recorded(s, a, o)
           Ws == [s.qualifiedWitnesses EXCEPT ![a] = W]
           T == [s EXCEPT !.proofGeneration = s.proofGeneration + 1,
                          !.qualifiedWitnesses = Ws]
<1>1. RecordDirectQualifiedIdentityWitnessLocked(s, a, o, e) = T
  BY DEF RecordDirectQualifiedIdentityWitnessLocked, NextProofGeneration, Recorded, Typed,
         RegistryState
<1>2. W \in [authorityKey: IdentityKey \union {NoKey},
             RegistryObservationGeneration: Nat, RegistryProofGeneration: Nat]
  BY IncomingKeyType DEF Recorded, Typed, RegistryState
<1>3. s.qualifiedWitnesses \in Witnesses
  BY DEF Typed, RegistryState
<1> HIDE DEF W
<1>4. /\ Ws \in Witnesses
      /\ Ws[a] = W
      /\ \A b \in Address \ {a} : Ws[b] = s.qualifiedWitnesses[b]
  BY <1>2, <1>3 DEF Witnesses
<1> HIDE DEF Ws
<1>5. T \in RegistryState
  <2> DEFINE n == s.proofGeneration + 1
  <2>1. n \in Nat
    BY DEF Typed, RegistryState
  <2> HIDE DEF n
  <2>2. [s EXCEPT !.proofGeneration = n, !.qualifiedWitnesses = Ws] \in RegistryState
    BY <1>4, <2>1 DEF Typed, RegistryState
  <2>3. QED BY <2>2 DEF n
<1>6. PointersType(T)
  BY DEF Typed, RegistryState, PointersType, Points
<1>7. QED BY <1>1, <1>4, <1>5, <1>6 DEF Typed, RegistryState, SameOwners, W

\* next follows s in one operation, after which each witness is the one before
\* or none, except that a new one may be recorded at a for k.
Retires(s, next) ==
  /\ next.proofGeneration = s.proofGeneration
  /\ \A b \in Address : next.qualifiedWitnesses[b] \in {s.qualifiedWitnesses[b], NoWitness}

Proves(s, next, a, k) ==
  /\ next.proofGeneration = s.proofGeneration + 1
  /\ next.qualifiedWitnesses[a] =
        [authorityKey |-> k,
         RegistryObservationGeneration |-> s.observationGeneration + 1,
         RegistryProofGeneration |-> s.proofGeneration + 1]
  /\ \A b \in Address \ {a} :
        next.qualifiedWitnesses[b] \in {s.qualifiedWitnesses[b], NoWitness}

Follows(s, next) ==
  /\ Typed(next)
  /\ next.observationGeneration = s.observationGeneration + 1
  /\ CurrentWitnesses(next)
  /\ Retires(s, next) \/ \E a \in Address, k \in IdentityKey : Proves(s, next, a, k)

\* Marking leaves every witness as current as it was (registry_scan.go:35-52).
LEMMA MarkFollows ==
  ASSUME NEW s, Typed(s), CurrentWitnesses(s), NEW t, Yields(s, t), Unmoved(s, t)
  PROVE  Follows(s, Advance(t))
<1>1. Typed(t)
  BY DEF Yields
<1>2. ASSUME NEW a \in Address, QualifiedIdentityWitnessCurrent(s, a)
      PROVE QualifiedIdentityWitnessCurrent(Advance(t), a)
  <2>1. Points(s, s.entries[a])
    BY <1>2 DEF QualifiedIdentityWitnessCurrent, IsCurrentQualifiedIdentityKey, Typed,
                PointersType
  <2>2. /\ t.heap[s.entries[a]].identityKey = s.heap[s.entries[a]].identityKey
        /\ t.heap[s.entries[a]].physical = s.heap[s.entries[a]].physical
    BY <2>1 DEF Unmoved, Points
  <2>3. QED
    BY <1>1, <1>2, <2>2, AdvanceType
    DEF QualifiedIdentityWitnessCurrent, IsCurrentQualifiedIdentityKey, Yields, Unmoved
<1>3. CurrentWitnesses(Advance(t))
  BY <1>1, <1>2, AdvanceType DEF CurrentWitnesses, Yields
<1>4. Retires(s, Advance(t)) /\ Advance(t).observationGeneration = s.observationGeneration + 1
  BY <1>1, AdvanceType DEF Retires, Yields
<1>5. QED BY <1>1, <1>3, <1>4, AdvanceType DEF Follows

\* Reconciling retires exactly the witnesses that are not current any more
\* (qualified_identity_witness.go:104-118).
LEMMA ReconcileFollows ==
  ASSUME NEW s, NEW t, Yields(s, t)
  PROVE  LET next == ReconcileQualifiedIdentityWitnessesLocked(Advance(t))
         IN  /\ Follows(s, next)
             /\ Retires(s, next)
<1> DEFINE u == Advance(t)
           next == ReconcileQualifiedIdentityWitnessesLocked(u)
<1>1. Typed(t)
  BY DEF Yields
<1>2. Typed(u) /\ u.observationGeneration = s.observationGeneration + 1
               /\ u.proofGeneration = s.proofGeneration
               /\ u.qualifiedWitnesses = s.qualifiedWitnesses
  BY <1>1, AdvanceType DEF Yields
<1> HIDE DEF u
<1>3. /\ Typed(next)
      /\ SameOwners(u, next)
      /\ next.observationGeneration = u.observationGeneration
      /\ next.proofGeneration = u.proofGeneration
      /\ \A a \in Address : next.qualifiedWitnesses[a] =
            IF QualifiedIdentityWitnessCurrent(u, a) THEN u.qualifiedWitnesses[a]
                                                     ELSE NoWitness
  BY <1>2, ReconcileType
<1> HIDE DEF next
<1>4. CurrentWitnesses(next)
  <2> SUFFICES ASSUME NEW a \in Address, next.qualifiedWitnesses[a].authorityKey # NoKey
               PROVE  QualifiedIdentityWitnessCurrent(next, a)
    BY DEF CurrentWitnesses
  <2>1. QualifiedIdentityWitnessCurrent(u, a)
        /\ next.qualifiedWitnesses[a] = u.qualifiedWitnesses[a]
    BY <1>3 DEF NoWitness
  <2>2. QED
    BY <1>3, <2>1
    DEF QualifiedIdentityWitnessCurrent, IsCurrentQualifiedIdentityKey, SameOwners
<1>5. Retires(s, next)
  BY <1>2, <1>3 DEF Retires
<1>6. Follows(s, next) /\ Retires(s, next)
  BY <1>2, <1>3, <1>4, <1>5 DEF Follows
<1>7. QED BY <1>6 DEF u, next

\* A new witness is current, and the others stay so
\* (qualified_identity_witness.go:73-102).
LEMMA RecordFollows ==
  ASSUME NEW s, Typed(s), NEW u, Follows(s, u), Retires(s, u),
         NEW a \in Address, NEW o \in Observation, NEW e
  PROVE  Follows(s, RecordDirectQualifiedIdentityWitnessLocked(u, a, o, e))
<1> DEFINE next == RecordDirectQualifiedIdentityWitnessLocked(u, a, o, e)
<1>1. CASE ~ ProvesIdentity(u, a, o, e)
  BY <1>1 DEF RecordDirectQualifiedIdentityWitnessLocked
<1>2. CASE ProvesIdentity(u, a, o, e)
  <2>1. Typed(u) /\ u.observationGeneration = s.observationGeneration + 1
                 /\ u.proofGeneration = s.proofGeneration /\ CurrentWitnesses(u)
    BY DEF Follows, Retires
  <2>2. s.observationGeneration \in Nat /\ s.proofGeneration \in Nat
    BY DEF Typed, RegistryState
  <2>3. /\ Typed(next)
        /\ SameOwners(u, next)
        /\ next.observationGeneration = u.observationGeneration
        /\ next.proofGeneration = u.proofGeneration + 1
        /\ next.qualifiedWitnesses[a] = Recorded(u, a, o)
        /\ \A b \in Address \ {a} : next.qualifiedWitnesses[b] = u.qualifiedWitnesses[b]
    BY <1>2, <2>1, RecordType
  <2> HIDE DEF next
  <2>4. CurrentWitnesses(next)
    <3>1. QualifiedIdentityWitnessCurrent(next, a)
      <4>1. /\ next.qualifiedWitnesses[a].authorityKey = IncomingKey[o]
            /\ next.qualifiedWitnesses[a].RegistryObservationGeneration # 0
            /\ next.qualifiedWitnesses[a].RegistryProofGeneration # 0
        BY <2>1, <2>2, <2>3 DEF Recorded
      <4>2. QED
        BY <1>2, <2>3, <4>1
        DEF ProvesIdentity, QualifiedIdentityWitnessCurrent, IsCurrentQualifiedIdentityKey,
            SameOwners
    <3>2. ASSUME NEW b \in Address \ {a},
                 next.qualifiedWitnesses[b].authorityKey # NoKey
          PROVE QualifiedIdentityWitnessCurrent(next, b)
      <4>1. QualifiedIdentityWitnessCurrent(u, b)
        BY <2>1, <2>3, <3>2 DEF CurrentWitnesses
      <4>2. QED
        BY <2>3, <4>1
        DEF QualifiedIdentityWitnessCurrent, IsCurrentQualifiedIdentityKey, SameOwners
    <3>3. QED BY <3>1, <3>2 DEF CurrentWitnesses
  <2>5. Proves(s, next, a, IncomingKey[o])
    BY <2>1, <2>3 DEF Proves, Recorded, Retires
  <2>6. IncomingKey[o] \in IdentityKey
    BY <1>2, IncomingKeyType DEF ProvesIdentity
  <2>7. next.observationGeneration = s.observationGeneration + 1
    BY <2>1, <2>3
  <2>8. Follows(s, next)
    BY <2>3, <2>4, <2>5, <2>6, <2>7 DEF Follows
  <2>9. QED BY <2>8 DEF next
<1>3. QED BY <1>1, <1>2

\* The inductive invariant: types, and witnesses that are current.
IdentityInv == Typed(registry) /\ CurrentWitnesses(registry)

\* Every operation (the exported methods of DeviceRegistry).
LEMMA EveryOperationFollows ==
  ASSUME IdentityInv, Next
  PROVE  Follows(registry, registry')
<1>1. PICK t : /\ Yields(registry, t)
               /\ \/ Unmoved(registry, t) /\ registry' = Advance(t)
                  \/ registry' = ReconcileQualifiedIdentityWitnessesLocked(Advance(t))
                  \/ \E a \in Address, o \in Observation : \E e :
                        registry' = RecordDirectQualifiedIdentityWitnessLocked(
                            ReconcileQualifiedIdentityWitnessesLocked(Advance(t)), a, o, e)
  BY EveryOperationCompletes DEF IdentityInv, Completes
<1>2. Typed(registry) /\ CurrentWitnesses(registry)
  BY DEF IdentityInv
<1>3. /\ Follows(registry, ReconcileQualifiedIdentityWitnessesLocked(Advance(t)))
      /\ Retires(registry, ReconcileQualifiedIdentityWitnessesLocked(Advance(t)))
  BY <1>1, ReconcileFollows
<1>4. QED BY <1>1, <1>2, <1>3, MarkFollows, RecordFollows

-----------------------------------------------------------------------------
\* The theorems

\* The registry NewDeviceRegistry returns (registry.go:93-102).
LEMMA InitType ==
  ASSUME Init
  PROVE  IdentityInv /\ \A a \in Address : registry.qualifiedWitnesses[a] = NoWitness
<1> DEFINE Ws == [a \in Address |-> NoWitness]
<1>1. Ws \in Witnesses
  BY DEF Witnesses, NoWitness
<1>2. registry.qualifiedWitnesses = Ws
  BY DEF Init
<1>3. \A a \in Address : Ws[a] = NoWitness
  OBVIOUS
<1> HIDE DEF Ws
<1>4. registry \in RegistryState
  BY <1>1, <1>2, ProviderAssumption DEF Init, RegistryState
<1>5. PointersType(registry)
  BY DEF Init, PointersType
<1>6. CurrentWitnesses(registry)
  BY <1>2, <1>3 DEF CurrentWitnesses, NoWitness
<1>7. QED BY <1>2, <1>3, <1>4, <1>5, <1>6 DEF IdentityInv, Typed

\* No operation breaks it (the exported methods of DeviceRegistry).
LEMMA IdentityInvIsKept == IdentityInv /\ [Next]_registry => IdentityInv'
<1> SUFFICES ASSUME IdentityInv, [Next]_registry PROVE IdentityInv'
  OBVIOUS
<1>1. CASE Next
  <2>1. Follows(registry, registry')
    BY <1>1, EveryOperationFollows
  <2>2. Typed(registry') /\ CurrentWitnesses(registry')
    BY <2>1 DEF Follows
  <2>3. QED BY <2>2 DEF IdentityInv, Typed, RegistryState, PointersType, Points, Witnesses,
                        CurrentWitnesses, QualifiedIdentityWitnessCurrent,
                        IsCurrentQualifiedIdentityKey
<1>2. CASE UNCHANGED registry
  BY <1>2 DEF IdentityInv, Typed, RegistryState, PointersType, Points, Witnesses,
              CurrentWitnesses, QualifiedIdentityWitnessCurrent, IsCurrentQualifiedIdentityKey
<1>3. QED BY <1>1, <1>2

\* It holds of every reachable registry (the exported methods of DeviceRegistry).
LEMMA IdentityInvHolds == Spec => []IdentityInv
<1>1. Init => IdentityInv
  BY InitType
<1>2. QED BY <1>1, IdentityInvIsKept, PTL DEF Spec

\* Every reachable registry has the types of registry.go:72-91, and none of its
\* pointers dangles.
THEOREM TypeCorrect == Spec => []TypeOK
<1>1. IdentityInv => TypeOK
  BY DEF IdentityInv, Typed, RegistryState, PointersType, Points, Witnesses, TypeOK, Live, Entry
<1>2. QED BY <1>1, IdentityInvHolds, PTL

\* A standing witness is one its address earns now: whatever joins, splits,
\* merges and conflicts came before, reconcileQualifiedIdentityWitnessesLocked
\* runs wherever it is needed (qualified_identity_witness.go:104-118).
THEOREM WitnessesStayCurrent == Spec => []WitnessesAreCurrent
<1>1. IdentityInv => WitnessesAreCurrent
  BY DEF IdentityInv, CurrentWitnesses, WitnessesAreCurrent, Witnessed, Witness
<1>2. QED BY <1>1, IdentityInvHolds, PTL

\* Two current witnesses of one authority are of the entry its row points to
\* (qualified_identity_witness.go:140-149).
LEMMA CurrentWitnessesAgree ==
  ASSUME NEW s, CurrentWitnesses(s), NEW a \in Address, NEW b \in Address,
         s.qualifiedWitnesses[a].authorityKey # NoKey,
         s.qualifiedWitnesses[b].authorityKey # NoKey
  PROVE  /\ s.entries[a] # Nil
         /\ s.qualifiedWitnesses[a].authorityKey = s.qualifiedWitnesses[b].authorityKey
               <=> s.entries[a] = s.entries[b]
BY DEF CurrentWitnesses, QualifiedIdentityWitnessCurrent, IsCurrentQualifiedIdentityKey

\* Standing witnesses tell two devices apart exactly as the address map does
\* (qualified_identity_witness.go:120-150).
THEOREM WitnessesFollowGroups == Spec => []WitnessesAgreeWithGroups
<1>1. IdentityInv => WitnessesAgreeWithGroups
  BY CurrentWitnessesAgree DEF IdentityInv, WitnessesAgreeWithGroups, Witnessed, Witness
<1>2. QED BY <1>1, IdentityInvHolds, PTL

\* A consumer that compares generations misses no change (registry.go:111-119).
THEOREM GenerationsAdvance == Spec => EveryChangeAdvancesGeneration
<1>1. IdentityInv /\ [Next]_registry =>
        [registry' # registry =>
            registry'.observationGeneration = registry.observationGeneration + 1]_registry
  BY EveryOperationFollows DEF Follows
<1>2. QED BY <1>1, IdentityInvHolds, PTL DEF Spec, EveryChangeAdvancesGeneration

\* Proof generations identify proofs, and a later proof is of a later observation
\* (qualified_identity_witness.go:85-101).
THEOREM ProofsStayOrdered == Spec => []ProofsAreOrdered
<1> USE DEF Witness, Witnessed
<1>1. Init => ProofsAreOrdered
  BY InitType DEF ProofsAreOrdered, NoWitness
<1>2. IdentityInv /\ ProofsAreOrdered /\ [Next]_registry => ProofsAreOrdered'
  <2> SUFFICES ASSUME IdentityInv, ProofsAreOrdered, [Next]_registry PROVE ProofsAreOrdered'
    OBVIOUS
  <2>1. CASE UNCHANGED registry
    BY <2>1 DEF ProofsAreOrdered
  <2>2. CASE Next
    <3> DEFINE old(a) == registry.qualifiedWitnesses[a]
               new(a) == registry'.qualifiedWitnesses[a]
               n == registry.observationGeneration
               m == registry.proofGeneration
    <3>1. Follows(registry, registry')
      BY <2>2, EveryOperationFollows
    <3>2. n \in Nat /\ m \in Nat
      BY DEF IdentityInv, Typed, RegistryState
    <3>3. registry'.observationGeneration = n + 1
      BY <3>1 DEF Follows
    <3>4. \A a \in Address : old(a).authorityKey # NoKey =>
             /\ old(a).RegistryObservationGeneration \in 1 .. n
             /\ old(a).RegistryProofGeneration \in 1 .. m
      BY DEF ProofsAreOrdered
    <3>5. \A a, b \in Address :
             a # b /\ old(a).authorityKey # NoKey /\ old(b).authorityKey # NoKey =>
                /\ old(a).RegistryProofGeneration # old(b).RegistryProofGeneration
                /\ old(a).RegistryProofGeneration < old(b).RegistryProofGeneration
                     => old(a).RegistryObservationGeneration
                           < old(b).RegistryObservationGeneration
      BY DEF ProofsAreOrdered
    <3>6. CASE Retires(registry, registry')
      <4>1. registry'.proofGeneration = m
            /\ \A a \in Address : new(a).authorityKey # NoKey => new(a) = old(a)
        BY <3>6 DEF Retires, NoWitness
      <4> HIDE DEF old, new, n, m
      <4>2. \A a \in Address : new(a).authorityKey # NoKey =>
               /\ new(a).RegistryObservationGeneration \in 1 .. (n + 1)
               /\ new(a).RegistryProofGeneration \in 1 .. m
        BY <3>2, <3>4, <4>1
      <4>3. QED BY <3>3, <3>5, <4>1, <4>2 DEF ProofsAreOrdered, new
    <3>7. ASSUME NEW c \in Address, NEW k \in IdentityKey, Proves(registry, registry', c, k)
          PROVE  ProofsAreOrdered'
      <4>1. /\ registry'.proofGeneration = m + 1
            /\ new(c).RegistryObservationGeneration = n + 1
            /\ new(c).RegistryProofGeneration = m + 1
            /\ \A a \in Address \ {c} : new(a).authorityKey # NoKey => new(a) = old(a)
        BY <3>7 DEF Proves, NoWitness
      <4> HIDE DEF old, new, n, m
      <4>2. \A a \in Address : new(a).authorityKey # NoKey =>
               /\ new(a).RegistryObservationGeneration \in 1 .. (n + 1)
               /\ new(a).RegistryProofGeneration \in 1 .. (m + 1)
        BY <3>2, <3>4, <4>1
      <4>3. \A a \in Address \ {c} : new(a).authorityKey # NoKey =>
               /\ new(a).RegistryObservationGeneration < new(c).RegistryObservationGeneration
               /\ new(a).RegistryProofGeneration < new(c).RegistryProofGeneration
        BY <3>2, <3>4, <4>1
      <4>4. \A a, b \in Address :
               a # b /\ new(a).authorityKey # NoKey /\ new(b).authorityKey # NoKey =>
                  /\ new(a).RegistryProofGeneration # new(b).RegistryProofGeneration
                  /\ new(a).RegistryProofGeneration < new(b).RegistryProofGeneration
                       => new(a).RegistryObservationGeneration
                             < new(b).RegistryObservationGeneration
        <5> SUFFICES ASSUME NEW a \in Address, NEW b \in Address, a # b,
                            new(a).authorityKey # NoKey, new(b).authorityKey # NoKey
                     PROVE  /\ new(a).RegistryProofGeneration # new(b).RegistryProofGeneration
                            /\ new(a).RegistryProofGeneration < new(b).RegistryProofGeneration
                                 => new(a).RegistryObservationGeneration
                                       < new(b).RegistryObservationGeneration
          OBVIOUS
        <5>1. CASE a = c
          BY <4>2, <4>3, <5>1
        <5>2. CASE b = c
          BY <4>2, <4>3, <5>2
        <5>3. CASE a # c /\ b # c
          BY <3>5, <4>1, <5>3
        <5>4. QED BY <5>1, <5>2, <5>3
      <4>5. QED BY <3>3, <4>1, <4>2, <4>4 DEF ProofsAreOrdered, new
    <3>8. QED BY <3>1, <3>6, <3>7 DEF Follows
  <2>3. QED BY <2>1, <2>2
<1>3. QED BY <1>1, <1>2, IdentityInvHolds, PTL DEF Spec

\* Every address without a proof has the empty record (qualified_identity_witness.go:43).
NoStrayProof == \A a \in Address : Witness(a).authorityKey = NoKey => Witness(a) = NoWitness

\* The registry implements the ledger of proofs (qualified_identity_witness.go).
THEOREM RegistryImplementsLedger == Spec => LedgerSpec
<1> USE DEF Witness
<1>1. Init => NoStrayProof
  BY InitType DEF NoStrayProof
<1>2. IdentityInv /\ NoStrayProof /\ [Next]_registry => NoStrayProof'
  <2> SUFFICES ASSUME IdentityInv, NoStrayProof, [Next]_registry PROVE NoStrayProof'
    OBVIOUS
  <2>1. CASE UNCHANGED registry
    BY <2>1 DEF NoStrayProof
  <2>2. CASE Next
    <3>1. Follows(registry, registry')
      BY <2>2, EveryOperationFollows
    <3>2. CASE Retires(registry, registry')
      BY <3>2 DEF NoStrayProof, Retires
    <3>3. ASSUME NEW c \in Address, NEW k \in IdentityKey, Proves(registry, registry', c, k)
          PROVE NoStrayProof'
      BY <3>3 DEF NoStrayProof, Proves, IdentityKey
    <3>4. QED BY <3>1, <3>2, <3>3 DEF Follows
  <2>3. QED BY <2>1, <2>2
<1>3. Init => Ledger!Init
  BY DEF Init, Ledger!Init, Ledger!NoProof, NoWitness
<1>4. IdentityInv /\ NoStrayProof /\ NoStrayProof' /\ [Next]_registry
        => [Ledger!Next]_(Ledger!vars)
  <2> SUFFICES ASSUME IdentityInv, NoStrayProof, NoStrayProof', [Next]_registry
               PROVE  [Ledger!Next]_(Ledger!vars)
    OBVIOUS
  <2>1. CASE UNCHANGED registry
    BY <2>1 DEF Ledger!vars
  <2>2. CASE Next
    <3> DEFINE old == registry.qualifiedWitnesses
               new == registry'.qualifiedWitnesses
    <3>1. Follows(registry, registry')
      BY <2>2, EveryOperationFollows
    <3>2. Typed(registry') /\ CurrentWitnesses(registry')
      BY <3>1 DEF Follows
    <3>3. Ledger!NoProof = NoWitness
      BY DEF Ledger!NoProof, NoWitness
    <3>4. Ledger!Consistent(registry'.entries, new)
      <4> SUFFICES ASSUME NEW a \in Ledger!Proved(new), NEW b \in Ledger!Proved(new)
                   PROVE  /\ registry'.entries[a] # Nil
                          /\ new[a].authorityKey = new[b].authorityKey
                                <=> registry'.entries[a] = registry'.entries[b]
        BY DEF Ledger!Consistent
      <4>1. /\ a \in Address /\ new[a].authorityKey # NoKey
            /\ b \in Address /\ new[b].authorityKey # NoKey
        BY <3>3 DEF Ledger!Proved, NoStrayProof
      <4>2. QED BY <3>2, <4>1, CurrentWitnessesAgree
    <3>5. Ledger!Regroup
      <4>1. registry'.observationGeneration = registry.observationGeneration + 1
        BY <3>1 DEF Follows
      <4>2. registry'.entries \in [Address -> EntryId \union {Nil}]
        BY <3>2 DEF Typed, RegistryState
      <4>3. QED BY <3>4, <4>1, <4>2 DEF Ledger!Regroup
    <3>6. new = [a \in Address |-> new[a]]
      BY <3>2 DEF Typed, RegistryState, Witnesses
    <3>7. CASE Retires(registry, registry')
      <4> DEFINE retired == {a \in Address : new[a] = NoWitness}
      <4>1. \A a \in Address : new[a] = IF a \in retired THEN NoWitness ELSE old[a]
        BY <3>7 DEF Retires
      <4>2. new = [a \in Address |-> IF a \in retired THEN NoWitness ELSE old[a]]
        BY <3>6, <4>1
      <4>3. retired \in SUBSET Address /\ registry'.proofGeneration = registry.proofGeneration
        BY <3>7 DEF Retires
      <4> HIDE DEF retired
      <4>4. Ledger!Observe
        BY <3>3, <3>5, <4>2, <4>3 DEF Ledger!Observe
      <4>5. QED BY <4>4 DEF Ledger!Next
    <3>8. ASSUME NEW c \in Address, NEW k \in IdentityKey, Proves(registry, registry', c, k)
          PROVE  Ledger!Next
      <4> DEFINE retired == {a \in Address : new[a] = NoWitness}
                 issue == Ledger!Proof(k, registry.observationGeneration + 1,
                                       registry.proofGeneration + 1)
      <4>1. new[c] = issue
        BY <3>8 DEF Proves, Ledger!Proof
      <4> HIDE DEF issue
      <4>2. \A a \in Address : new[a] = CASE a = c -> issue
                                          [] a # c /\ a \in retired -> NoWitness
                                          [] OTHER -> old[a]
        BY <3>8, <4>1 DEF Proves
      <4>3. new = [a \in Address |-> CASE a = c -> issue
                                       [] a # c /\ a \in retired -> NoWitness
                                       [] OTHER -> old[a]]
        BY <3>6, <4>2
      <4>4. retired \in SUBSET Address
            /\ registry'.proofGeneration = registry.proofGeneration + 1
        BY <3>8 DEF Proves
      <4> HIDE DEF retired
      <4>5. Ledger!Prove(c, k)
        BY <3>3, <3>5, <4>3, <4>4 DEF Ledger!Prove, issue
      <4>6. QED BY <4>5 DEF Ledger!Next
    <3>9. QED BY <3>1, <3>7, <3>8 DEF Follows
  <2>3. QED BY <2>1, <2>2
<1>5. QED BY <1>1, <1>2, <1>3, <1>4, IdentityInvHolds, PTL DEF Spec, LedgerSpec, Ledger!Spec

-----------------------------------------------------------------------------
\* Lists without duplicates

Elements(q) == {q[i] : i \in DOMAIN q}

\* Nothing is in the list twice.
Distinct(q) == \A i, j \in DOMAIN q : q[i] = q[j] => i = j

Below(S, i) == {j \in S : j < i}

\* A greater number has a higher rank in a finite set
\* (scan.go:277-284, 460-474; service_projection.go:152-154).
LEMMA RanksFollowNumbers ==
  ASSUME NEW S, S \subseteq Int, IsFiniteSet(S)
  PROVE  /\ \A i \in S : /\ Cardinality(Below(S, i)) \in Nat
                         /\ Cardinality(Below(S, i)) < Cardinality(S)
         /\ \A i, j \in S : i < j => Cardinality(Below(S, i)) < Cardinality(Below(S, j))
<1> DEFINE n == Cardinality(S)
<1>1. n \in Nat
  BY FS_CardinalityType
<1>2. ASSUME NEW i \in S
      PROVE  /\ IsFiniteSet(Below(S, i))
             /\ Cardinality(Below(S, i)) \in Nat
             /\ Cardinality(Below(S, i)) < n
  <2>1. IsFiniteSet(S \ {i}) /\ Cardinality(S \ {i}) = n - 1
    BY FS_RemoveElement
  <2>2. Below(S, i) \subseteq S \ {i}
    BY DEF Below
  <2>3. IsFiniteSet(Below(S, i)) /\ Cardinality(Below(S, i)) <= n - 1
    BY <2>1, <2>2, FS_Subset
  <2>4. QED BY <1>1, <2>3, FS_CardinalityType
<1>3. ASSUME NEW i \in S, NEW j \in S, i < j
      PROVE  Cardinality(Below(S, i)) < Cardinality(Below(S, j))
  <2>1. i \in Below(S, j) /\ i \notin Below(S, i)
    BY <1>3 DEF Below
  <2>2. IsFiniteSet(Below(S, i) \union {i})
        /\ Cardinality(Below(S, i) \union {i}) = Cardinality(Below(S, i)) + 1
    BY <1>2, <2>1, FS_AddElement
  <2>3. Below(S, i) \union {i} \subseteq Below(S, j)
    <3>1. ASSUME NEW x \in S, x < i
          PROVE  x < j
      <4>1. x \in Int /\ i \in Int /\ j \in Int
        OBVIOUS
      <4>2. QED BY <1>3, <3>1, <4>1
    <3>2. QED BY <2>1, <3>1 DEF Below
  <2>4. Cardinality(Below(S, i) \union {i}) <= Cardinality(Below(S, j))
    BY <1>2, <2>3, FS_Subset
  <2>5. QED BY <1>2, <2>2, <2>4
<1>4. QED BY <1>2, <1>3

\* There is a number of every rank in a finite set
\* (scan.go:277-284, 460-474; service_projection.go:152-154).
LEMMA EveryRankIsTaken ==
  ASSUME NEW S, S \subseteq Int, IsFiniteSet(S), NEW k \in 1 .. Cardinality(S)
  PROVE  \E i \in S : Cardinality(Below(S, i)) = k - 1
<1> DEFINE n == Cardinality(S)
           rank == [i \in S |-> Cardinality(Below(S, i)) + 1]
<1>1. n \in Nat
  BY FS_CardinalityType
<1>0. /\ \A i \in S : /\ Cardinality(Below(S, i)) \in Nat
                   /\ Cardinality(Below(S, i)) < Cardinality(S)
      /\ \A i, j \in S : i < j => Cardinality(Below(S, i)) < Cardinality(Below(S, j))
  BY RanksFollowNumbers
<1>2. rank \in [S -> 1 .. n]
  BY <1>0, <1>1
<1>3. ASSUME NEW i \in S, NEW j \in S, rank[i] = rank[j]
      PROVE  i = j
  <2>1. Cardinality(Below(S, i)) = Cardinality(Below(S, j))
    BY <1>0, <1>3
  <2>2. ~ (i < j) /\ ~ (j < i)
    BY <1>0, <2>1
  <2>3. QED BY <2>2
<1>4. rank \in Injection(S, 1 .. n)
  BY <1>2, <1>3 DEF Injection, IsInjective
<1>5. IsFiniteSet(1 .. n) /\ Cardinality(1 .. n) = n
  BY <1>1, FS_Interval
<1> HIDE DEF rank
<1>6. rank \in Surjection(S, 1 .. n)
  BY <1>4, <1>5, FS_Injection
<1>7. PICK i \in S : rank[i] = k
  BY <1>6 DEF Surjection
<1>8. QED BY <1>0, <1>7 DEF rank

\* InOrder lists the numbers of a finite set, each once and ascending
\* (scan.go:277-284, 460-474; service_projection.go:152-154).
LEMMA InOrderLists ==
  ASSUME NEW S, S \subseteq Int, IsFiniteSet(S)
  PROVE  LET q == InOrder(S)
         IN  /\ q \in [1 .. Cardinality(S) -> S]
             /\ Cardinality(S) \in Nat
             /\ \A k \in DOMAIN q : Cardinality(Below(S, q[k])) = k - 1
             /\ \A k, l \in DOMAIN q : k < l => q[k] < q[l]
             /\ Distinct(q)
             /\ Elements(q) = S
<1> DEFINE n == Cardinality(S)
           q == InOrder(S)
<1>1. n \in Nat
  BY FS_CardinalityType
<1>2. q = [k \in 1 .. n |-> CHOOSE i \in S : Cardinality(Below(S, i)) = k - 1]
  BY DEF InOrder, Below
<1> HIDE DEF q
<1>3. ASSUME NEW k \in 1 .. n
      PROVE  q[k] \in S /\ Cardinality(Below(S, q[k])) = k - 1
  BY <1>2, <1>3, EveryRankIsTaken
<1>4. q \in [1 .. n -> S]
  BY <1>2, <1>3
<1>5. Distinct(q)
  BY <1>1, <1>3, <1>4 DEF Distinct
<1>6. IsFiniteSet(1 .. n) /\ Cardinality(1 .. n) = n
  BY <1>1, FS_Interval
<1>7. q \in Injection(1 .. n, S)
  BY <1>4, <1>5 DEF Distinct, Injection, IsInjective
<1>8. q \in Surjection(1 .. n, S)
  BY <1>6, <1>7, FS_Injection
<1>9. Elements(q) = S
  BY <1>4, <1>8 DEF Elements, Surjection
<1>10. ASSUME NEW k \in 1 .. n, NEW l \in 1 .. n, k < l
       PROVE  q[k] < q[l]
  <2>0. \A i, j \in S : i < j => Cardinality(Below(S, i)) < Cardinality(Below(S, j))
    BY RanksFollowNumbers
  <2>1. ASSUME q[l] < q[k] PROVE FALSE
    <3>1. Cardinality(Below(S, q[l])) < Cardinality(Below(S, q[k]))
      BY <1>3, <2>0, <2>1
    <3>2. l - 1 < k - 1 /\ k \in Int /\ l \in Int
      BY <1>1, <1>3, <3>1
    <3>3. QED BY <1>10, <3>2
  <2>2. q[k] # q[l]
    BY <1>4, <1>5, <1>10 DEF Distinct
  <2>3. q[k] \in Int /\ q[l] \in Int
    BY <1>3
  <2>4. QED BY <2>1, <2>2, <2>3
<1>11. QED BY <1>1, <1>3, <1>4, <1>5, <1>9, <1>10 DEF q
=============================================================================
