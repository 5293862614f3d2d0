------------------------- MODULE RegistryFaceProofs -------------------------
(* Proofs that what DeviceRegistry has learnt of a face is only added to, *)
(* and that a face is confirmed by its own observation or along topology,  *)
(* for every instance.                                                     *)
EXTENDS RegistryPartitionProofs

-----------------------------------------------------------------------------
\* What a helper keeps of the faces

MaybeSlot == AddressSlot \union {NoSlot}

SlotConfirmed(slot) == slot # NoSlot /\ slot.VerificationState = IdentityConfirmed

\* The history of a slot is kept, and the slot is not newly confirmed.
FaceKept(old, new) ==
  HistoryRetained(old, new) /\ (SlotConfirmed(new) => SlotConfirmed(old))

KeepsFaces(s, t, A) == \A x \in A : FaceKept(s.addressTable[x], t.addressTable[x])

\* An explicit relation is recorded at both its ends.
Symmetric(s) ==
  \A x \in Address : \A y \in s.topology[x] : x \in s.topology[y]

\* All but one of the addresses.
Others(a) == Address \ {a}

\* A slot that is left alone (no single line of the code).
LEMMA FaceKeptReflexive ==
  ASSUME NEW slot \in MaybeSlot
  PROVE  FaceKept(slot, slot)
BY DEF FaceKept, HistoryRetained, MaybeSlot, AddressSlot, VerificationState

\* Two writes of one slot (no single line of the code).
LEMMA FaceKeptTransitive ==
  ASSUME NEW x \in MaybeSlot, NEW y \in MaybeSlot, NEW z \in MaybeSlot,
         FaceKept(x, y), FaceKept(y, z)
  PROVE  FaceKept(x, z)
BY DEF FaceKept, HistoryRetained, SlotConfirmed, MaybeSlot, AddressSlot, VerificationState

\* The slot an address has, or the empty one made for it (registry_scan.go:5-12).
LEMMA SlotForKept ==
  ASSUME NEW s, Typed(s), NEW x \in Address
  PROVE  FaceKept(s.addressTable[x], SlotFor(s, x)) /\ SlotFor(s, x) \in AddressSlot
<1>1. s.addressTable[x] \in MaybeSlot /\ SlotFor(s, x) \in AddressSlot
  BY SlotForType DEF Typed, RegistryState, MaybeSlot
<1>2. CASE s.addressTable[x] = NoSlot
  BY <1>1, <1>2
  DEF SlotFor, EnsureSlot, EmptySlot, FaceKept, HistoryRetained, SlotConfirmed, IdentityConfirmed
<1>3. CASE s.addressTable[x] # NoSlot
  BY <1>1, <1>3, FaceKeptReflexive DEF SlotFor, EnsureSlot
<1>4. QED BY <1>1, <1>2, <1>3

\* A slot that moves to another entry (registry_scan.go:118).
LEMMA AttachedKept ==
  ASSUME NEW old \in MaybeSlot, NEW slot \in AddressSlot, FaceKept(old, slot), NEW e \in EntryId
  PROVE  FaceKept(old, Attached(slot, e)) /\ Attached(slot, e) \in AddressSlot
<1>1. /\ Attached(slot, e) \in AddressSlot
      /\ Attached(slot, e).Role = slot.Role
      /\ Attached(slot, e).DiscoverySource = slot.DiscoverySource
      /\ Attached(slot, e).VerificationState = slot.VerificationState
  BY DEF Attached, AddressSlot
<1>2. Attached(slot, e) # NoSlot /\ slot # NoSlot
  BY <1>1, NullAssumption
<1> DEFINE new == Attached(slot, e)
<1> HIDE DEF new
<1>3. QED BY <1>1, <1>2 DEF FaceKept, HistoryRetained, SlotConfirmed, new

\* A stamp raises what is known (registry_scan.go:54-74, 115-137).
LEMMA StampKept ==
  ASSUME NEW slot \in AddressSlot, NEW source \in DiscoverySource,
         NEW floor \in VerificationState, NEW role \in SlotRole
  PROVE  LET new == Stamp(slot, source, floor, role)
         IN  /\ new \in AddressSlot
             /\ HistoryRetained(slot, new)
             /\ floor # IdentityConfirmed => FaceKept(slot, new)
             /\ floor = IdentityConfirmed => SlotConfirmed(new)
<1> DEFINE new == Stamp(slot, source, floor, role)
<1>1. /\ new \in AddressSlot
      /\ new.VerificationState = AtLeast(slot.VerificationState, floor)
      /\ new.Role = StickyRole(slot, role)
      /\ new.DiscoverySource = RecordDiscoverySource(slot, source)
  BY StampType DEF Stamp, AddressSlot
<1>2. new # NoSlot /\ slot # NoSlot
  BY <1>1, NullAssumption
<1>3. slot.VerificationState \in 0 .. 3 /\ floor \in 0 .. 3
  BY DEF AddressSlot, VerificationState, IdentityConfirmed
<1> HIDE DEF new
<1>4. QED
  BY <1>1, <1>2, <1>3
  DEF FaceKept, HistoryRetained, SlotConfirmed, AtLeast, StickyRole, RecordDiscoverySource,
      IdentityConfirmed, new

\* Helpers are called one after the other (no single line of the code).
LEMMA KeepsFacesTransitive ==
  ASSUME NEW s, NEW t, NEW u, Typed(s), Typed(t), Typed(u), NEW A \in SUBSET Address,
         KeepsFaces(s, t, A), KeepsFaces(t, u, A)
  PROVE  KeepsFaces(s, u, A)
<1> SUFFICES ASSUME NEW x \in A
             PROVE  FaceKept(s.addressTable[x], u.addressTable[x])
  BY DEF KeepsFaces
<1>1. /\ s.addressTable[x] \in MaybeSlot
      /\ t.addressTable[x] \in MaybeSlot
      /\ u.addressTable[x] \in MaybeSlot
  BY DEF Typed, RegistryState, MaybeSlot
<1>2. QED BY <1>1, FaceKeptTransitive DEF KeepsFaces

\* A helper that writes no slot (no single line of the code).
LEMMA SameTableKeepsFaces ==
  ASSUME NEW s, Typed(s), NEW t, t.addressTable = s.addressTable, NEW A \in SUBSET Address
  PROVE  KeepsFaces(s, t, A)
BY FaceKeptReflexive DEF KeepsFaces, Typed, RegistryState, MaybeSlot

-----------------------------------------------------------------------------
\* The helpers

\* No slot and no topology is touched.
SameFaces(s, t) == t.addressTable = s.addressTable /\ t.topology = s.topology

\* The index of identities (registry_alias.go:18-86).
LEMMA PublishSameFaces ==
  ASSUME NEW s, Typed(s), NEW e, Points(s, e), NEW k \in IdentityKey \union {NoKey}
  PROVE  SameFaces(s, PublishCurrentIdentityBindingLocked(s, e, k))
<1> DEFINE U == DropStaleIdentity(s, k)
           p == PublishableKey(s, e, k, CurrentIdentityEntry(s, k))
           V == RetainCurrentIdentityBindingLocked(U, e, p)
           T == BindIdentity(V, e, p)
<1>1. PublishCurrentIdentityBindingLocked(s, e, k) = T
  BY DEF PublishCurrentIdentityBindingLocked, ReplaceBinding
<1>2. Typed(U) /\ SameFaces(s, U)
  BY DropStaleYields DEF Yields, DropStaleIdentity, SameFaces, Typed, RegistryState
<1> HIDE DEF U, p
<1>3. Typed(V) /\ SameFaces(U, V)
  <2>1. Typed(V)
    BY <1>2, RetainYields DEF Yields
  <2>2. SameFaces(U, V)
    BY <1>2 DEF RetainCurrentIdentityBindingLocked, SameFaces, Typed, RegistryState
  <2>3. QED BY <2>1, <2>2
<1> HIDE DEF V
<1>4. SameFaces(V, T)
  BY <1>3 DEF BindIdentity, SameFaces, Typed, RegistryState
<1>5. QED BY <1>1, <1>2, <1>3, <1>4 DEF SameFaces

\* An address joins an entry, new or selected
\* (registry_registration.go:125-133).
LEMMA JoinEntrySameFaces ==
  ASSUME NEW s, Typed(s), NEW a \in Address, NEW selected, NEW fresh
  PROVE  SameFaces(s, JoinEntry(s, a, selected, fresh))
BY DEF JoinEntry, SameFaces, Typed, RegistryState

\* The same, from the stored info on (registry_registration.go:135-206).
LEMMA StoreSameFaces ==
  ASSUME NEW before, NEW s, Typed(s), NEW a \in Address, NEW o \in Observation,
         NEW e, Points(s, e), NEW keepID
  PROVE  SameFaces(s, Store(before, s, a, o, e, keepID))
<1> DEFINE info == StoredInfo(o, s.heap[e], keepID)
           k == AuthorityKey(before, o, s.heap[e])
           Ne == Rebuilt(s.heap[e], info, Matched(s, info))
           U == [s EXCEPT !.heap[e] = Ne]
           V == PublishCurrentIdentityBindingLocked(U, e, k)
           T == [V EXCEPT !.entries[a] = e]
<1>1. info \in DeviceInfo /\ k \in IdentityKey \union {NoKey}
  BY StoredInfoType, AuthorityKeyType, ObservationAssumption DEF Points
<1>2. Matched(s, info) \in SUBSET Provider
  BY DEF Matched, Typed, RegistryState
<1>3. Store(before, s, a, o, e, keepID) = T
  BY DEF Store, StoreInfo, Points, Typed, RegistryState
<1> HIDE DEF info, k
<1>4. Ne \in DeviceEntry
  BY <1>1, <1>2, RebuiltType DEF Points
<1>5. Typed(U) /\ Points(U, e)
  BY <1>4, WriteEntryYields DEF Points, Yields
<1>6. SameFaces(s, U)
  BY DEF SameFaces, Typed, RegistryState
<1> HIDE DEF U
<1>7. SameFaces(U, V) /\ Typed(V)
  BY <1>1, <1>5, PublishSameFaces, PublishYields DEF Yields
<1> HIDE DEF V
<1>8. SameFaces(V, T)
  BY <1>7 DEF SameFaces, Typed, RegistryState
<1>9. QED BY <1>3, <1>6, <1>7, <1>8 DEF SameFaces

\* syncEntryFacesLocked makes missing slots and attaches free ones
\* (registry_scan.go:139-157).
LEMMA SyncKeepsHistory ==
  ASSUME NEW s, Typed(s), NEW e, Points(s, e)
  PROVE  LET t == SyncEntryFacesLocked(s, e)
         IN  KeepsFaces(s, t, Address) /\ t.topology = s.topology
<1> DEFINE Sy(x) == IF SlotFor(s, x).Device = Nil THEN Attached(SlotFor(s, x), e)
                                                  ELSE SlotFor(s, x)
           t == SyncEntryFacesLocked(s, e)
<1>1. /\ t.topology = s.topology
      /\ \A x \in Address : t.addressTable[x] = IF x \in s.heap[e].addresses THEN Sy(x)
                                                ELSE s.addressTable[x]
  BY DEF SyncEntryFacesLocked, Typed, RegistryState
<1>2. e \in EntryId
  BY DEF Points
<1>3. ASSUME NEW x \in Address
      PROVE  /\ FaceKept(s.addressTable[x], Sy(x))
             /\ FaceKept(s.addressTable[x], s.addressTable[x])
  <2>1. s.addressTable[x] \in MaybeSlot
    BY DEF Typed, RegistryState, MaybeSlot
  <2>2. QED BY <1>2, <2>1, SlotForKept, AttachedKept, FaceKeptReflexive
<1> HIDE DEF t, Sy
<1>4. KeepsFaces(s, t, Address)
  BY <1>1, <1>3 DEF KeepsFaces
<1>5. QED BY <1>1, <1>4 DEF t

\* A face that leaves its group is forgotten, others are not
\* (registry_alias.go:361-385).
LEMMA DetachKeepsOthers ==
  ASSUME NEW s, Typed(s), NEW e, Points(s, e), NEW a \in Address, NEW heir \in Address
  PROVE  LET t == DetachAddressLocked(s, e, a, heir)
         IN  KeepsFaces(s, t, Others(a)) /\ (Symmetric(s) => Symmetric(t))
<1> DEFINE U == [s EXCEPT !.entries[a] = Nil,
                          !.addressTable[a] = IF @ # NoSlot /\ @.Device = e
                                              THEN NoSlot ELSE @]
           V == ForgetTopologyAddressLocked(U, a)
           W == [V EXCEPT !.heap[e] = WithoutAddress(@, a, heir)]
           X == [RemoveIdentityBindingsLocked(W, e) EXCEPT !.order = @ \ {e}]
           Y == SyncEntryFacesLocked(W, e)
<1>1. DetachAddressLocked(s, e, a, heir) =
        CASE a \notin s.heap[e].addresses -> U
          [] s.heap[e].addresses = {a} -> X
          [] OTHER -> Y
  BY DEF DetachAddressLocked
<1>2. /\ Yields(s, U) /\ U.topology = s.topology
      /\ \A x \in Others(a) : U.addressTable[x] = s.addressTable[x]
  BY UnslottedYields DEF Others, Typed, RegistryState
<1> HIDE DEF U
<1>3. KeepsFaces(s, U, Others(a))
  BY <1>2, FaceKeptReflexive DEF KeepsFaces, Others, Typed, RegistryState, MaybeSlot
<1>4. /\ Typed(V) /\ Points(V, e) /\ V.addressTable = U.addressTable
      /\ \A x \in Address : V.topology[x] = IF x = a THEN {} ELSE U.topology[x] \ {a}
  BY <1>2, ForgetTopologyYields DEF Yields, Points, ForgetTopologyAddressLocked, Typed, RegistryState
<1>5. Symmetric(s) => Symmetric(V)
  <2>1. \A x \in Address : s.topology[x] \subseteq Address
    BY DEF Typed, RegistryState
  <2>2. QED BY <1>2, <1>4, <2>1 DEF Symmetric
<1> HIDE DEF V
<1>6. Typed(W) /\ Points(W, e) /\ SameFaces(V, W)
  <2>1. WithoutAddress(V.heap[e], a, heir) \in DeviceEntry /\ e \in EntryId
    BY <1>4, WithoutAddressType DEF Points
  <2>2. W = [V EXCEPT !.heap[e] = WithoutAddress(V.heap[e], a, heir)]
    BY <1>4, <2>1 DEF Typed, RegistryState
  <2>3. Yields(V, W) /\ Points(W, e)
    BY <1>4, <2>1, <2>2, WriteEntryYields
  <2>4. QED BY <1>4, <2>3 DEF SameFaces, Yields, Typed, RegistryState
<1> HIDE DEF W
<1>7. KeepsFaces(s, W, Others(a)) /\ (Symmetric(s) => Symmetric(W))
  BY <1>3, <1>4, <1>5, <1>6 DEF KeepsFaces, SameFaces, Symmetric
<1>8. KeepsFaces(s, X, Others(a)) /\ (Symmetric(s) => Symmetric(X))
  <2>1. SameFaces(W, X)
    BY <1>6
    DEF SameFaces, RemoveIdentityBindingsLocked, RetainCurrentIdentityBindingLocked,
        Typed, RegistryState
  <2> HIDE DEF X
  <2>2. QED BY <1>7, <2>1 DEF SameFaces, KeepsFaces, Symmetric
<1>9. KeepsFaces(s, Y, Others(a)) /\ (Symmetric(s) => Symmetric(Y))
  <2>1. KeepsFaces(W, Y, Address) /\ Y.topology = W.topology /\ Typed(Y)
    BY <1>6, SyncKeepsHistory, SyncYields DEF Yields
  <2> HIDE DEF Y
  <2>2. KeepsFaces(W, Y, Others(a)) /\ Others(a) \in SUBSET Address
    BY <2>1 DEF KeepsFaces, Others
  <2>3. KeepsFaces(s, Y, Others(a))
    BY <1>6, <1>7, <2>1, <2>2, KeepsFacesTransitive
  <2>4. QED BY <1>7, <2>1, <2>3 DEF Symmetric
<1>10. KeepsFaces(s, U, Others(a)) /\ (Symmetric(s) => Symmetric(U))
  BY <1>2, <1>3 DEF Symmetric
<1> HIDE DEF X, Y
<1>11. QED BY <1>1, <1>8, <1>9, <1>10

\* A merged group takes its slots along (registry_registration.go:339-350).
LEMMA MergeRegisteredKeepsHistory ==
  ASSUME NEW s, Typed(s), NEW d, Points(s, d), NEW e, Points(s, e)
  PROVE  LET t == MergeRegisteredAliasesLocked(s, d, e)
         IN  KeepsFaces(s, t, Address) /\ t.topology = s.topology
<1> DEFINE moved == s.heap[e].addresses
           U == AbsorbIdentityLocked(s, d, e)
           At(x) == Attached(SlotFor(s, x), d)
           Ta == [x \in Address |-> IF x \in moved THEN At(x) ELSE U.addressTable[x]]
           V == Regrouped(U, d, e, moved, Ta)
           T == RemoveIdentityBindingsLocked(V, e)
<1>1. MergeRegisteredAliasesLocked(s, d, e) = T
  BY DEF MergeRegisteredAliasesLocked, Regrouped
<1>2. SameFaces(s, U) /\ Typed(U)
  BY AbsorbYields DEF SameFaces, AbsorbIdentityLocked, Yields, Typed, RegistryState
<1> HIDE DEF U
<1>3. V.addressTable = Ta /\ V.topology = U.topology
  BY <1>2 DEF Regrouped, Typed, RegistryState
<1>4. \A x \in Address : Ta[x] = IF x \in moved THEN At(x) ELSE s.addressTable[x]
  BY <1>2 DEF SameFaces
<1> HIDE DEF V, Ta
<1>5. T.addressTable = V.addressTable /\ T.topology = V.topology
  BY DEF RemoveIdentityBindingsLocked, RetainCurrentIdentityBindingLocked
<1> HIDE DEF T
<1>6. \A x \in Address : FaceKept(s.addressTable[x], At(x))
  BY SlotForKept, AttachedKept DEF Typed, RegistryState, MaybeSlot, Points
<1>7. \A x \in Address : FaceKept(s.addressTable[x], s.addressTable[x])
  BY FaceKeptReflexive DEF Typed, RegistryState, MaybeSlot
<1> HIDE DEF At, moved
<1>8. KeepsFaces(s, T, Address)
  BY <1>3, <1>4, <1>5, <1>6, <1>7 DEF KeepsFaces
<1>9. QED BY <1>1, <1>2, <1>3, <1>5, <1>8 DEF SameFaces

\* The address leaves the group it was in, if it joins another one; only its own
\* slot may be lost (registry_registration.go:104-123).
LEMMA LeaveGroupKeepsOthers ==
  ASSUME NEW s, Typed(s), NEW a \in Address, NEW o, NEW i, NEW e, NEW heir \in Address,
         i # Nil => e # Nil, e # Nil => Points(s, e)
  PROVE  LET t == LeaveGroup(s, a, o, i, e, heir)
         IN  /\ KeepsFaces(s, t, Others(a))
             /\ s.entries[a] \in {Nil, e} => t = s
             /\ Symmetric(s) => Symmetric(t)
<1> DEFINE d == s.entries[a]
           D == DetachAddressLocked(s, d, a, heir)
           M == MergeRegisteredAliasesLocked(s, e, d)
           t == LeaveGroup(s, a, o, i, e, heir)
<1>1. t = CASE d \in {Nil, e} -> s
            [] d \notin {Nil, e} /\ i # Nil /\ MergesInto(s, o, e, d) -> M
            [] OTHER -> D
  BY DEF LeaveGroup
<1>2. d # Nil => Points(s, d)
  BY DEF Typed, PointersType
<1>3. CASE d \in {Nil, e}
  <2>1. t = s
    BY <1>1, <1>3
  <2>2. Others(a) \in SUBSET Address
    BY DEF Others
  <2>3. KeepsFaces(s, s, Others(a))
    BY <2>2, SameTableKeepsFaces
  <2>4. QED BY <2>1, <2>3
<1>4. CASE d \notin {Nil, e} /\ i # Nil /\ MergesInto(s, o, e, d)
  <2>1. Points(s, d) /\ Points(s, e)
    BY <1>2, <1>4
  <2> HIDE DEF d
  <2>2. KeepsFaces(s, M, Address) /\ M.topology = s.topology
    BY <2>1, MergeRegisteredKeepsHistory
  <2> HIDE DEF M
  <2>3. t = M
    BY <1>1, <1>4
  <2> HIDE DEF t
  <2>4. KeepsFaces(s, M, Others(a)) /\ (Symmetric(s) => Symmetric(M))
    BY <2>2 DEF KeepsFaces, Others, Symmetric
  <2>5. s.entries[a] \notin {Nil, e}
    BY <1>4 DEF d
  <2>6. QED BY <2>3, <2>4, <2>5 DEF t
<1>5. CASE d \notin {Nil, e} /\ ~ (i # Nil /\ MergesInto(s, o, e, d))
  <2>1. KeepsFaces(s, D, Others(a)) /\ (Symmetric(s) => Symmetric(D))
    BY <1>2, <1>5, DetachKeepsOthers
  <2>2. t = D
    BY <1>1, <1>5
  <2>3. QED BY <1>5, <2>1, <2>2
<1>6. QED BY <1>3, <1>4, <1>5

\* An operation on a may let a's own face start afresh, but only with another
\* entry; it makes no face confirmed.
Arrives(s, t, a) ==
  /\ KeepsFaces(s, t, Others(a))
  /\ t.entries[a] = s.entries[a] => HistoryRetained(s.addressTable[a], t.addressTable[a])
  /\ Symmetric(t)

\* registerLocked (registry_registration.go:66-209).
LEMMA RegisterLockedArrives ==
  ASSUME NEW s, Typed(s), Sound(s), Symmetric(s), NEW a \in Address, NEW o \in Observation,
         NEW fresh \in EntryId \ s.order, NEW heir \in Address
  PROVE  Arrives(s, RegisterLocked(s, a, o, fresh, heir), a)
<1> DEFINE i == ExistingByIdentity(s, o)
           e == SelectEntry(s, a, o, i)
           r == EntryFor(e, fresh)
           U == DropStaleIdentity(s, IncomingKey[o])
           V == LeaveGroup(U, a, o, i, e, heir)
           W == JoinEntry(V, a, e, fresh)
           X == Store(s, W, a, o, r, i \notin {Nil, s.entries[a]})
<1>1. RegisterLocked(s, a, o, fresh, heir) = X
  BY DEF RegisterLocked, RegisterAdmitted, RegisterInto, EntryFor
<1>2. i # Nil => Points(s, i)
  BY ExistingByIdentityType
<1>3. e # Nil => Points(s, e)
  BY <1>2, SelectEntryType
<1>4. i # Nil => e # Nil
  BY SelectedByIdentity
<1>5. Yields(s, U) /\ SameFaces(s, U) /\ U.entries = s.entries
  BY IncomingKeyType, DropStaleYields DEF DropStaleIdentity, SameFaces, Typed, RegistryState
<1> HIDE DEF U, i, e
<1>6. Typed(U) /\ (e # Nil => Points(U, e))
  BY <1>3, <1>5 DEF Yields, Points
<1>7. /\ KeepsFaces(U, V, Others(a))
      /\ U.entries[a] \in {Nil, e} => V = U
      /\ Symmetric(U) => Symmetric(V)
  BY <1>4, <1>6, LeaveGroupKeepsOthers
<1>8. Yields(U, V)
  BY <1>4, <1>6, LeaveGroupYields
<1> HIDE DEF V
<1>9. Typed(V) /\ (e # Nil => Points(V, e)) /\ fresh \in EntryId
  BY <1>6, <1>8 DEF Yields, Points
<1>10. SameFaces(V, W)
  BY <1>9, JoinEntrySameFaces
<1>11. Typed(W) /\ Points(W, r)
  BY <1>9, JoinEntryYields DEF EntryFor, Yields
<1> HIDE DEF W, r
<1> DEFINE keepID == i \notin {Nil, s.entries[a]}
<1> HIDE DEF keepID
<1>12. X = Store(s, W, a, o, r, keepID)
  BY DEF keepID
<1> HIDE DEF X
<1>13. SameFaces(W, X) /\ X.entries[a] = r
  BY <1>11, <1>12, StoreSameFaces, StoreYields
<1>14. X.addressTable = V.addressTable /\ X.topology = V.topology
  BY <1>10, <1>13 DEF SameFaces
<1>15. KeepsFaces(s, X, Others(a))
  BY <1>5, <1>7, <1>14 DEF KeepsFaces, SameFaces
<1>16. Symmetric(X)
  BY <1>5, <1>7, <1>14 DEF Symmetric, SameFaces
<1>17. ASSUME X.entries[a] = s.entries[a]
       PROVE  HistoryRetained(s.addressTable[a], X.addressTable[a])
  <2>1. s.entries[a] \in s.order \/ s.entries[a] = Nil
    BY DEF Sound, Groups
  <2>2. r # fresh /\ r # Nil => r = e
    BY DEF r, EntryFor
  <2>3. U.entries[a] \in {Nil, e}
    BY <1>5, <1>13, <1>17, <2>1, <2>2
  <2>4. X.addressTable[a] = s.addressTable[a] /\ s.addressTable[a] \in MaybeSlot
    BY <1>5, <1>7, <1>14, <2>3 DEF SameFaces, Typed, RegistryState, MaybeSlot
  <2>5. QED BY <2>4, FaceKeptReflexive DEF FaceKept
<1>18. QED BY <1>1, <1>15, <1>16, <1>17 DEF Arrives

-----------------------------------------------------------------------------
\* What an operation tells about the faces

\* What registry t, made of s by an operation on a, says of the faces: no other
\* face is forgotten, a's own only with another entry; and a face other than a's
\* is newly confirmed only next to a confirmed one of a's entry.
Tells(s, t, a) ==
  /\ \A x \in Address : x # a \/ t.entries[x] = s.entries[x]
        => HistoryRetained(s.addressTable[x], t.addressTable[x])
  /\ \A x \in Others(a) :
        SlotConfirmed(t.addressTable[x]) /\ ~ SlotConfirmed(s.addressTable[x]) =>
           \E y \in t.topology[x] : /\ SlotConfirmed(t.addressTable[y])
                                    /\ t.entries[y] = t.entries[x]
                                    /\ t.entries[a] = t.entries[x]
  /\ Symmetric(t)

\* Two writes of one slot (no single line of the code).
LEMMA HistoryTransitive ==
  ASSUME NEW x \in MaybeSlot, NEW y \in MaybeSlot, NEW z \in MaybeSlot,
         HistoryRetained(x, y), HistoryRetained(y, z)
  PROVE  HistoryRetained(x, z)
BY DEF HistoryRetained, MaybeSlot, AddressSlot, VerificationState

\* A confirmed face stays confirmed (registry_scan.go:76-83).
LEMMA ConfirmedStays ==
  ASSUME NEW s, Typed(s), NEW t, Typed(t), NEW x \in Address,
         HistoryRetained(s.addressTable[x], t.addressTable[x]), SlotConfirmed(s.addressTable[x])
  PROVE  SlotConfirmed(t.addressTable[x])
<1>1. s.addressTable[x] \in MaybeSlot /\ t.addressTable[x] \in MaybeSlot
  BY DEF Typed, RegistryState, MaybeSlot
<1>2. QED
  BY <1>1 DEF SlotConfirmed, HistoryRetained, MaybeSlot, AddressSlot, VerificationState,
              IdentityConfirmed

\* An operation that confirms no other face (registry_scan.go:98,
\* registry_registration.go:225, 303).
LEMMA ArrivesTells ==
  ASSUME NEW s, NEW t, NEW a \in Address, Arrives(s, t, a)
  PROVE  Tells(s, t, a)
BY DEF Arrives, Tells, KeepsFaces, FaceKept, Others

\* The slot of a is written for the entry a is in (registry_scan.go:115-137).
LEMMA WrittenArrives ==
  ASSUME NEW s, NEW t, Typed(s), Typed(t), NEW a \in Address, Arrives(s, t, a),
         NEW slot \in AddressSlot, HistoryRetained(t.addressTable[a], slot)
  PROVE  Arrives(s, SetSlot(t, a, slot), a)
<1> DEFINE u == SetSlot(t, a, slot)
<1>1. /\ u.addressTable[a] = slot /\ u.entries = t.entries /\ u.topology = t.topology
      /\ \A x \in Others(a) : u.addressTable[x] = t.addressTable[x]
  BY DEF SetSlot, Others, Typed, RegistryState
<1> HIDE DEF u
<1>2. /\ s.addressTable[a] \in MaybeSlot /\ t.addressTable[a] \in MaybeSlot
      /\ slot \in MaybeSlot
  BY DEF Typed, RegistryState, MaybeSlot
<1>3. u.entries[a] = s.entries[a] => HistoryRetained(s.addressTable[a], slot)
  BY <1>1, <1>2, HistoryTransitive DEF Arrives
<1>4. KeepsFaces(s, u, Others(a)) /\ Symmetric(u)
  BY <1>1 DEF Arrives, KeepsFaces, Symmetric
<1>5. QED BY <1>1, <1>3, <1>4 DEF Arrives, u

\* Registration first, confirmation after (registry_registration.go:14-24).
LEMMA ArrivesThenTells ==
  ASSUME NEW s, NEW t, NEW u, Typed(s), Typed(t), Typed(u), NEW a \in Address,
         Arrives(s, t, a), Tells(t, u, a), u.entries = t.entries
  PROVE  Tells(s, u, a)
<1>1. ASSUME NEW x \in Address, x # a \/ u.entries[x] = s.entries[x]
      PROVE  HistoryRetained(s.addressTable[x], u.addressTable[x])
  <2>1. HistoryRetained(s.addressTable[x], t.addressTable[x])
    BY <1>1 DEF Arrives, KeepsFaces, FaceKept, Others
  <2>2. HistoryRetained(t.addressTable[x], u.addressTable[x])
    BY DEF Tells
  <2>3. /\ s.addressTable[x] \in MaybeSlot
        /\ t.addressTable[x] \in MaybeSlot
        /\ u.addressTable[x] \in MaybeSlot
    BY DEF Typed, RegistryState, MaybeSlot
  <2>4. QED BY <2>1, <2>2, <2>3, HistoryTransitive
<1>2. ASSUME NEW x \in Others(a), SlotConfirmed(u.addressTable[x]),
             ~ SlotConfirmed(s.addressTable[x])
      PROVE  ~ SlotConfirmed(t.addressTable[x])
  BY <1>2 DEF Arrives, KeepsFaces, FaceKept
<1>3. QED BY <1>1, <1>2 DEF Tells

\* The cached faces are refreshed last (registry_registration.go:21, 40).
LEMMA TellsThenKeeps ==
  ASSUME NEW s, NEW t, NEW u, Typed(s), Typed(t), Typed(u), NEW a \in Address,
         Tells(s, t, a), KeepsFaces(t, u, Address),
         u.entries = t.entries, u.topology = t.topology
  PROVE  Tells(s, u, a)
<1>1. ASSUME NEW x \in Address
      PROVE  /\ s.addressTable[x] \in MaybeSlot
             /\ t.addressTable[x] \in MaybeSlot
             /\ u.addressTable[x] \in MaybeSlot
             /\ FaceKept(t.addressTable[x], u.addressTable[x])
  BY DEF KeepsFaces, Typed, RegistryState, MaybeSlot
<1>2. ASSUME NEW x \in Address, x # a \/ u.entries[x] = s.entries[x]
      PROVE  HistoryRetained(s.addressTable[x], u.addressTable[x])
  BY <1>1, <1>2, HistoryTransitive DEF Tells, FaceKept
<1>3. ASSUME NEW x \in Address
      PROVE  SlotConfirmed(t.addressTable[x]) <=> SlotConfirmed(u.addressTable[x])
  <2>1. SlotConfirmed(t.addressTable[x]) => SlotConfirmed(u.addressTable[x])
    BY <1>1
    DEF FaceKept, HistoryRetained, SlotConfirmed, MaybeSlot, AddressSlot, VerificationState,
        IdentityConfirmed
  <2>2. QED BY <1>1, <2>1 DEF FaceKept
<1>4. \A x \in Address : u.topology[x] \subseteq Address
  BY DEF Typed, RegistryState
<1>5. ASSUME NEW x \in Others(a), SlotConfirmed(u.addressTable[x]),
             ~ SlotConfirmed(s.addressTable[x])
      PROVE  \E y \in u.topology[x] : /\ SlotConfirmed(u.addressTable[y])
                                      /\ u.entries[y] = u.entries[x]
                                      /\ u.entries[a] = u.entries[x]
  <2>1. x \in Address
    BY DEF Others
  <2>2. PICK y \in t.topology[x] : /\ SlotConfirmed(t.addressTable[y])
                                   /\ t.entries[y] = t.entries[x]
                                   /\ t.entries[a] = t.entries[x]
    BY <1>3, <1>5, <2>1 DEF Tells
  <2>3. y \in u.topology[x] /\ y \in Address
    BY <1>4, <2>1, <2>2
  <2>4. QED BY <1>3, <2>2, <2>3
<1>6. Symmetric(u)
  BY DEF Tells, Symmetric
<1>7. QED BY <1>2, <1>5, <1>6 DEF Tells

\* The walk along topology reaches a face over an edge from one it reached
\* (registry_registration.go:242-268).
LEMMA JoinedHasNeighbour ==
  ASSUME NEW s, Typed(s), Symmetric(s), NEW a \in Address, NEW e,
         NEW x \in Joined(s, a, e), x # a
  PROVE  \E y \in s.topology[x] : y \in Joined(s, a, e)
<1> SUFFICES ASSUME \A y \in s.topology[x] : y \notin Joined(s, a, e)
             PROVE  FALSE
  OBVIOUS
<1> DEFINE S0 == {z \in Address : \A S \in SUBSET Address :
                                     (a \in S /\ TopologyClosed(s, e, S)) => z \in S}
           R == S0 \ {x}
<1>1. Joined(s, a, e) = {z \in S0 : s.entries[z] = e}
  BY DEF Joined
<1>2. a \in S0
  OBVIOUS
<1>3. ASSUME NEW z \in S0, s.entries[z] = e, NEW y \in s.topology[z], s.entries[y] = e
      PROVE  y \in S0
  <2>1. y \in Address
    BY DEF Typed, RegistryState
  <2>2. ASSUME NEW S \in SUBSET Address, a \in S, TopologyClosed(s, e, S)
        PROVE  y \in S
    BY <1>3, <2>2 DEF TopologyClosed
  <2>3. QED BY <2>1, <2>2
<1>4. x \in S0 /\ \A z \in S0 : z \in Address
  BY <1>1
<1>5. x \in R \/ ~ (a \in R /\ TopologyClosed(s, e, R))
  BY <1>4
<1> HIDE DEF S0
<1>6. TopologyClosed(s, e, R)
  <2> SUFFICES ASSUME NEW z \in R, s.entries[z] = e, NEW y \in s.topology[z], s.entries[y] = e
               PROVE  y # x
    BY <1>3 DEF TopologyClosed
  <2>1. y = x => z \in s.topology[x]
    BY <1>4 DEF Symmetric
  <2>2. QED BY <1>1, <2>1
<1>7. QED BY <1>2, <1>5, <1>6

\* a is confirmed, and so are its neighbours in its own entry.
Reaches(s, t, a) ==
  /\ SlotConfirmed(t.addressTable[a])
  /\ \A y \in s.topology[a] : s.entries[y] = s.entries[a] => SlotConfirmed(t.addressTable[y])

\* confirmTopologyIdentitySlotsLocked (registry_registration.go:242-268).
LEMMA ConfirmTopologyTells ==
  ASSUME NEW s, Typed(s), Symmetric(s), NEW a \in Address, NEW e, s.entries[a] = e,
         SlotConfirmed(s.addressTable[a])
  PROVE  LET t == ConfirmTopologyIdentitySlotsLocked(s, a, e)
         IN  /\ Tells(s, t, a) /\ t.entries = s.entries
             /\ Reaches(s, t, a)
<1> DEFINE J == Joined(s, a, e)
           Co(x) == [SlotFor(s, x) EXCEPT !.VerificationState = AtLeast(@, IdentityConfirmed)]
           t == ConfirmTopologyIdentitySlotsLocked(s, a, e)
<1>1. /\ t.topology = s.topology /\ t.entries = s.entries
      /\ \A x \in Address : t.addressTable[x] = IF x \in J THEN Co(x) ELSE s.addressTable[x]
  BY DEF ConfirmTopologyIdentitySlotsLocked, Typed, RegistryState
<1>2. ASSUME NEW x \in Address
      PROVE  HistoryRetained(s.addressTable[x], Co(x)) /\ SlotConfirmed(Co(x))
  <2> DEFINE slot == SlotFor(s, x)
  <2>1. slot \in AddressSlot /\ HistoryRetained(s.addressTable[x], slot)
    BY SlotForKept DEF FaceKept
  <2> HIDE DEF slot
  <2>2. /\ Co(x) \in AddressSlot
        /\ Co(x).VerificationState = IdentityConfirmed
        /\ Co(x).Role = slot.Role
        /\ Co(x).DiscoverySource = slot.DiscoverySource
        /\ slot.VerificationState \in 0 .. 3
    BY <2>1 DEF AddressSlot, VerificationState, IdentityConfirmed, AtLeast, slot
  <2>3. SlotConfirmed(Co(x))
    BY <2>2, NullAssumption DEF SlotConfirmed
  <2> HIDE DEF Co
  <2>4. HistoryRetained(slot, Co(x))
    BY <2>1, <2>2, NullAssumption DEF HistoryRetained, IdentityConfirmed
  <2>5. s.addressTable[x] \in MaybeSlot
    BY DEF Typed, RegistryState, MaybeSlot
  <2>6. QED BY <2>1, <2>2, <2>3, <2>4, <2>5, HistoryTransitive DEF MaybeSlot
<1> HIDE DEF t, Co, J
<1>3. ASSUME NEW x \in Address
      PROVE  HistoryRetained(s.addressTable[x], t.addressTable[x])
  <2>1. HistoryRetained(s.addressTable[x], s.addressTable[x])
    BY FaceKeptReflexive DEF Typed, RegistryState, MaybeSlot, FaceKept
  <2>2. QED BY <1>1, <1>2, <2>1
<1>4. ASSUME NEW x \in Others(a), SlotConfirmed(t.addressTable[x]),
             ~ SlotConfirmed(s.addressTable[x])
      PROVE  \E y \in t.topology[x] : /\ SlotConfirmed(t.addressTable[y])
                                      /\ t.entries[y] = t.entries[x]
                                      /\ t.entries[a] = t.entries[x]
  <2>1. x \in J /\ x # a
    BY <1>1, <1>4 DEF Others
  <2>2. PICK y \in s.topology[x] : y \in J
    BY <2>1, JoinedHasNeighbour DEF J
  <2>3. y \in Address /\ s.entries[y] = e /\ s.entries[x] = e
    BY <2>1, <2>2 DEF J, Joined
  <2>4. SlotConfirmed(t.addressTable[y])
    BY <1>1, <1>2, <2>2, <2>3
  <2>5. QED BY <1>1, <2>2, <2>3, <2>4
<1>5. Symmetric(t)
  BY <1>1 DEF Symmetric
<1>6. a \in J /\ \A y \in s.topology[a] : s.entries[y] = e => y \in J
  <2>1. \A S \in SUBSET Address : a \in S /\ TopologyClosed(s, e, S) =>
           \A y \in s.topology[a] : s.entries[y] = e => y \in S
    BY DEF TopologyClosed
  <2>2. s.topology[a] \subseteq Address
    BY DEF Typed, RegistryState
  <2>3. QED BY <2>1, <2>2 DEF Joined, J
<1>7. Reaches(s, t, a)
  <2>1. J \subseteq Address
    BY DEF Joined, J
  <2>2. QED BY <1>1, <1>2, <1>6, <2>1 DEF Reaches
<1>8. QED BY <1>1, <1>3, <1>4, <1>5, <1>7 DEF Tells, t

\* syncEntryFacesLocked ends an operation (registry_scan.go:139-157).
LEMMA SyncTells ==
  ASSUME NEW s, NEW t, Typed(s), Typed(t), NEW a \in Address, Tells(s, t, a),
         NEW e, Points(t, e)
  PROVE  Tells(s, SyncEntryFacesLocked(t, e), a) /\ Typed(SyncEntryFacesLocked(t, e))
<1> DEFINE u == SyncEntryFacesLocked(t, e)
<1>1. u.entries = t.entries
  BY DEF SyncEntryFacesLocked, Typed, RegistryState
<1>2. KeepsFaces(t, u, Address) /\ u.topology = t.topology /\ Typed(u)
  BY SyncKeepsHistory, SyncYields DEF Yields
<1> HIDE DEF u
<1>3. Tells(s, u, a)
  BY <1>1, <1>2, TellsThenKeeps
<1>4. QED BY <1>2, <1>3 DEF u

\* The end of an operation writes no slot (registry.go:76-91).
LEMMA EndingsKeepFaces ==
  ASSUME NEW s, Typed(s)
  PROVE  /\ SameFaces(s, Advance(s)) /\ Advance(s).entries = s.entries
         /\ LET t == ReconcileQualifiedIdentityWitnessesLocked(Advance(s))
            IN  /\ SameFaces(s, t) /\ t.entries = s.entries
                /\ \A a, o, e :
                      LET u == RecordDirectQualifiedIdentityWitnessLocked(t, a, o, e)
                      IN  SameFaces(s, u) /\ u.entries = s.entries
<1> DEFINE U == Advance(s)
           t == ReconcileQualifiedIdentityWitnessesLocked(U)
<1>1. SameFaces(s, U) /\ U.entries = s.entries /\ DOMAIN U = DOMAIN s
  BY DEF Advance, SameFaces, Typed, RegistryState
<1> HIDE DEF U
<1>2. SameFaces(s, t) /\ t.entries = s.entries
  BY <1>1 DEF ReconcileQualifiedIdentityWitnessesLocked, SameFaces
<1> HIDE DEF t
<1>3. ASSUME NEW a, NEW o, NEW e
      PROVE  LET u == RecordDirectQualifiedIdentityWitnessLocked(t, a, o, e)
             IN  SameFaces(s, u) /\ u.entries = s.entries
  BY <1>2 DEF RecordDirectQualifiedIdentityWitnessLocked, SameFaces
<1>4. QED BY <1>1, <1>2, <1>3 DEF U, t

\* What was told before the end still holds (no single line of the code).
LEMMA EndingTells ==
  ASSUME NEW s, NEW t, NEW a \in Address, Tells(s, t, a), NEW u,
         SameFaces(t, u), u.entries = t.entries
  PROVE  Tells(s, u, a)
BY DEF Tells, SameFaces, Symmetric

\* The slot of a live address, or the stamped one, is attached to its entry.
\* Its history is kept, whatever the stamp (registry_scan.go:115-137).
LEMMA AttachArrives ==
  ASSUME NEW s, NEW t, Typed(s), Typed(t), NEW a \in Address, Arrives(s, t, a),
         NEW e, Points(t, e), NEW source \in DiscoverySource,
         NEW floor \in VerificationState, NEW role \in SlotRole
  PROVE  LET slot == Attached(Stamp(SlotFor(t, a), source, floor, role), e)
             u == SetSlot(t, a, slot)
         IN  /\ Arrives(s, u, a) /\ Typed(u) /\ Points(u, e)
             /\ u.entries = t.entries /\ u.addressTable[a] = slot
             /\ floor = IdentityConfirmed => SlotConfirmed(slot)
<1> DEFINE stamped == Stamp(SlotFor(t, a), source, floor, role)
           slot == Attached(stamped, e)
           u == SetSlot(t, a, slot)
<1>1. SlotFor(t, a) \in AddressSlot /\ HistoryRetained(t.addressTable[a], SlotFor(t, a))
  BY SlotForKept DEF FaceKept
<1>2. /\ stamped \in AddressSlot
      /\ HistoryRetained(SlotFor(t, a), stamped)
      /\ floor = IdentityConfirmed => SlotConfirmed(stamped)
  BY <1>1, StampKept
<1>3. t.addressTable[a] \in MaybeSlot
  BY DEF Typed, RegistryState, MaybeSlot
<1>4. HistoryRetained(t.addressTable[a], stamped)
  BY <1>1, <1>2, <1>3, HistoryTransitive DEF MaybeSlot
<1> HIDE DEF stamped
<1>5. /\ slot \in AddressSlot /\ slot.Device = e
      /\ slot.VerificationState = stamped.VerificationState
      /\ slot.Role = stamped.Role /\ slot.DiscoverySource = stamped.DiscoverySource
  BY <1>2 DEF Attached, AddressSlot, Points
<1> HIDE DEF slot
<1>6. slot # NoSlot /\ stamped # NoSlot
  BY <1>2, <1>5, NullAssumption
<1>7. HistoryRetained(t.addressTable[a], slot)
  BY <1>4, <1>5, <1>6 DEF HistoryRetained
<1>8. floor = IdentityConfirmed => SlotConfirmed(slot)
  BY <1>2, <1>5, <1>6 DEF SlotConfirmed
<1>9. Arrives(s, u, a)
  BY <1>5, <1>7, WrittenArrives
<1>10. Typed(u) /\ Points(u, e)
  BY <1>5, SetSlotYields DEF Yields, Points
<1>11. u.entries = t.entries /\ u.addressTable[a] = slot
  BY DEF SetSlot, Typed, RegistryState
<1> HIDE DEF u
<1>12. QED BY <1>8, <1>9, <1>10, <1>11 DEF u, slot, stamped

\* An identity is confirmed for a, and along topology
\* (registry_registration.go:16-20, 36-39).
LEMMA ConfirmFromTells ==
  ASSUME NEW s, NEW t, Typed(s), Typed(t), NEW a \in Address, Arrives(s, t, a),
         NEW e, Points(t, e), t.entries[a] = e
  PROVE  LET u == ConfirmFrom(t, a, e)
         IN  /\ Tells(s, u, a) /\ Typed(u) /\ Points(u, e)
             /\ u.entries = t.entries /\ Reaches(t, u, a)
<1> DEFINE slot == Attached(Stamp(SlotFor(t, a), "ActiveConfirmed", IdentityConfirmed,
                                  "Unknown"), e)
           U == SetSlot(t, a, slot)
           V == ConfirmTopologyIdentitySlotsLocked(U, a, e)
<1>1. ConfirmFrom(t, a, e) = V
  BY DEF ConfirmFrom, ObserveAddressSlotLocked
<1>2. /\ Arrives(s, U, a) /\ Typed(U) /\ Points(U, e)
      /\ U.entries = t.entries /\ U.addressTable[a] = slot
      /\ SlotConfirmed(slot)
  BY AttachArrives, StampConstants DEF DiscoverySource, SlotRole
<1>3. U.topology = t.topology
  BY DEF SetSlot, Typed, RegistryState
<1> HIDE DEF U, slot
<1>4. Tells(U, V, a) /\ V.entries = U.entries /\ Reaches(U, V, a)
  BY <1>2, ConfirmTopologyTells DEF Arrives
<1>5. Typed(V) /\ Points(V, e)
  BY <1>2, ConfirmTopologyYields DEF Yields, Points
<1> HIDE DEF V
<1>6. Tells(s, V, a)
  BY <1>2, <1>4, <1>5, ArrivesThenTells
<1>7. V.entries = t.entries /\ Reaches(t, V, a)
  BY <1>2, <1>4, <1>3 DEF Reaches
<1>8. QED BY <1>1, <1>5, <1>6, <1>7

-----------------------------------------------------------------------------
\* The operations

\* An unchanged registry (no single line of the code).
LEMMA ArrivesReflexive ==
  ASSUME NEW s, Typed(s), Symmetric(s), NEW a \in Address
  PROVE  Arrives(s, s, a)
<1>1. KeepsFaces(s, s, Others(a))
  BY SameTableKeepsFaces DEF Others
<1>2. HistoryRetained(s.addressTable[a], s.addressTable[a])
  BY FaceKeptReflexive DEF FaceKept, Typed, RegistryState, MaybeSlot
<1>3. QED BY <1>1, <1>2 DEF Arrives

\* Register (registry_registration.go:10).
LEMMA RegisterTells ==
  ASSUME Typed(registry), Sound(registry), Symmetric(registry),
         NEW a \in Address, NEW o \in Observation, Register(a, o)
  PROVE  Tells(registry, registry', a)
<1>1. PICK fresh \in Allocated(registry), heir \in Heirs(registry, a) :
         registry' = RegisteredActively(RegisterLocked(registry, a, o, fresh, heir), a, o)
  BY DEF Register
<1>2. fresh \in EntryId \ registry.order /\ heir \in Address
  BY AllocatedIsFresh, HeirsType DEF Register
<1> DEFINE U == RegisterLocked(registry, a, o, fresh, heir)
           e == U.entries[a]
           slot == Attached(Stamp(SlotFor(U, a), "ActiveConfirmed", Candidate, "Unknown"), e)
           V == IF IncomingKey[o] # NoKey THEN ConfirmFrom(U, a, e) ELSE SetSlot(U, a, slot)
           T == SyncEntryFacesLocked(V, e)
<1>3. Typed(U) /\ Points(U, e)
  BY <1>2, RegisterLockedYields DEF Yields
<1>4. Arrives(registry, U, a)
  BY <1>2, RegisterLockedArrives
<1>5. registry' = RecordDirectQualifiedIdentityWitnessLocked(
                     ReconcileQualifiedIdentityWitnessesLocked(Advance(T)), a, o, e)
  BY <1>1 DEF RegisteredActively, ActivelyObserved, ObserveAddressSlotLocked
<1> HIDE DEF U
<1>6. Tells(registry, V, a) /\ Typed(V) /\ Points(V, e)
  <2>1. CASE IncomingKey[o] # NoKey
    BY <1>3, <1>4, <2>1, ConfirmFromTells
  <2>2. CASE IncomingKey[o] = NoKey
    <3> DEFINE W == SetSlot(U, a, slot)
    <3>1. Arrives(registry, W, a) /\ Typed(W) /\ Points(W, e)
      BY <1>3, <1>4, AttachArrives, StampConstants DEF DiscoverySource, SlotRole
    <3>2. V = W
      BY <2>2
    <3> HIDE DEF W, V
    <3>3. QED BY <3>1, <3>2, ArrivesTells
  <2>3. QED BY <2>1, <2>2
<1> HIDE DEF V, e
<1>7. Tells(registry, T, a) /\ Typed(T)
  BY <1>6, SyncTells
<1> HIDE DEF T
<1>8. SameFaces(T, registry') /\ registry'.entries = T.entries
  BY <1>5, <1>7, EndingsKeepFaces
<1>9. QED BY <1>7, <1>8, EndingTells

\* RegisterStaticSeed and RegisterPassiveObserved past registerLocked
\* (registry_registration.go:233-239, registry_scan.go:106-112).
LEMMA StampedRegistrationTells ==
  ASSUME NEW s, Typed(s), Sound(s), Symmetric(s), NEW a \in Address, NEW o \in Observation,
         EntryId # s.order, NEW fresh \in Allocated(s), NEW heir \in Heirs(s, a), heir \in Address,
         NEW source \in DiscoverySource, NEW floor \in VerificationState, NEW role \in SlotRole
  PROVE  LET u == RegisterLocked(s, a, o, fresh, heir)
         IN  Tells(s, StampedRegistration(u, a, u.entries[a],
                                          Stamp(SlotFor(u, a), source, floor, role)), a)
<1> DEFINE U == RegisterLocked(s, a, o, fresh, heir)
           e == U.entries[a]
           slot == Attached(Stamp(SlotFor(U, a), source, floor, role), e)
           V == SetSlot(U, a, slot)
           T == SyncEntryFacesLocked(V, e)
           W == ReconcileQualifiedIdentityWitnessesLocked(Advance(T))
<1>1. fresh \in EntryId \ s.order
  BY AllocatedIsFresh
<1>2. Typed(U) /\ Points(U, e)
  BY <1>1, RegisterLockedYields DEF Yields
<1>3. Arrives(s, U, a)
  BY <1>1, RegisterLockedArrives
<1>4. StampedRegistration(U, a, e, Stamp(SlotFor(U, a), source, floor, role)) = W
  BY DEF StampedRegistration
<1> HIDE DEF U
<1>5. Arrives(s, V, a) /\ Typed(V) /\ Points(V, e)
  BY <1>2, <1>3, AttachArrives
<1> HIDE DEF V, e
<1>6. Tells(s, V, a)
  BY <1>5, ArrivesTells
<1>7. Tells(s, T, a) /\ Typed(T)
  BY <1>5, <1>6, SyncTells
<1> HIDE DEF T
<1>8. SameFaces(T, W) /\ W.entries = T.entries
  BY <1>7, EndingsKeepFaces
<1> HIDE DEF W
<1>9. Tells(s, W, a)
  BY <1>7, <1>8, EndingTells
<1>10. QED BY <1>4, <1>9 DEF U, e

\* RegisterStaticSeed (registry_registration.go:225).
LEMMA RegisterStaticSeedTells ==
  ASSUME Typed(registry), Sound(registry), Symmetric(registry), NEW a \in Address,
         NEW o \in Observation, NEW role \in ObservedRole, RegisterStaticSeed(a, o, role)
  PROVE  Tells(registry, registry', a)
<1>1. PICK fresh \in Allocated(registry), heir \in Heirs(registry, a) :
         registry' = RegisteredAsSeed(RegisterLocked(registry, a, o, fresh, heir), a, role)
  BY DEF RegisterStaticSeed
<1>2. heir \in Address /\ role \in SlotRole /\ EntryId # registry.order
  BY HeirsType, ObservationAssumption DEF RegisterStaticSeed
<1>3. QED
  BY <1>1, <1>2, StampedRegistrationTells, StampConstants
  DEF RegisteredAsSeed, MarkSlotStaticSeedLocked

\* RegisterPassiveObserved (registry_scan.go:98).
LEMMA RegisterPassiveObservedTells ==
  ASSUME Typed(registry), Sound(registry), Symmetric(registry), NEW a \in Address,
         NEW o \in Observation, NEW role \in ObservedRole, RegisterPassiveObserved(a, o, role)
  PROVE  Tells(registry, registry', a)
<1>1. PICK fresh \in Allocated(registry), heir \in Heirs(registry, a) :
         registry' = RegisteredPassively(RegisterLocked(registry, a, o, fresh, heir), a, role)
  BY DEF RegisterPassiveObserved
<1>2. heir \in Address /\ role \in SlotRole /\ EntryId # registry.order
  BY HeirsType, ObservationAssumption DEF RegisterPassiveObserved
<1>3. QED
  BY <1>1, <1>2, StampedRegistrationTells, StampConstants
  DEF RegisteredPassively, MarkSlotPassiveObservedLocked

\* confirmScanIdentity (registry_registration.go:28).
LEMMA ConfirmScanIdentityTells ==
  ASSUME Typed(registry), Symmetric(registry), NEW a \in Address, ConfirmScanIdentity(a)
  PROVE  /\ Tells(registry, registry', a)
         /\ registry'.entries = registry.entries /\ Reaches(registry, registry', a)
<1> DEFINE e == registry.entries[a]
           V == ConfirmFrom(registry, a, e)
           T == SyncEntryFacesLocked(V, e)
<1>1. Points(registry, e) /\ registry' = Advance(T)
  BY DEF ConfirmScanIdentity, Typed, PointersType
<1>2. /\ Tells(registry, V, a) /\ Typed(V) /\ Points(V, e)
      /\ V.entries = registry.entries /\ Reaches(registry, V, a)
  BY <1>1, ArrivesReflexive, ConfirmFromTells
<1> HIDE DEF V, e
<1>3. Tells(registry, T, a) /\ Typed(T)
  BY <1>2, SyncTells
<1>4. KeepsFaces(V, T, Address) /\ T.entries = V.entries
  <2>1. T.entries = V.entries
    BY <1>2 DEF SyncEntryFacesLocked, Typed, RegistryState
  <2>2. KeepsFaces(V, T, Address)
    BY <1>2, SyncKeepsHistory
  <2>3. QED BY <2>1, <2>2
<1> HIDE DEF T
<1>5. SameFaces(T, registry') /\ registry'.entries = T.entries
  BY <1>1, <1>3, EndingsKeepFaces
<1>6. Tells(registry, registry', a)
  BY <1>3, <1>5, EndingTells
<1>7. ASSUME NEW x \in Address, SlotConfirmed(V.addressTable[x])
      PROVE  SlotConfirmed(registry'.addressTable[x])
  BY <1>2, <1>3, <1>4, <1>5, <1>7, ConfirmedStays DEF KeepsFaces, FaceKept, SameFaces
<1>8. registry.topology[a] \subseteq Address
  BY DEF Typed, RegistryState
<1>9. QED BY <1>2, <1>4, <1>5, <1>6, <1>7, <1>8 DEF Reaches

\* A slot is marked, and nothing else (registry_scan.go:35-50,
\* registry_registration.go:303-316).
LEMMA MarkingTells ==
  ASSUME NEW s, Typed(s), Symmetric(s), NEW a \in Address, NEW source \in DiscoverySource,
         NEW floor \in VerificationState, NEW role \in SlotRole
  PROVE  Tells(s, Advance(SyncIfAttached(
             SetSlot(s, a, Stamp(SlotFor(s, a), source, floor, role)), a)), a)
<1> DEFINE slot == Stamp(SlotFor(s, a), source, floor, role)
           U == SetSlot(s, a, slot)
           T == SyncIfAttached(U, a)
<1>1. SlotFor(s, a) \in AddressSlot /\ HistoryRetained(s.addressTable[a], SlotFor(s, a))
  BY SlotForKept DEF FaceKept
<1>2. slot \in AddressSlot /\ HistoryRetained(SlotFor(s, a), slot)
  BY <1>1, StampKept
<1>3. s.addressTable[a] \in MaybeSlot
  BY DEF Typed, RegistryState, MaybeSlot
<1>4. HistoryRetained(s.addressTable[a], slot)
  BY <1>1, <1>2, <1>3, HistoryTransitive DEF MaybeSlot
<1>5. slot.Device # Nil => Points(s, slot.Device)
  BY <1>1, SlotForType, StampType
<1> HIDE DEF slot
<1>6. Arrives(s, U, a)
  BY <1>2, <1>4, ArrivesReflexive, WrittenArrives
<1>7. Typed(U) /\ U.addressTable[a] = slot
  BY <1>2, <1>5, SetSlotYields DEF Yields, SetSlot, Typed, RegistryState
<1> HIDE DEF U
<1>8. Tells(s, U, a)
  BY <1>6, ArrivesTells
<1>9. Tells(s, T, a) /\ Typed(T)
  <2>1. CASE slot.Device = Nil
    BY <1>7, <1>8, <2>1 DEF SyncIfAttached
  <2>2. CASE slot.Device # Nil
    <3>1. Points(U, slot.Device)
      BY <1>2, <1>7, <2>2, NullAssumption DEF Typed, PointersType
    <3>2. T = SyncEntryFacesLocked(U, slot.Device)
      BY <1>7, <2>2 DEF SyncIfAttached
    <3>3. QED BY <1>7, <1>8, <3>1, <3>2, SyncTells
  <2>3. QED BY <2>1, <2>2
<1> HIDE DEF T
<1>10. Tells(s, Advance(T), a)
  BY <1>9, EndingsKeepFaces, EndingTells
<1>11. QED BY <1>10 DEF T, U, slot

\* MarkSlotStaticSeed (registry_registration.go:303).
LEMMA MarkSlotStaticSeedTells ==
  ASSUME Typed(registry), Symmetric(registry), NEW a \in Address, NEW role \in ObservedRole,
         MarkSlotStaticSeed(a, role)
  PROVE  Tells(registry, registry', a)
<1>1. role \in SlotRole
  BY ObservationAssumption
<1>2. QED
  BY <1>1, MarkingTells, StampConstants DEF MarkSlotStaticSeed, MarkSlotStaticSeedLocked

\* MarkSlotPassiveObserved up to its callers (registry_scan.go:35-50).
LEMMA PassiveMarkTells ==
  ASSUME NEW s, Typed(s), Symmetric(s), NEW a \in Address, NEW role \in SlotRole
  PROVE  Tells(s, Advance(PassivelyMarked(s, a, role)), a)
BY MarkingTells, StampConstants DEF PassivelyMarked, MarkSlotPassiveObservedLocked

\* MarkSlotPassiveObserved (registry_scan.go:35).
LEMMA MarkSlotPassiveObservedTells ==
  ASSUME Typed(registry), Symmetric(registry), NEW a \in Address, NEW role \in ObservedRole,
         MarkSlotPassiveObserved(a, role)
  PROVE  Tells(registry, registry', a)
BY PassiveMarkTells, ObservationAssumption DEF MarkSlotPassiveObserved

\* AdmitPassiveCompanion is about the companion (admit_passive_companion.go:18).
LEMMA AdmitPassiveCompanionTells ==
  ASSUME Typed(registry), Symmetric(registry), NEW source \in Address,
         AdmitPassiveCompanion(source)
  PROVE  \E a \in Address : Tells(registry, registry', a)
<1>1. CompanionOf[source] \in Address
  BY AddressAssumption DEF AdmitPassiveCompanion
<1>2. QED BY <1>1, PassiveMarkTells, StampConstants DEF AdmitPassiveCompanion

\* No face is forgotten or newly confirmed, no edge is lost or made.
Conserves(s, t) == KeepsFaces(s, t, Address) /\ t.topology = s.topology

\* Such helpers are called one after the other (no single line of the code).
LEMMA ConservesTransitive ==
  ASSUME NEW s, NEW t, NEW u, Typed(s), Typed(t), Typed(u), Conserves(s, t), Conserves(t, u)
  PROVE  Conserves(s, u)
BY KeepsFacesTransitive DEF Conserves

\* A helper that touches no slot and no edge (registry_alias.go:18-86).
LEMMA SameFacesConserves ==
  ASSUME NEW s, Typed(s), NEW t, SameFaces(s, t)
  PROVE  Conserves(s, t)
BY SameTableKeepsFaces DEF SameFaces, Conserves

\* mergeRemovedAliasEntryLocked (registry_alias.go:238-263).
LEMMA MergeRemovedSameFaces ==
  ASSUME NEW s, Typed(s), NEW d, Points(s, d), NEW e, Points(s, e)
  PROVE  SameFaces(s, MergeRemovedAliasEntryLocked(s, d, e))
<1> DEFINE U == AbsorbIdentityLocked(s, d, e)
           V == RemoveIdentityBindingsLocked(U, e)
           p == CanonicalPhysicalIdentity(V.heap[d].info)
           k == MergedAuthority(V, d, e, p)
           Ne == [V.heap[d] EXCEPT !.physical = p]
           W == [V EXCEPT !.heap[d] = Ne]
           X == PublishCurrentIdentityBindingLocked(W, d, k)
           T == [X EXCEPT !.order = @ \ {e}]
<1>1. Yields(s, U) /\ SameFaces(s, U)
  BY AbsorbYields DEF AbsorbIdentityLocked, SameFaces, Typed, RegistryState
<1> HIDE DEF U
<1>2. Typed(U) /\ Points(U, d) /\ Points(U, e)
  BY <1>1 DEF Yields, Points
<1>3. Yields(U, V)
  BY <1>2, RemoveYields
<1>4. SameFaces(U, V)
  BY <1>2
  DEF RemoveIdentityBindingsLocked, RetainCurrentIdentityBindingLocked, SameFaces,
      Typed, RegistryState
<1> HIDE DEF V
<1>5. Typed(V) /\ Points(V, d) /\ Points(V, e)
  BY <1>2, <1>3 DEF Yields, Points
<1>6. p \in PhysicalIdentity
  BY <1>5, CanonicalType DEF Points, DeviceEntry
<1>7. k \in IdentityKey \union {NoKey}
  BY <1>5 DEF MergedAuthority, Points, DeviceEntry
<1>8. MergeRemovedAliasEntryLocked(s, d, e) = T
  BY <1>5
  DEF MergeRemovedAliasEntryLocked, RebuildPhysical, WithPhysical, U, V, Typed, RegistryState,
      Points
<1> HIDE DEF p, k
<1>9. Ne \in DeviceEntry /\ d \in EntryId
  BY <1>5, <1>6 DEF Points, DeviceEntry
<1> HIDE DEF Ne
<1>10. Typed(W) /\ Points(W, d)
  BY <1>5, <1>9, WriteEntryYields DEF Yields
<1>11. SameFaces(V, W)
  BY <1>5 DEF SameFaces, Typed, RegistryState
<1> HIDE DEF W
<1>12. SameFaces(W, X) /\ Typed(X)
  BY <1>7, <1>10, PublishSameFaces, PublishYields DEF Yields
<1> HIDE DEF X
<1>13. SameFaces(X, T)
  BY <1>12 DEF SameFaces, Typed, RegistryState
<1>14. QED BY <1>1, <1>4, <1>8, <1>11, <1>12, <1>13 DEF SameFaces

\* The address leaves its former group, which is dropped when it was the last
\* (registry_alias.go:200-217).
LEMMA LeaveSecondaryConserves ==
  ASSUME NEW s, Typed(s), NEW d, Points(s, d), NEW a \in Address, NEW heir \in Address,
         NEW e, e # Nil => Points(s, e)
  PROVE  Conserves(s, LeaveSecondary(s, d, a, e, heir))
<1> DEFINE T == LeaveSecondary(s, d, a, e, heir)
           Ne == WithoutAddress(s.heap[e], a, heir)
           U == [s EXCEPT !.heap[e] = Ne]
<1>1. CASE e \in {Nil, d}
  <2>1. T = s
    BY <1>1 DEF LeaveSecondary
  <2>2. QED BY <2>1, SameFacesConserves DEF SameFaces
<1>2. CASE e \notin {Nil, d}
  <2>1. Points(s, e)
    BY <1>2
  <2>2. Ne \in DeviceEntry /\ e \in EntryId
    BY <2>1, WithoutAddressType DEF Points
  <2>3. T = IF s.heap[e].addresses = {a} THEN MergeRemovedAliasEntryLocked(U, d, e)
                                         ELSE SyncEntryFacesLocked(U, e)
    BY <1>2, <2>1 DEF LeaveSecondary, Points, Typed, RegistryState
  <2> HIDE DEF Ne
  <2>4. Yields(s, U) /\ Points(U, e)
    BY <2>2, WriteEntryYields
  <2>5. SameFaces(s, U)
    BY DEF SameFaces, Typed, RegistryState
  <2> HIDE DEF U
  <2>6. Typed(U) /\ Points(U, d) /\ Conserves(s, U)
    BY <2>4, <2>5, SameFacesConserves DEF Yields, Points
  <2>7. Conserves(U, T) /\ Typed(T)
    <3>1. CASE s.heap[e].addresses = {a}
      <4> DEFINE M == MergeRemovedAliasEntryLocked(U, d, e)
      <4>1. SameFaces(U, M) /\ Typed(M)
        BY <2>4, <2>6, MergeRemovedSameFaces, MergeRemovedYields DEF Yields
      <4>2. T = M
        BY <2>3, <3>1
      <4> HIDE DEF M, T
      <4>3. QED BY <2>6, <4>1, <4>2, SameFacesConserves
    <3>2. CASE s.heap[e].addresses # {a}
      <4>1. T = SyncEntryFacesLocked(U, e)
        BY <2>3, <3>2
      <4> HIDE DEF T
      <4>2. QED BY <2>4, <2>6, <4>1, SyncKeepsHistory, SyncYields DEF Yields, Conserves
    <3>3. QED BY <3>1, <3>2
  <2> HIDE DEF T
  <2>8. Conserves(s, T)
    BY <2>6, <2>7, ConservesTransitive
  <2>9. QED BY <2>8 DEF T
<1>3. QED BY <1>1, <1>2

\* The address joins the group (registry_alias.go:219-228).
LEMMA JoinGroupConserves ==
  ASSUME NEW s, Typed(s), NEW d, Points(s, d), NEW a \in Address,
         s.addressTable[a] # NoSlot
  PROVE  Conserves(s, JoinGroup(s, d, a))
<1> DEFINE slot == Attached(s.addressTable[a], d)
           Ne == [s.heap[d] EXCEPT !.addresses = @ \union {a}]
           U == SetSlot(s, a, slot)
           V == [U EXCEPT !.heap[d] = Ne]
           W == [V EXCEPT !.entries[a] = d]
<1>1. s.addressTable[a] \in AddressSlot
  BY DEF Typed, RegistryState
<1>2. FaceKept(s.addressTable[a], slot) /\ slot \in AddressSlot /\ slot.Device = d
  BY <1>1, FaceKeptReflexive, AttachedKept, AttachedType DEF Points, MaybeSlot
<1>3. JoinGroup(s, d, a) = SyncEntryFacesLocked(W, d)
  BY DEF JoinGroup, SetSlot, Points, Typed, RegistryState
<1> HIDE DEF slot
<1>4. Typed(U) /\ Points(U, d)
  BY <1>2, SetSlotYields DEF Yields, Points
<1>5. Conserves(s, U)
  <2>1. /\ U.topology = s.topology /\ U.addressTable[a] = slot
        /\ \A x \in Address \ {a} : U.addressTable[x] = s.addressTable[x]
    BY DEF SetSlot, Typed, RegistryState
  <2>2. \A x \in Address : FaceKept(s.addressTable[x], s.addressTable[x])
    BY FaceKeptReflexive DEF Typed, RegistryState, MaybeSlot
  <2> HIDE DEF U
  <2>3. QED BY <1>2, <2>1, <2>2 DEF Conserves, KeepsFaces
<1>6. Ne \in DeviceEntry /\ d \in EntryId
  BY DEF Points, DeviceEntry
<1> HIDE DEF U, Ne
<1>7. Typed(V) /\ Points(V, d) /\ SameFaces(U, V)
  BY <1>4, <1>6, WriteEntryYields DEF Yields, SameFaces, Typed, RegistryState
<1> HIDE DEF V
<1>8. Typed(W) /\ Points(W, d)
  <2>1. W \in RegistryState /\ W.heap = V.heap
    BY <1>6, <1>7 DEF Typed, RegistryState
  <2>2. PointersType(W)
    BY <1>7 DEF Typed, RegistryState, PointersType, Points
  <2>3. QED BY <1>7, <2>1, <2>2 DEF Typed, Points
<1>9. SameFaces(V, W)
  BY <1>7 DEF SameFaces, Typed, RegistryState
<1> HIDE DEF W
<1>10. Conserves(U, W)
  BY <1>4, <1>7, <1>9, SameFacesConserves DEF SameFaces
<1> DEFINE T == SyncEntryFacesLocked(W, d)
<1>11. Conserves(W, T) /\ Typed(T)
  BY <1>8, SyncKeepsHistory, SyncYields DEF Yields, Conserves
<1> HIDE DEF T
<1>12. Conserves(s, W)
  BY <1>4, <1>5, <1>8, <1>10, ConservesTransitive
<1>13. Conserves(s, T)
  BY <1>8, <1>11, <1>12, ConservesTransitive
<1>14. QED BY <1>3, <1>13 DEF T

\* An address moves to the canonical group (registry_alias.go:141-168).
LEMMA MoveToGroupConserves ==
  ASSUME NEW s, Typed(s), NEW d, Points(s, d), NEW a \in Address, NEW heir \in Address,
         s.addressTable[a] # NoSlot
  PROVE  Conserves(s, MoveToGroup(s, d, a, heir))
<1> DEFINE e == s.addressTable[a].Device
           U == LeaveSecondary(s, d, a, e, heir)
           V == JoinGroup(U, d, a)
<1>1. e # Nil => Points(s, e)
  BY DEF Typed, PointersType
<1>2. MoveToGroup(s, d, a, heir) = V
  BY DEF MoveToGroup
<1> HIDE DEF e
<1>3. Yields(s, U) /\ U.addressTable[a] # NoSlot /\ Conserves(s, U)
  BY <1>1, LeaveSecondaryYields, LeaveSecondaryKeepsSlot, LeaveSecondaryConserves
<1> HIDE DEF U
<1>4. Typed(U) /\ Points(U, d)
  BY <1>3 DEF Yields, Points
<1>5. Conserves(U, V) /\ Typed(V)
  BY <1>3, <1>4, JoinGroupConserves, JoinGroupYields DEF Yields
<1> HIDE DEF V
<1>6. Conserves(s, V)
  BY <1>3, <1>4, <1>5, ConservesTransitive
<1>7. QED BY <1>2, <1>6

\* The group a and b end up in (registry_alias.go:140-189).
LEMMA GroupedConserves ==
  ASSUME NEW s, Typed(s), NEW a \in Address, NEW b \in Address, NEW heir \in Address,
         s.addressTable[a] # NoSlot, s.addressTable[b] # NoSlot
  PROVE  Conserves(s, Grouped(s, a, b, heir))
<1> DEFINE da == s.addressTable[a].Device
           db == s.addressTable[b].Device
<1>1. (da # Nil => Points(s, da)) /\ (db # Nil => Points(s, db))
  BY DEF Typed, PointersType
<1>2. Grouped(s, a, b, heir) = CASE da # Nil -> MoveToGroup(s, da, b, heir)
                                 [] da = Nil /\ db # Nil -> MoveToGroup(s, db, a, heir)
                                 [] OTHER -> s
  BY DEF Grouped
<1> HIDE DEF da, db
<1>3. CASE da # Nil
  BY <1>1, <1>2, <1>3, MoveToGroupConserves
<1>4. CASE da = Nil /\ db # Nil
  BY <1>1, <1>2, <1>4, MoveToGroupConserves
<1>5. CASE da = Nil /\ db = Nil
  BY <1>2, <1>5, SameFacesConserves DEF SameFaces
<1>6. QED BY <1>3, <1>4, <1>5

\* AliasAddresses records its edge at both ends, and forgets and confirms no
\* face (registry_alias.go:133-193).
LEMMA AliasAddressesTells ==
  ASSUME Typed(registry), Symmetric(registry), NEW a \in Address, NEW b \in Address,
         AliasAddresses(a, b)
  PROVE  Tells(registry, registry', a)
<1>1. PICK heir \in Heirs(registry, b) :
         registry' = ReconcileQualifiedIdentityWitnessesLocked(
                         Advance(Aliased(registry, a, b, heir)))
  BY DEF AliasAddresses
<1>2. heir \in Address
  BY HeirsType
<1> DEFINE U == Ensured(registry, {a, b})
           V == Grouped(U, a, b, heir)
           T == RecordIfJoined(V, a, b)
<1>3. Aliased(registry, a, b, heir) = T
  BY DEF Aliased
<1>4. Typed(U) /\ U.addressTable[a] # NoSlot /\ U.addressTable[b] # NoSlot
  BY EnsuredYields DEF Yields
<1>5. Conserves(registry, U)
  <2>1. /\ U.topology = registry.topology
        /\ \A x \in Address : \/ U.addressTable[x] = registry.addressTable[x]
                              \/ U.addressTable[x] = SlotFor(registry, x)
    BY DEF Ensured, Typed, RegistryState
  <2>2. \A x \in Address : FaceKept(registry.addressTable[x], registry.addressTable[x])
    BY FaceKeptReflexive DEF Typed, RegistryState, MaybeSlot
  <2> HIDE DEF U
  <2>3. \A x \in Address : FaceKept(registry.addressTable[x], U.addressTable[x])
    BY <2>1, <2>2, SlotForKept
  <2>4. QED BY <2>1, <2>3 DEF Conserves, KeepsFaces
<1> HIDE DEF U
<1>6. Conserves(U, V) /\ Typed(V)
  BY <1>2, <1>4, GroupedConserves, GroupedYields DEF Yields
<1> HIDE DEF V
<1>7. Conserves(registry, V)
  BY <1>4, <1>5, <1>6, ConservesTransitive
<1>8. Symmetric(V)
  BY <1>7 DEF Conserves, Symmetric
<1>9. T.addressTable = V.addressTable /\ Symmetric(T)
  <2>1. CASE T = V
    BY <1>8, <2>1
  <2>2. CASE T # V
    <3>1. T = [V EXCEPT !.topology[a] = @ \union {b}, !.topology[b] = @ \union {a}] /\ a # b
      BY <2>2 DEF RecordIfJoined, RecordTopologyAliasLocked
    <3> HIDE DEF T
    <3>2. /\ T.addressTable = V.addressTable
          /\ T.topology[a] = V.topology[a] \union {b}
          /\ T.topology[b] = V.topology[b] \union {a}
          /\ \A x \in Address \ {a, b} : T.topology[x] = V.topology[x]
      BY <1>6, <3>1 DEF Typed, RegistryState
    <3>3. \A x \in Address : V.topology[x] \subseteq Address
      BY <1>6 DEF Typed, RegistryState
    <3>4. Symmetric(T)
      BY <1>8, <3>2, <3>3 DEF Symmetric
    <3>5. QED BY <3>2, <3>4
  <2>3. QED BY <2>1, <2>2
<1>10. Typed(T)
  BY <1>2, <1>3, AliasedYields DEF Yields
<1> HIDE DEF T
<1>11. KeepsFaces(registry, T, Address)
  BY <1>7, <1>9 DEF Conserves, KeepsFaces
<1>12. Tells(registry, T, a)
  BY <1>9, <1>11 DEF Tells, KeepsFaces, FaceKept, Others
<1>13. SameFaces(T, registry') /\ registry'.entries = T.entries
  BY <1>1, <1>3, <1>10, EndingsKeepFaces
<1>14. QED BY <1>12, <1>13, EndingTells

\* RegisterProvider (registry.go:104).
LEMMA RegisterProviderTells ==
  ASSUME Typed(registry), Symmetric(registry), NEW p \in Provider, RegisterProvider(p),
         NEW a \in Address
  PROVE  Tells(registry, registry', a)
<1>1. SameFaces(registry, registry') /\ registry'.entries = registry.entries
  BY DEF RegisterProvider, Advance, SameFaces, Typed, RegistryState
<1>2. Tells(registry, registry, a)
  BY ArrivesReflexive, ArrivesTells
<1>3. QED BY <1>1, <1>2, EndingTells

\* Every operation (the exported methods of DeviceRegistry).
LEMMA EveryOperationTells ==
  ASSUME Typed(registry), Sound(registry), Symmetric(registry), Next
  PROVE  \E a \in Address : Tells(registry, registry', a)
<1>1. ASSUME NEW p \in Provider, RegisterProvider(p)
      PROVE  \E a \in Address : Tells(registry, registry', a)
  BY <1>1, RegisterProviderTells, AddressAssumption
<1>2. QED
  BY <1>1, RegisterTells, RegisterStaticSeedTells, RegisterPassiveObservedTells,
     ConfirmScanIdentityTells, MarkSlotStaticSeedTells, MarkSlotPassiveObservedTells,
     AdmitPassiveCompanionTells, AliasAddressesTells
  DEF Next

-----------------------------------------------------------------------------
\* The theorems

\* The inductive invariant: sound groups, and topology that both ends know.
FaceInv == PartitionInv /\ Symmetric(registry)

\* An empty registry has no topology, and no operation records half an edge
\* (registry_alias.go:265-284).
LEMMA FaceInvHolds == Spec => []FaceInv
<1>1. Init => Symmetric(registry)
  BY DEF Init, Symmetric
<1>2. PartitionInv /\ Symmetric(registry) /\ [Next]_registry => Symmetric(registry)'
  <2>1. PartitionInv /\ Symmetric(registry) /\ Next => Symmetric(registry')
    BY EveryOperationTells DEF PartitionInv, IdentityInv, Tells
  <2>2. QED BY <2>1 DEF Symmetric
<1>3. QED BY <1>1, <1>2, PartitionInvHolds, PTL DEF Spec, FaceInv

\* A face that is known stays known with its role, its source and its
\* confidence, but for the one face an operation moves to another entry
\* (registry_scan.go:54-96, registry_alias.go:361-385).
THEOREM FacesAreNotForgotten == Spec => FaceHistoryIsRetained
<1>1. FaceInv /\ [Next]_registry =>
        [\E subject \in Address : \A a \in Address :
            a # subject \/ registry'.entries[a] = registry.entries[a]
                => HistoryRetained(Slot(a), registry'.addressTable[a])]_registry
  BY EveryOperationTells DEF FaceInv, PartitionInv, IdentityInv, Tells, Slot
<1>2. QED BY <1>1, FaceInvHolds, PTL DEF Spec, FaceHistoryIsRetained

\* A face other than the observed one is confirmed only over an explicit
\* relation to a confirmed face of the same entry: sharing an identity is not
\* enough (registry_registration.go:242-268).
THEOREM ConfirmationNeedsTopology == Spec => ConfirmationFollowsTopology
<1>1. FaceInv /\ [Next]_registry =>
        [\E subject \in Address : \A x \in Address \ {subject} :
          Confirmed(registry', x) /\ ~ Confirmed(registry, x) =>
              \E y \in registry'.topology[x] :
                  /\ Confirmed(registry', y)
                  /\ registry'.entries[y] = registry'.entries[x]
                  /\ registry'.entries[subject] = registry'.entries[x]]_registry
  BY EveryOperationTells
  DEF FaceInv, PartitionInv, IdentityInv, Tells, Confirmed, SlotConfirmed, Others
<1>2. QED BY <1>1, FaceInvHolds, PTL DEF Spec, ConfirmationFollowsTopology

-----------------------------------------------------------------------------
\* The address an entry is shown by

\* t shows the entry e by the address s does.
Shows(s, t, e) == t.heap[e].primaryAddress = s.heap[e].primaryAddress

\* No step of these changes a primary address (registry_alias.go:23-86, 203-220).
LEMMA SteadyShows ==
  ASSUME NEW s, NEW t, Steady(s, t), NEW e, Points(s, e)
  PROVE  Shows(s, t, e)
BY DEF Steady, Points, Shows

\* An entry is written (any helper that writes through a *deviceEntry).
LEMMA WriteShows ==
  ASSUME NEW s, Typed(s), NEW d \in EntryId, NEW entry, NEW e, Points(s, e),
         e = d => entry.primaryAddress = s.heap[e].primaryAddress
  PROVE  Shows(s, [s EXCEPT !.heap[d] = entry], e)
BY DEF Shows, Points, Typed, RegistryState

\* syncEntryFacesLocked writes the faces (registry_scan.go:139).
LEMMA SyncShows ==
  ASSUME NEW s, Typed(s), NEW d, Points(s, d), NEW e, Points(s, e)
  PROVE  Shows(s, SyncEntryFacesLocked(s, d), e)
BY DEF SyncEntryFacesLocked, Shows, Typed, RegistryState, Points, DeviceEntry

\* An entry that loses an address it is not shown by (registry_alias.go:378-387).
LEMMA WithoutShows ==
  ASSUME NEW entry \in DeviceEntry, NEW a, entry.primaryAddress # a, NEW heir
  PROVE  WithoutAddress(entry, a, heir).primaryAddress = entry.primaryAddress
BY DEF WithoutAddress, DeviceEntry

\* detachAddressLocked (registry_alias.go:360).
LEMMA DetachShows ==
  ASSUME NEW s, Typed(s), NEW d, Points(s, d), NEW a \in Address, NEW heir \in Address,
         NEW e, Points(s, e), s.heap[e].primaryAddress # a
  PROVE  Shows(s, DetachAddressLocked(s, d, a, heir), e)
<1> DEFINE U == [s EXCEPT !.entries[a] = Nil,
                          !.addressTable[a] = IF @ # NoSlot /\ @.Device = d
                                              THEN NoSlot ELSE @]
           V == ForgetTopologyAddressLocked(U, a)
           W == [V EXCEPT !.heap[d] = WithoutAddress(@, a, heir)]
           R == RemoveIdentityBindingsLocked(W, d)
<1>1. Yields(s, U) /\ U.heap = s.heap
  BY UnslottedYields DEF Typed, RegistryState
<1>2. DetachAddressLocked(s, d, a, heir) =
        CASE a \notin s.heap[d].addresses -> U
          [] s.heap[d].addresses = {a} -> [R EXCEPT !.order = @ \ {d}]
          [] OTHER -> SyncEntryFacesLocked(W, d)
  BY DEF DetachAddressLocked
<1> HIDE DEF U
<1>3. Typed(V) /\ V.heap = s.heap
  BY <1>1, ForgetTopologyYields DEF Yields, ForgetTopologyAddressLocked, Typed, RegistryState
<1> HIDE DEF V
<1> DEFINE Ne == WithoutAddress(s.heap[d], a, heir)
<1>4. /\ Ne \in DeviceEntry /\ d \in EntryId
      /\ e = d => Ne.primaryAddress = s.heap[e].primaryAddress
  BY WithoutAddressType, WithoutShows DEF Points
<1>5. W = [V EXCEPT !.heap[d] = Ne]
  BY <1>3, <1>4 DEF Typed, RegistryState
<1> HIDE DEF Ne, W
<1>6. Points(V, e) /\ Points(V, d)
  BY <1>3 DEF Points
<1>7. Shows(V, W, e) /\ Yields(V, W)
  BY <1>3, <1>4, <1>5, <1>6, WriteShows, WriteEntryYields
<1>8. Typed(W) /\ Points(W, e) /\ Points(W, d)
  BY <1>6, <1>7 DEF Yields, Points
<1>9. Shows(W, SyncEntryFacesLocked(W, d), e)
  BY <1>8, SyncShows
<1>10. Shows(W, [R EXCEPT !.order = @ \ {d}], e)
  BY <1>8 DEF RemoveIdentityBindingsLocked, RetainCurrentIdentityBindingLocked, Shows,
              Typed, RegistryState
<1>11. QED BY <1>1, <1>2, <1>3, <1>7, <1>9, <1>10 DEF Shows

\* mergeRegisteredAliasesLocked (registry_registration.go:339).
LEMMA MergeRegisteredShows ==
  ASSUME NEW s, Typed(s), NEW c, Points(s, c), NEW d, Points(s, d), NEW e, Points(s, e)
  PROVE  Shows(s, MergeRegisteredAliasesLocked(s, c, d), e)
<1> DEFINE moved == s.heap[d].addresses
           U == AbsorbIdentityLocked(s, c, d)
           Ta == [a \in Address |->
                     IF a \in moved THEN Attached(SlotFor(s, a), c) ELSE U.addressTable[a]]
           V == Regrouped(U, c, d, moved, Ta)
<1>1. Yields(s, U) /\ Shows(s, U, e)
  BY AbsorbYields, AbsorbSteady, SteadyShows
<1>2. MergeRegisteredAliasesLocked(s, c, d) = RemoveIdentityBindingsLocked(V, d)
  BY DEF MergeRegisteredAliasesLocked, Regrouped
<1> HIDE DEF U, Ta, moved
<1>3. Typed(U) /\ Points(U, c) /\ Points(U, e)
  BY <1>1 DEF Yields, Points
<1>4. Shows(U, V, e)
  BY <1>3 DEF Regrouped, Shows, Points, Typed, RegistryState, DeviceEntry
<1>5. RemoveIdentityBindingsLocked(V, d).heap = V.heap
  BY <1>3 DEF RemoveIdentityBindingsLocked, RetainCurrentIdentityBindingLocked, Regrouped,
              Typed, RegistryState
<1>6. QED BY <1>1, <1>2, <1>4, <1>5 DEF Shows

\* The group the address belonged to (registry_registration.go:115-123).
LEMMA LeaveGroupShows ==
  ASSUME NEW s, Typed(s), NEW a \in Address, NEW o, NEW i, NEW c, NEW heir \in Address,
         i # Nil => c # Nil, c # Nil => Points(s, c),
         NEW e, Points(s, e), s.heap[e].primaryAddress # a
  PROVE  Shows(s, LeaveGroup(s, a, o, i, c, heir), e)
<1> DEFINE d == s.entries[a]
<1>1. d # Nil => Points(s, d)
  BY DEF Typed, PointersType
<1>2. LeaveGroup(s, a, o, i, c, heir) =
        CASE d \in {Nil, c} -> s
          [] d \notin {Nil, c} /\ i # Nil /\ MergesInto(s, o, c, d) ->
                MergeRegisteredAliasesLocked(s, c, d)
          [] OTHER -> DetachAddressLocked(s, d, a, heir)
  BY DEF LeaveGroup
<1> HIDE DEF d
<1>3. CASE d \in {Nil, c}
  BY <1>2, <1>3 DEF Shows
<1>4. CASE d \notin {Nil, c}
  <2>1. Shows(s, DetachAddressLocked(s, d, a, heir), e)
    BY <1>1, <1>4, DetachShows
  <2>2. i # Nil => Shows(s, MergeRegisteredAliasesLocked(s, c, d), e)
    BY <1>1, <1>4, MergeRegisteredShows
  <2>3. QED BY <1>2, <1>4, <2>1, <2>2
<1>5. QED BY <1>3, <1>4

\* The entry the address joins, unless it is a new one (registry_registration.go:125-133).
LEMMA JoinEntryShows ==
  ASSUME NEW s, Typed(s), NEW a \in Address, NEW c, c # Nil => Points(s, c),
         NEW fresh \in EntryId, NEW e, Points(s, e), e # fresh
  PROVE  Shows(s, JoinEntry(s, a, c, fresh), e)
<1>1. CASE c = Nil
  BY <1>1 DEF JoinEntry, Shows, Points, Typed, RegistryState
<1>2. CASE c # Nil
  BY <1>2 DEF JoinEntry, Shows, Points, Typed, RegistryState, DeviceEntry
<1>3. QED BY <1>1, <1>2

\* registerLocked from the stored info on (registry_registration.go:135-206).
LEMMA StoreShows ==
  ASSUME NEW before, NEW s, Typed(s), NEW a \in Address, NEW o \in Observation,
         NEW c, Points(s, c), NEW keepID, NEW e, Points(s, e)
  PROVE  Shows(s, Store(before, s, a, o, c, keepID), e)
<1> DEFINE info == StoredInfo(o, s.heap[c], keepID)
           k == AuthorityKey(before, o, s.heap[c])
           Ne == Rebuilt(s.heap[c], info, Matched(s, info))
           U == [s EXCEPT !.heap[c] = Ne]
           V == PublishCurrentIdentityBindingLocked(U, c, k)
<1>1. info \in DeviceInfo /\ k \in IdentityKey \union {NoKey}
  BY StoredInfoType, AuthorityKeyType, ObservationAssumption DEF Points
<1>2. Matched(s, info) \in SUBSET Provider
  BY DEF Matched, Typed, RegistryState
<1>3. Store(before, s, a, o, c, keepID).heap = V.heap
  BY DEF Store, StoreInfo, Points, Typed, RegistryState, PublishCurrentIdentityBindingLocked,
         ReplaceBinding, BindIdentity, RetainCurrentIdentityBindingLocked, DropStaleIdentity
<1> HIDE DEF info, k
<1>4. Ne.primaryAddress = s.heap[c].primaryAddress
  BY DEF Rebuilt, Points, DeviceEntry
<1>5. Ne \in DeviceEntry
  BY <1>1, <1>2, RebuiltType DEF Points
<1> HIDE DEF Ne
<1>6. Shows(s, U, e) /\ Yields(s, U) /\ Points(U, c)
  BY <1>4, <1>5, WriteShows, WriteEntryYields DEF Points
<1> HIDE DEF U
<1>7. Typed(U) /\ Points(U, e)
  BY <1>6 DEF Yields, Points
<1>8. Shows(U, V, e)
  BY <1>1, <1>6, <1>7, PublishSteady, SteadyShows
<1>9. QED BY <1>3, <1>6, <1>8 DEF Shows

\* registerLocked (registry_registration.go:66-209).
LEMMA RegisterLockedShows ==
  ASSUME NEW s, Typed(s), NEW a \in Address, NEW o \in Observation,
         NEW fresh \in EntryId, NEW heir \in Address,
         NEW e, Points(s, e), e # fresh, s.heap[e].primaryAddress # a
  PROVE  Shows(s, RegisterLocked(s, a, o, fresh, heir), e)
<1> DEFINE i == ExistingByIdentity(s, o)
           c == SelectEntry(s, a, o, i)
           r == IF c = Nil THEN fresh ELSE c
           U == DropStaleIdentity(s, IncomingKey[o])
           V == LeaveGroup(U, a, o, i, c, heir)
           W == JoinEntry(V, a, c, fresh)
           X == Store(s, W, a, o, r, i \notin {Nil, s.entries[a]})
<1>1. RegisterLocked(s, a, o, fresh, heir) = X
  BY DEF RegisterLocked, RegisterAdmitted, RegisterInto
<1>2. (i # Nil => Points(s, i)) /\ (i # Nil => c # Nil)
  BY ExistingByIdentityType, SelectedByIdentity
<1>3. c # Nil => Points(s, c)
  BY <1>2, SelectEntryType
<1>4. Yields(s, U) /\ U.heap = s.heap
  BY IncomingKeyType, DropStaleYields, DropStaleSteady
<1> HIDE DEF U, c, i
<1>5. Typed(U) /\ (c # Nil => Points(U, c)) /\ Points(U, e) /\ U.heap[e].primaryAddress # a
  BY <1>3, <1>4 DEF Yields, Points
<1>6. Yields(U, V) /\ Shows(U, V, e)
  BY <1>2, <1>5, LeaveGroupYields, LeaveGroupShows
<1> HIDE DEF V
<1>7. Typed(V) /\ (c # Nil => Points(V, c)) /\ Points(V, e)
  BY <1>5, <1>6 DEF Yields, Points
<1>8. Yields(V, W) /\ Points(W, r) /\ Shows(V, W, e)
  BY <1>7, JoinEntryYields, JoinEntryShows
<1> HIDE DEF W, r
<1>9. Typed(W) /\ Points(W, e)
  BY <1>7, <1>8 DEF Yields, Points
<1>10. Shows(W, X, e)
  BY <1>8, <1>9, StoreShows
<1>11. QED BY <1>1, <1>4, <1>6, <1>8, <1>10 DEF Shows

\* Register, past registerLocked, writes slots and faces (registry_registration.go:5-26).
LEMMA RegisterShows ==
  ASSUME Typed(registry), NEW a \in Address, NEW o \in Observation, Register(a, o),
         NEW e \in registry.order, registry.heap[e].primaryAddress # a
  PROVE  Shows(registry, registry', e)
<1>1. PICK fresh \in Allocated(registry), heir \in Heirs(registry, a) :
         registry' = RegisteredActively(RegisterLocked(registry, a, o, fresh, heir), a, o)
  BY DEF Register
<1>2. fresh \in EntryId \ registry.order /\ heir \in Address
  BY AllocatedIsFresh, HeirsType DEF Register
<1> DEFINE U == RegisterLocked(registry, a, o, fresh, heir)
           d == U.entries[a]
           V == IF IncomingKey[o] # NoKey THEN ConfirmFrom(U, a, d)
                                          ELSE ObserveAddressSlotLocked(U, a, d, Candidate)
           T == SyncEntryFacesLocked(V, d)
<1>3. Points(registry, e) /\ e # fresh
  BY <1>2 DEF Typed, PointersType
<1>4. Yields(registry, U) /\ Points(U, d) /\ Shows(registry, U, e)
  BY <1>2, <1>3, RegisterLockedYields, RegisterLockedShows
<1>5. registry' = RecordDirectQualifiedIdentityWitnessLocked(
                     ReconcileQualifiedIdentityWitnessesLocked(Advance(T)), a, o, d)
  BY <1>1 DEF RegisteredActively, ActivelyObserved
<1> HIDE DEF U, d
<1>6. Yields(U, V)
  BY <1>4, ConfirmFromMarks, ObserveMarks, StampConstants DEF Marks, Yields
<1>7. V.heap = U.heap
  BY <1>4 DEF ConfirmFrom, ConfirmTopologyIdentitySlotsLocked, ObserveAddressSlotLocked,
              SetSlot, Yields, Typed, RegistryState
<1> HIDE DEF V
<1>8. Typed(V) /\ Points(V, d) /\ Points(V, e)
  BY <1>3, <1>4, <1>6 DEF Yields, Points
<1>9. Shows(V, T, e) /\ Typed(T)
  BY <1>8, SyncShows, SyncYields DEF Yields
<1> HIDE DEF T
<1>10. registry'.heap = T.heap
  BY <1>5, <1>9, EndingsKeepBooks DEF SameBooks
<1>11. QED BY <1>4, <1>7, <1>9, <1>10 DEF Shows

\* The group an address is taken from (registry_alias.go:143-162).
LEMMA LeaveSecondaryShows ==
  ASSUME NEW s, Typed(s), RowsWithin(s, s.order), NEW c \in s.order,
         NEW a \in Address, NEW heir \in Address,
         NEW d, d # Nil => Points(s, d), NEW e, Points(s, e), s.heap[e].primaryAddress # a
  PROVE  Shows(s, LeaveSecondary(s, c, a, d, heir), e)
<1>1. CASE d \in {Nil, c}
  BY <1>1 DEF LeaveSecondary, Shows
<1>2. CASE d \notin {Nil, c}
  <2> DEFINE Ne == WithoutAddress(s.heap[d], a, heir)
             U == [s EXCEPT !.heap[d] = Ne]
  <2>1. Points(s, d) /\ d \in EntryId /\ Points(s, c)
    BY <1>2 DEF Points, Typed, PointersType
  <2>2. Ne \in DeviceEntry /\ (e = d => Ne.primaryAddress = s.heap[e].primaryAddress)
    BY <2>1, WithoutAddressType, WithoutShows DEF Points
  <2>3. LeaveSecondary(s, c, a, d, heir) = IF s.heap[d].addresses = {a}
                                           THEN MergeRemovedAliasEntryLocked(U, c, d)
                                           ELSE SyncEntryFacesLocked(U, d)
    BY <1>2, <2>1 DEF LeaveSecondary, Points, Typed, RegistryState
  <2> HIDE DEF Ne
  <2>4. Yields(s, U) /\ Points(U, d) /\ Shows(s, U, e)
    BY <2>1, <2>2, WriteEntryYields, WriteShows
  <2>5. U.order = s.order /\ U.identity = s.identity
    OBVIOUS
  <2> HIDE DEF U
  <2>6. Typed(U) /\ Points(U, e) /\ RowsWithin(U, U.order) /\ c \in U.order
    BY <2>4, <2>5 DEF Yields, Points, RowsWithin
  <2>7. Shows(U, SyncEntryFacesLocked(U, d), e)
    BY <2>4, <2>6, SyncShows
  <2>8. Shows(U, MergeRemovedAliasEntryLocked(U, c, d), e)
    BY <1>2, <2>4, <2>6, MergeRemovedSteady, SteadyShows
  <2>9. QED BY <2>3, <2>4, <2>7, <2>8 DEF Shows
<1>3. QED BY <1>1, <1>2

\* The address joins the canonical group (registry_alias.go:163-168).
LEMMA JoinGroupShows ==
  ASSUME NEW s, Typed(s), NEW c, Points(s, c), NEW a \in Address,
         s.addressTable[a] # NoSlot, NEW e, Points(s, e)
  PROVE  Shows(s, JoinGroup(s, c, a), e)
<1> DEFINE Ne == [s.heap[c] EXCEPT !.addresses = @ \union {a}]
           T == [s EXCEPT !.addressTable[a] = Attached(@, c),
                          !.heap[c].addresses = @ \union {a},
                          !.entries[a] = c]
<1>1. JoinGroup(s, c, a) = SyncEntryFacesLocked(T, c)
  BY DEF JoinGroup
<1>2. Ne.primaryAddress = s.heap[c].primaryAddress
  BY DEF Points, DeviceEntry
<1>3. T.heap = [s.heap EXCEPT ![c] = Ne]
  BY DEF Typed, RegistryState
<1> HIDE DEF T, Ne
<1>4. Shows(s, T, e)
  BY <1>2, <1>3 DEF Shows, Points, Typed, RegistryState
<1>5. Shows(T, SyncEntryFacesLocked(T, c), e)
  BY DEF SyncEntryFacesLocked, Shows
<1>6. QED BY <1>1, <1>4, <1>5 DEF Shows

\* AliasAddresses, with an entry behind its first address (registry_alias.go:133-193).
LEMMA AliasShows ==
  ASSUME Typed(registry), Sound(registry), NEW a \in Address, NEW b \in Address,
         registry.entries[a] # Nil, AliasAddresses(a, b),
         NEW e \in registry.order, registry.heap[e].primaryAddress # b
  PROVE  Shows(registry, registry', e)
<1>1. PICK heir \in Heirs(registry, b) :
         registry' = ReconcileQualifiedIdentityWitnessesLocked(
                         Advance(Aliased(registry, a, b, heir)))
  BY DEF AliasAddresses
<1>2. heir \in Address /\ GoodHeir(registry, b, heir)
  BY HeirsType, HeirsAreGood
<1> DEFINE d == registry.entries[a]
           U == Ensured(registry, {a, b})
           L == LeaveSecondary(U, d, b, U.entries[b], heir)
           V == JoinGroup(L, d, b)
           T == RecordIfJoined(V, a, b)
<1>3. Yields(registry, U) /\ U.addressTable[a] # NoSlot /\ U.addressTable[b] # NoSlot
  BY EnsuredYields
<1>4. Sound(U) /\ SameGroups(registry, U) /\ U.heap = registry.heap
  BY EnsuredSound
<1>5. Aliased(registry, a, b, heir) = RecordIfJoined(Grouped(U, a, b, heir), a, b)
  BY DEF Aliased
<1> HIDE DEF U
<1>6. /\ Typed(U) /\ Points(U, e) /\ RowsWithin(U, U.order) /\ d \in U.order /\ d # Nil
      /\ GoodHeir(U, b, heir) /\ U.addressTable[a].Device = d /\ U.addressTable[b].Device = U.entries[b]
  BY <1>2, <1>3, <1>4 DEF Yields, Typed, PointersType, Sound, Groups, Slots, SameGroups, GoodHeir, Points
<1>7. Grouped(U, a, b, heir) = V
  BY <1>6 DEF Grouped, MoveToGroup
<1>8. Points(U, d) /\ (U.entries[b] # Nil => Points(U, U.entries[b]))
  BY <1>6 DEF Typed, PointersType
<1> HIDE DEF d
<1>9. Shows(registry, U, e) /\ U.heap[e].primaryAddress # b
  BY <1>4 DEF Shows
<1>10. Yields(U, L) /\ Shows(U, L, e)
  BY <1>2, <1>6, <1>8, <1>9, LeaveSecondaryYields, LeaveSecondaryShows
<1>11. L.addressTable[b] # NoSlot
  BY <1>2, <1>3, <1>4, <1>6, LeaveSecondarySound
<1>12. Typed(L) /\ Points(L, d) /\ Points(L, e)
  BY <1>6, <1>8, <1>10 DEF Yields, Points
<1> HIDE DEF L
<1>13. Shows(L, V, e)
  BY <1>11, <1>12, JoinGroupShows
<1>14. Typed(V)
  BY <1>2, <1>3, <1>6, <1>7, GroupedYields DEF Yields
<1> HIDE DEF V
<1>15. T.heap = V.heap
  BY <1>14 DEF RecordIfJoined, RecordTopologyAliasLocked, Typed, RegistryState
<1>16. Typed(T)
  BY <1>2, <1>5, <1>7, AliasedYields DEF Yields
<1> HIDE DEF T
<1>17. registry'.heap = T.heap
  BY <1>1, <1>5, <1>7, <1>16, EndingsKeepBooks DEF SameBooks, T
<1>18. QED BY <1>9, <1>10, <1>13, <1>15, <1>17 DEF Shows

\* confirmScanIdentity writes slots and faces (registry_registration.go:28-50).
LEMMA ConfirmScanIdentityShows ==
  ASSUME Typed(registry), NEW a \in Address, ConfirmScanIdentity(a), NEW e, Points(registry, e)
  PROVE  Shows(registry, registry', e)
<1> DEFINE d == registry.entries[a]
           V == ConfirmFrom(registry, a, d)
           T == SyncEntryFacesLocked(V, d)
<1>1. Points(registry, d) /\ registry' = Advance(T)
  BY DEF ConfirmScanIdentity, Typed, PointersType
<1>2. Marks(registry, V) /\ Points(V, d)
  BY <1>1, ConfirmFromMarks
<1>3. V.heap = registry.heap
  BY <1>1 DEF ConfirmFrom, ConfirmTopologyIdentitySlotsLocked, ObserveAddressSlotLocked,
              SetSlot, Typed, RegistryState
<1> HIDE DEF V, d
<1>4. Typed(V) /\ Points(V, e)
  BY <1>2 DEF Marks, Yields, Points
<1>5. Shows(V, T, e) /\ Typed(T)
  BY <1>2, <1>4, SyncShows, SyncYields DEF Yields
<1> HIDE DEF T
<1>6. registry'.heap = T.heap
  BY <1>1, <1>5, EndingsKeepBooks DEF SameBooks
<1>7. QED BY <1>3, <1>5, <1>6 DEF Shows

\* A live entry is the one its display address resolves to.
LEMMA LiveByDisplay ==
  ASSUME NEW s, Typed(s), Sound(s), NEW e \in s.order
  PROVE  /\ s.heap[e].primaryAddress \in Address
         /\ s.entries[s.heap[e].primaryAddress] = e
BY DEF Sound, Groups, Typed, PointersType, Points, DeviceEntry

\* When the address a has moved, its new entry is the only one that may have come to
\* be: then it has no other address.  A group it was in is gone when it moved along.
LEMMA GroupsAfterMove ==
  ASSUME NEW s, Typed(s), Sound(s), NEW t, Typed(t), Sound(t), NEW a \in Address,
         MovesTogether(s, t, a)
  PROVE  /\ t.order \subseteq s.order \union {t.entries[a]}
         /\ t.entries[a] \notin s.order \union {Nil} =>
               /\ t.heap[t.entries[a]].addresses = {a}
               /\ t.heap[t.entries[a]].primaryAddress = a
         /\ \A x \in Address \ {a} : t.entries[x] # s.entries[x] =>
               t.entries[x] \in s.order /\ s.entries[x] \notin t.order
<1>1. \A e \in s.order : /\ s.heap[e].primaryAddress \in Address
                         /\ s.entries[s.heap[e].primaryAddress] = e
  BY LiveByDisplay
<1>2. \A e \in t.order : /\ t.heap[e].primaryAddress \in Address
                         /\ t.entries[t.heap[e].primaryAddress] = e
  BY LiveByDisplay
<1>3. Nil \notin t.order /\ Nil \notin s.order
  BY NilIsNotLive
<1>4. \A x \in Address : s.entries[x] # Nil => s.entries[x] \in s.order
  BY DEF Sound, Groups
<1>5. ASSUME NEW x \in Address \ {a}
      PROVE  t.entries[x] \in s.order \union {Nil}
  BY <1>4, <1>5 DEF MovesTogether
<1>6. t.order \subseteq s.order \union {t.entries[a]}
  BY <1>2, <1>3, <1>5
<1>7. ASSUME t.entries[a] \notin s.order \union {Nil}
      PROVE  /\ t.heap[t.entries[a]].addresses = {a}
             /\ t.heap[t.entries[a]].primaryAddress = a
  <2> DEFINE n == t.entries[a]
  <2>1. n \in t.order
    BY <1>7 DEF Sound, Groups
  <2>2. /\ t.heap[n].addresses \subseteq Address
        /\ t.heap[n].primaryAddress \in t.heap[n].addresses
        /\ \A x \in t.heap[n].addresses : t.entries[x] = n
    BY <2>1 DEF Sound, Groups, Typed, PointersType, Points, DeviceEntry
  <2> HIDE DEF n
  <2>3. t.heap[n].addresses \subseteq {a}
    BY <1>5, <1>7, <2>2 DEF n
  <2>4. QED BY <2>2, <2>3 DEF n
<1>8. ASSUME NEW x \in Address \ {a}, t.entries[x] # s.entries[x]
      PROVE  t.entries[x] \in s.order /\ s.entries[x] \notin t.order
  <2> DEFINE e == s.entries[x]
             p == t.heap[e].primaryAddress
  <2>1. /\ e = s.entries[a] /\ t.entries[x] \in s.order
        /\ \A y \in Address : s.entries[y] = e => t.entries[y] = t.entries[x]
    BY <1>8 DEF MovesTogether
  <2>2. ASSUME e \in t.order PROVE FALSE
    <3>1. p \in Address /\ t.entries[p] = e
      BY <1>2, <2>2
    <3>2. s.entries[p] # e
      BY <1>8, <2>1, <3>1
    <3>3. p # a
      BY <2>1, <3>2
    <3> HIDE DEF p
    <3>4. s.entries[p] = s.entries[a]
      BY <3>1, <3>2, <3>3 DEF MovesTogether
    <3>5. QED BY <2>1, <3>2, <3>4
  <2>3. QED BY <2>1, <2>2
<1>9. QED BY <1>6, <1>7, <1>8

\* When only b has moved, to an entry that was there, no entry has come to be, and one
\* with no other address is gone.
LEMMA GroupsAfterJoin ==
  ASSUME NEW s, Typed(s), Sound(s), NEW t, Typed(t), Sound(t), NEW b \in Address,
         OnlyMoves(s, t, b), t.entries[b] \in s.order
  PROVE  /\ t.order \subseteq s.order
         /\ \A f \in s.order : s.heap[f].addresses = {b} /\ f # t.entries[b] => f \notin t.order
<1>1. \A e \in t.order : /\ t.heap[e].primaryAddress \in Address
                         /\ t.entries[t.heap[e].primaryAddress] = e
  BY LiveByDisplay
<1>2. Nil \notin t.order
  BY NilIsNotLive
<1>3. \A x \in Address : s.entries[x] # Nil =>
         s.entries[x] \in s.order /\ x \in s.heap[s.entries[x]].addresses
  BY DEF Sound, Groups
<1>4. QED BY <1>1, <1>2, <1>3 DEF OnlyMoves
=============================================================================
