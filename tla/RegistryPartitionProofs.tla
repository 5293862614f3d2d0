----------------------- MODULE RegistryPartitionProofs -----------------------
(* Proofs that the four places where DeviceRegistry keeps its address groups *)
(* (the address map, the entries' address lists, the slots' Device pointers  *)
(* and the cached Faces) never part, for every instance.                     *)
EXTENDS RegistryProofs

-----------------------------------------------------------------------------
\* The parts of the inductive invariant

\* The groups of the entries O are those of the address map m.
Groups(s, O, m) ==
  /\ \A x \in Address : m[x] # Nil => m[x] \in O /\ x \in s.heap[m[x]].addresses
  /\ \A e \in O : /\ s.heap[e].primaryAddress \in s.heap[e].addresses
                  /\ \A x \in s.heap[e].addresses : m[x] = e

\* The slots of the addresses X are attached as the address map says.
Slots(s, X) ==
  \A x \in X : /\ s.entries[x] # Nil => s.addressTable[x] # NoSlot
               /\ s.addressTable[x] # NoSlot => s.addressTable[x].Device = s.entries[x]

\* The faces of the entries O say what the slots say.
MirrorsSlots(s, e) ==
  s.heap[e].Faces = [x \in s.heap[e].addresses |-> FaceOf(s.addressTable[x])]
Mirrors(s, O) == \A e \in O : MirrorsSlots(s, e)

\* The same of all addresses but one, and of all entries but one.
SlotsBut(s, a)   == Slots(s, Address \ {a})
MirrorsBut(s, e) == Mirrors(s, s.order \ {e})

\* No row of the identity index points outside O.  A row may be stale: an
\* entry keeps it until a lookup meets it.
RowsWithin(s, O) == \A k \in IdentityKey : s.identity[k] # Nil => s.identity[k] \in O

\* What a registry satisfies between two operations.
Sound(s) ==
  /\ Groups(s, s.order, s.entries)
  /\ Slots(s, Address)
  /\ Mirrors(s, s.order)
  /\ RowsWithin(s, s.order)

\* t has the groups, slots and faces of s.
Steady(s, t) ==
  /\ t.entries = s.entries
  /\ t.addressTable = s.addressTable
  /\ \A e \in EntryId : Points(s, e) =>
        /\ t.heap[e].primaryAddress = s.heap[e].primaryAddress
        /\ t.heap[e].addresses = s.heap[e].addresses
        /\ t.heap[e].Faces = s.heap[e].Faces

\* A helper may return without a change (registry_alias.go:65).
LEMMA SteadyReflexive ==
  ASSUME NEW s
  PROVE  Steady(s, s)
BY DEF Steady

\* Helpers are called one after the other (no single line of the code).
LEMMA SteadyTransitive ==
  ASSUME NEW s, NEW t, NEW u, Steady(s, t), Steady(t, u), Yields(s, t)
  PROVE  Steady(s, u)
BY DEF Steady, Yields, Points

\* A steady helper keeps the parts of the invariant (no single line of the code).
LEMMA SteadyKeeps ==
  ASSUME NEW s, Typed(s), NEW t, Steady(s, t), NEW O, O \subseteq s.order, NEW m, NEW X
  PROVE  /\ Groups(s, O, m) => Groups(t, O, m)
         /\ Slots(s, X) => Slots(t, X)
         /\ Mirrors(s, O) => Mirrors(t, O)
<1>1. \A e \in O : /\ t.heap[e].primaryAddress = s.heap[e].primaryAddress
                   /\ t.heap[e].addresses = s.heap[e].addresses
                   /\ t.heap[e].Faces = s.heap[e].Faces
  BY DEF Steady, Typed, PointersType, Points
<1>2. t.entries = s.entries /\ t.addressTable = s.addressTable
  BY DEF Steady
<1>3. Groups(s, O, m) => Groups(t, O, m)
  BY <1>1 DEF Groups
<1>4. Slots(s, X) => Slots(t, X)
  BY <1>2 DEF Slots
<1>5. Mirrors(s, O) => Mirrors(t, O)
  BY <1>1, <1>2 DEF Mirrors, MirrorsSlots
<1>6. QED BY <1>3, <1>4, <1>5

-----------------------------------------------------------------------------
\* Helpers that move no address

\* The lookup may delete a stale row (registry_alias.go:23).
LEMMA DropStaleSteady ==
  ASSUME NEW s, Typed(s), NEW k
  PROVE  LET t == DropStaleIdentity(s, k)
         IN  /\ Steady(s, t)
             /\ t.order = s.order /\ t.heap = s.heap
             /\ \A O : RowsWithin(s, O) => RowsWithin(t, O)
BY DEF DropStaleIdentity, Steady, RowsWithin, Typed, RegistryState

\* Rows are only deleted (registry_alias.go:37).
LEMMA RetainSteady ==
  ASSUME NEW s, Typed(s), NEW e, NEW k
  PROVE  LET t == RetainCurrentIdentityBindingLocked(s, e, k)
         IN  /\ Steady(s, t)
             /\ t.order = s.order /\ t.heap = s.heap
             /\ \A O : RowsWithin(s, O) => RowsWithin(t, O)
BY DEF RetainCurrentIdentityBindingLocked, Steady, RowsWithin, Typed, RegistryState

\* An entry that leaves the registry has no row (registry_alias.go:52).
LEMMA RemoveSteady ==
  ASSUME NEW s, Typed(s), NEW e
  PROVE  LET t == RemoveIdentityBindingsLocked(s, e)
         IN  /\ Steady(s, t)
             /\ t.order = s.order /\ t.heap = s.heap
             /\ \A O : RowsWithin(s, O) => RowsWithin(t, O \ {e})
<1> DEFINE t == RemoveIdentityBindingsLocked(s, e)
<1>1. /\ Steady(s, t)
      /\ t.order = s.order /\ t.heap = s.heap
  BY RetainSteady DEF RemoveIdentityBindingsLocked
<1>2. \A k \in IdentityKey : t.identity[k] = IF s.identity[k] = e THEN Nil ELSE s.identity[k]
  BY DEF RemoveIdentityBindingsLocked, RetainCurrentIdentityBindingLocked, Typed,
         RegistryState, IdentityKey
<1>3. QED BY <1>1, <1>2 DEF RowsWithin

\* An entry is written without touching its group (any helper that writes
\* through a *deviceEntry).
LEMMA WriteSteady ==
  ASSUME NEW s, Typed(s), NEW e \in EntryId, NEW entry,
         Points(s, e) => /\ entry.primaryAddress = s.heap[e].primaryAddress
                         /\ entry.addresses = s.heap[e].addresses
                         /\ entry.Faces = s.heap[e].Faces
  PROVE  LET t == [s EXCEPT !.heap[e] = entry]
         IN  /\ Steady(s, t)
             /\ t.order = s.order
             /\ \A O : RowsWithin(s, O) => RowsWithin(t, O)
BY DEF Steady, RowsWithin, Typed, RegistryState

\* The new key of an entry and its row (registry_alias.go:82-85).
LEMMA BindSteady ==
  ASSUME NEW s, Typed(s), NEW e, Points(s, e), NEW k \in IdentityKey \union {NoKey}
  PROVE  LET t == BindIdentity(s, e, k)
         IN  /\ Steady(s, t)
             /\ t.order = s.order
             /\ \A O : RowsWithin(s, O) /\ e \in O => RowsWithin(t, O)
<1> DEFINE Ne == [s.heap[e] EXCEPT !.identityKey = k]
           Ix == [x \in IdentityKey |-> IF x = k THEN e ELSE s.identity[x]]
           T == [s EXCEPT !.heap = [@ EXCEPT ![e] = Ne], !.identity = Ix]
<1>1. BindIdentity(s, e, k) = T
  BY DEF BindIdentity, Typed, RegistryState
<1>2. /\ Ne.primaryAddress = s.heap[e].primaryAddress
      /\ Ne.addresses = s.heap[e].addresses
      /\ Ne.Faces = s.heap[e].Faces
  BY DEF Points, DeviceEntry
<1>3. \A O : RowsWithin(s, O) /\ e \in O => \A x \in IdentityKey : Ix[x] # Nil => Ix[x] \in O
  BY DEF RowsWithin
<1> HIDE DEF Ne, Ix
<1>4. T.identity = Ix /\ T.order = s.order /\ Steady(s, T)
  BY <1>2 DEF Steady, Typed, RegistryState, Points
<1> HIDE DEF T
<1>5. QED BY <1>1, <1>3, <1>4 DEF RowsWithin

\* publishCurrentIdentityBindingLocked (registry_alias.go:64).
LEMMA PublishSteady ==
  ASSUME NEW s, Typed(s), NEW e, Points(s, e), NEW k \in IdentityKey \union {NoKey}
  PROVE  LET t == PublishCurrentIdentityBindingLocked(s, e, k)
         IN  /\ Steady(s, t)
             /\ t.order = s.order
             /\ \A O : RowsWithin(s, O) /\ e \in O => RowsWithin(t, O)
<1> DEFINE U == DropStaleIdentity(s, k)
           j == PublishableKey(s, e, k, CurrentIdentityEntry(s, k))
           V == RetainCurrentIdentityBindingLocked(U, e, j)
           W == BindIdentity(V, e, j)
<1>1. /\ Yields(s, U) /\ Steady(s, U) /\ U.order = s.order
      /\ \A O : RowsWithin(s, O) => RowsWithin(U, O)
  BY DropStaleYields, DropStaleSteady
<1>2. j \in IdentityKey \union {NoKey}
  BY DEF PublishableKey
<1>3. PublishCurrentIdentityBindingLocked(s, e, k) = W
  BY DEF PublishCurrentIdentityBindingLocked, ReplaceBinding
<1> HIDE DEF U, j
<1>4. /\ Yields(U, V) /\ Steady(U, V) /\ V.order = U.order
      /\ \A O : RowsWithin(U, O) => RowsWithin(V, O)
  BY <1>1, RetainYields, RetainSteady DEF Yields
<1> HIDE DEF V
<1>5. Typed(V) /\ Points(V, e)
  BY <1>1, <1>4 DEF Yields, Points
<1>6. /\ Steady(V, W) /\ W.order = V.order
      /\ \A O : RowsWithin(V, O) /\ e \in O => RowsWithin(W, O)
  BY <1>2, <1>5, BindSteady
<1> HIDE DEF W
<1>7. Steady(s, W)
  BY <1>1, <1>4, <1>6, SteadyTransitive, YieldsTransitive
<1>8. QED BY <1>1, <1>3, <1>4, <1>6, <1>7

\* absorbIdentityLocked (registry_alias.go:265).
LEMMA AbsorbSteady ==
  ASSUME NEW s, Typed(s), NEW d, Points(s, d), NEW e, Points(s, e)
  PROVE  LET t == AbsorbIdentityLocked(s, d, e)
         IN  /\ Steady(s, t)
             /\ t.order = s.order
             /\ \A O : RowsWithin(s, O) => RowsWithin(t, O)
<1> DEFINE Ne == AbsorbIdentity(s.heap[d], s.heap[e],
                                FillMissing(s.heap[d].info, s.heap[e].info))
<1>1. AbsorbIdentityLocked(s, d, e) = [s EXCEPT !.heap[d] = Ne]
  BY DEF AbsorbIdentityLocked, Points, Typed, RegistryState
<1>2. /\ Ne.primaryAddress = s.heap[d].primaryAddress
      /\ Ne.addresses = s.heap[d].addresses
      /\ Ne.Faces = s.heap[d].Faces
  BY DEF AbsorbIdentity, Points, DeviceEntry
<1> HIDE DEF Ne
<1>3. QED BY <1>1, <1>2, WriteSteady DEF Points

-----------------------------------------------------------------------------
\* The copy of the faces

\* Every address of e has a slot that is attached to e.
Settled(s, e) ==
  \A x \in s.heap[e].addresses : s.addressTable[x] # NoSlot /\ s.addressTable[x].Device = e

\* syncEntryFacesLocked of a settled group writes the faces and no slot
\* (registry_scan.go:139-157).
LEMMA SyncSettled ==
  ASSUME NEW s, Typed(s), NEW e, Points(s, e), Settled(s, e), e # Nil
  PROVE  LET t == SyncEntryFacesLocked(s, e)
         IN  /\ t.entries = s.entries /\ t.addressTable = s.addressTable
             /\ t.order = s.order /\ t.identity = s.identity
             /\ \A d \in EntryId \ {e} : t.heap[d] = s.heap[d]
             /\ t.heap[e].primaryAddress = s.heap[e].primaryAddress
             /\ t.heap[e].addresses = s.heap[e].addresses
             /\ MirrorsSlots(t, e)
<1> DEFINE Ad == s.heap[e].addresses
           Sy(a) == IF SlotFor(s, a).Device = Nil THEN Attached(SlotFor(s, a), e)
                                                  ELSE SlotFor(s, a)
           Ta == [a \in Address |-> IF a \in Ad THEN Sy(a) ELSE s.addressTable[a]]
           Fa == [a \in Ad |-> FaceOf(Sy(a))]
           Ne == [s.heap[e] EXCEPT !.Faces = Fa]
           T == [s EXCEPT !.addressTable = Ta, !.heap = [@ EXCEPT ![e] = Ne]]
<1>1. SyncEntryFacesLocked(s, e) = T
  BY DEF SyncEntryFacesLocked
<1>2. \A a \in Ad : Sy(a) = s.addressTable[a]
  BY DEF Settled, SlotFor, EnsureSlot
<1>3. Ta = s.addressTable
  BY <1>2 DEF Typed, RegistryState
<1>4. Fa = [a \in Ad |-> FaceOf(s.addressTable[a])]
  BY <1>2
<1>5. /\ Ne.primaryAddress = s.heap[e].primaryAddress
      /\ Ne.addresses = Ad /\ Ne.Faces = Fa
  BY DEF Points, DeviceEntry
<1> HIDE DEF Ta, Fa, Ne, Sy
<1>6. /\ T.entries = s.entries /\ T.addressTable = s.addressTable
      /\ T.order = s.order /\ T.identity = s.identity
      /\ \A d \in EntryId \ {e} : T.heap[d] = s.heap[d]
      /\ T.heap[e] = Ne
  BY <1>3 DEF Typed, RegistryState, Points
<1> HIDE DEF T
<1>7. QED BY <1>1, <1>4, <1>5, <1>6 DEF MirrorsSlots

\* It completes the faces of a group and keeps all the rest (registry_scan.go:139).
LEMMA SyncKeeps ==
  ASSUME NEW s, Typed(s), NEW O, O \subseteq s.order, NEW e \in O, e # Nil, Settled(s, e),
         NEW m, Groups(s, O, m), Mirrors(s, O \ {e}), NEW X, Slots(s, X), NEW P, RowsWithin(s, P)
  PROVE  LET t == SyncEntryFacesLocked(s, e)
         IN  /\ Groups(t, O, m) /\ Mirrors(t, O) /\ Slots(t, X) /\ RowsWithin(t, P)
             /\ t.entries = s.entries /\ t.order = s.order
<1>1. Points(s, e) /\ O \subseteq EntryId
  BY DEF Typed, PointersType, Points
<1> DEFINE t == SyncEntryFacesLocked(s, e)
<1>2. /\ t.entries = s.entries /\ t.addressTable = s.addressTable
      /\ t.order = s.order /\ t.identity = s.identity
      /\ \A d \in EntryId \ {e} : t.heap[d] = s.heap[d]
      /\ t.heap[e].primaryAddress = s.heap[e].primaryAddress
      /\ t.heap[e].addresses = s.heap[e].addresses
      /\ MirrorsSlots(t, e)
  BY <1>1, SyncSettled
<1> HIDE DEF t
<1>3. \A d \in O : /\ t.heap[d].primaryAddress = s.heap[d].primaryAddress
                   /\ t.heap[d].addresses = s.heap[d].addresses
                   /\ d # e => t.heap[d].Faces = s.heap[d].Faces
  BY <1>1, <1>2
<1>4. Groups(t, O, m)
  BY <1>3 DEF Groups
<1>5. Mirrors(t, O)
  BY <1>2, <1>3 DEF Mirrors, MirrorsSlots
<1>6. Slots(t, X) /\ RowsWithin(t, P)
  BY <1>2 DEF Slots, RowsWithin
<1>7. QED BY <1>2, <1>4, <1>5, <1>6 DEF t

-----------------------------------------------------------------------------
\* Leaving a group

\* Entries leaving r.order (registry_alias.go:219).
LEMMA LeaveOrderSteady ==
  ASSUME NEW s, Typed(s), NEW e
  PROVE  LET t == [s EXCEPT !.order = @ \ {e}]
         IN  /\ Steady(s, t)
             /\ t.order = s.order \ {e}
             /\ t.identity = s.identity
BY DEF Steady, Typed, RegistryState

\* The address becomes the primary one only if it stays (registry_alias.go:380-385).
GoodHeir(s, a, heir) ==
  \A e \in s.order : s.heap[e].primaryAddress = a /\ s.heap[e].addresses # {a}
     /\ s.entries[a] = e => heir \in s.heap[e].addresses \ {a}

\* What a group is without one of its addresses, before its faces are copied
\* (registry_alias.go:361-385).
LEMMA LeftGroups ==
  ASSUME NEW s, Typed(s), Groups(s, s.order, s.entries), NEW a \in Address,
         NEW e \in s.order, s.entries[a] = e, NEW heir, GoodHeir(s, a, heir),
         NEW W, \A d \in EntryId \ {e} : W.heap[d] = s.heap[d],
         W.heap[e] = WithoutAddress(s.heap[e], a, heir)
  PROVE  LET m == [s.entries EXCEPT ![a] = Nil]
         IN  /\ Groups(W, s.order \ {e}, m) \/ s.heap[e].addresses # {a}
             /\ Groups(W, s.order, m) \/ s.heap[e].addresses = {a}
<1> DEFINE m == [s.entries EXCEPT ![a] = Nil]
<1>1. Points(s, e) /\ s.order \subseteq EntryId /\ s.entries \in [Address -> EntryId \union {Nil}]
  BY DEF Typed, PointersType, RegistryState
<1>2. /\ m[a] = Nil
      /\ \A x \in Address \ {a} : m[x] = s.entries[x]
  BY <1>1
<1> HIDE DEF m
<1>3. /\ W.heap[e].addresses = s.heap[e].addresses \ {a}
      /\ W.heap[e].primaryAddress = IF s.heap[e].primaryAddress = a
                                    THEN heir ELSE s.heap[e].primaryAddress
  BY <1>1 DEF WithoutAddress, Points, DeviceEntry
<1>4. \A d \in s.order : s.heap[d].addresses \subseteq Address
  BY DEF Typed, PointersType, Points, DeviceEntry
<1>5. \A d \in s.order \ {e} : /\ W.heap[d] = s.heap[d]
                               /\ a \notin s.heap[d].addresses
  BY <1>1 DEF Groups
<1>6. \A d \in s.order \ {e} : /\ W.heap[d].primaryAddress \in W.heap[d].addresses
                               /\ \A x \in W.heap[d].addresses : m[x] = d
  BY <1>2, <1>4, <1>5 DEF Groups
<1>7. CASE s.heap[e].addresses = {a}
  <2>1. \A x \in Address : m[x] # Nil => m[x] \in s.order \ {e} /\ x \in W.heap[m[x]].addresses
    BY <1>2, <1>5, <1>7 DEF Groups
  <2>2. QED BY <1>6, <1>7, <2>1 DEF Groups, m
<1>8. CASE s.heap[e].addresses # {a}
  <2>1. \A x \in Address : m[x] # Nil => m[x] \in s.order /\ x \in W.heap[m[x]].addresses
    BY <1>2, <1>3, <1>5 DEF Groups
  <2>2. W.heap[e].primaryAddress \in W.heap[e].addresses
    BY <1>3, <1>8 DEF Groups, GoodHeir
  <2>3. \A x \in W.heap[e].addresses : m[x] = e
    BY <1>2, <1>3, <1>4 DEF Groups
  <2>4. QED BY <1>6, <1>8, <2>1, <2>2, <2>3 DEF Groups, m
<1>9. QED BY <1>7, <1>8

\* detachAddressLocked: the address resolves to nothing, and the rest of the
\* registry is as sound as it was (registry_alias.go:360).
LEMMA DetachSound ==
  ASSUME NEW s, Typed(s), Sound(s), NEW a \in Address, s.entries[a] # Nil,
         NEW heir \in Address, GoodHeir(s, a, heir)
  PROVE  LET t == DetachAddressLocked(s, s.entries[a], a, heir)
         IN  /\ Sound(t)
             /\ t.entries = [s.entries EXCEPT ![a] = Nil]
             /\ t.order \subseteq s.order /\ s.order \ {s.entries[a]} \subseteq t.order
<1> DEFINE e == s.entries[a]
           m == [s.entries EXCEPT ![a] = Nil]
           U == [s EXCEPT !.entries[a] = Nil,
                          !.addressTable[a] = IF @ # NoSlot /\ @.Device = e
                                              THEN NoSlot ELSE @]
           V == ForgetTopologyAddressLocked(U, a)
           W == [V EXCEPT !.heap[e] = WithoutAddress(@, a, heir)]
           R == RemoveIdentityBindingsLocked(W, e)
           T1 == [R EXCEPT !.order = @ \ {e}]
           T2 == SyncEntryFacesLocked(W, e)
<1>1. /\ e \in s.order /\ a \in s.heap[e].addresses /\ Points(s, e)
      /\ s.addressTable[a] # NoSlot /\ s.addressTable[a].Device = e
  BY DEF Sound, Groups, Slots, Typed, PointersType
<1>2. DetachAddressLocked(s, e, a, heir) = IF s.heap[e].addresses = {a} THEN T1 ELSE T2
  BY <1>1 DEF DetachAddressLocked
<1>3. Yields(s, U)
  BY UnslottedYields
<1>4. /\ U.entries = m /\ U.addressTable = [s.addressTable EXCEPT ![a] = NoSlot]
      /\ U.order = s.order /\ U.identity = s.identity /\ U.heap = s.heap
  BY <1>1 DEF Typed, RegistryState
<1> HIDE DEF U
<1>5. Yields(s, V)
  BY <1>3, ForgetTopologyYields, YieldsTransitive DEF Yields
<1>6. /\ V.entries = U.entries /\ V.addressTable = U.addressTable
      /\ V.order = U.order /\ V.identity = U.identity /\ V.heap = U.heap
  BY <1>3 DEF ForgetTopologyAddressLocked, Yields, Typed, RegistryState
<1> HIDE DEF V
<1>7. Typed(V) /\ Points(V, e)
  BY <1>1, <1>5 DEF Yields, Points
<1>8. WithoutAddress(V.heap[e], a, heir) \in DeviceEntry
  BY <1>7, WithoutAddressType DEF Points
<1>9. W = [V EXCEPT !.heap[e] = WithoutAddress(V.heap[e], a, heir)]
  BY <1>7 DEF Typed, RegistryState, Points
<1>10. Typed(W) /\ Points(W, e)
  BY <1>7, <1>8, <1>9, WriteEntryYields DEF Yields, Points
<1>11. /\ W.entries = m /\ W.addressTable = [s.addressTable EXCEPT ![a] = NoSlot]
       /\ W.order = s.order /\ W.identity = s.identity
       /\ W.heap[e] = WithoutAddress(s.heap[e], a, heir)
       /\ \A d \in EntryId \ {e} : W.heap[d] = s.heap[d]
  BY <1>1, <1>4, <1>6, <1>7, <1>9 DEF Typed, RegistryState, Points
<1> HIDE DEF W
<1>12. /\ m[a] = Nil /\ (\A x \in Address \ {a} : m[x] = s.entries[x])
       /\ W.addressTable[a] = NoSlot
       /\ \A x \in Address \ {a} : W.addressTable[x] = s.addressTable[x]
  BY <1>11 DEF Typed, RegistryState
<1>13. Slots(W, Address) /\ RowsWithin(W, s.order)
  BY <1>11, <1>12 DEF Sound, Slots, RowsWithin
<1>14. Mirrors(W, s.order \ {e})
  <2> SUFFICES ASSUME NEW d \in s.order \ {e} PROVE MirrorsSlots(W, d)
    BY DEF Mirrors
  <2>1. W.heap[d] = s.heap[d] /\ MirrorsSlots(s, d)
    BY <1>11 DEF Sound, Mirrors, Typed, RegistryState
  <2>2. \A x \in s.heap[d].addresses : x \in Address \ {a}
    BY DEF Sound, Groups, Typed, PointersType, Points, DeviceEntry
  <2>3. QED BY <1>12, <2>1, <2>2 DEF MirrorsSlots
<1>15. /\ Groups(W, s.order \ {e}, m) \/ s.heap[e].addresses # {a}
       /\ Groups(W, s.order, m) \/ s.heap[e].addresses = {a}
  BY <1>1, <1>11, LeftGroups DEF Sound
<1> HIDE DEF m
<1>16. CASE s.heap[e].addresses = {a}
  <2>1. /\ Typed(R) /\ Steady(W, R) /\ R.order = s.order
        /\ RowsWithin(R, s.order \ {e})
    BY <1>10, <1>11, <1>13, RemoveSteady, RemoveYields DEF Yields
  <2> HIDE DEF R
  <2>2. /\ Steady(R, T1) /\ T1.order = s.order \ {e} /\ T1.identity = R.identity
    BY <2>1, LeaveOrderSteady
  <2> HIDE DEF T1
  <2>3. Groups(R, s.order \ {e}, m) /\ Slots(R, Address) /\ Mirrors(R, s.order \ {e})
    BY <1>10, <1>11, <1>13, <1>14, <1>15, <1>16, <2>1, SteadyKeeps
  <2>4. Groups(T1, s.order \ {e}, m) /\ Slots(T1, Address) /\ Mirrors(T1, s.order \ {e})
    BY <2>1, <2>2, <2>3, SteadyKeeps
  <2>5. T1.entries = m
    BY <1>11, <2>1, <2>2 DEF Steady
  <2>6. RowsWithin(T1, s.order \ {e})
    BY <2>1, <2>2 DEF RowsWithin
  <2>7. QED BY <1>2, <1>16, <2>2, <2>4, <2>5, <2>6 DEF Sound, m
<1>17. CASE s.heap[e].addresses # {a}
  <2>1. Settled(W, e)
    <3>1. W.heap[e].addresses = s.heap[e].addresses \ {a}
      BY <1>1, <1>11 DEF WithoutAddress, Points, DeviceEntry
    <3>2. \A x \in s.heap[e].addresses : x \in Address /\ s.entries[x] = e
      BY <1>1 DEF Sound, Groups, Points, DeviceEntry
    <3>3. QED BY <1>1, <1>12, <3>1, <3>2, NullAssumption DEF Sound, Slots, Settled, Points
  <2>2. Sound(T2) /\ T2.entries = m /\ T2.order = s.order
    <3>1. e # Nil /\ Groups(W, s.order, m)
      BY <1>15, <1>17
    <3>2. /\ Groups(T2, s.order, m) /\ Mirrors(T2, s.order) /\ Slots(T2, Address)
          /\ RowsWithin(T2, s.order) /\ T2.entries = m /\ T2.order = s.order
      BY <1>1, <1>10, <1>11, <1>13, <1>14, <2>1, <3>1, SyncKeeps, SMTT(20)
    <3>3. QED BY <3>2 DEF Sound
  <2>3. QED BY <1>2, <1>17, <2>2 DEF m
<1>18. QED BY <1>16, <1>17

\* mergeRegisteredAliasesLocked: the addresses of e resolve to d, whose faces
\* are copied later (registry_registration.go:339).
LEMMA MergeRegisteredSound ==
  ASSUME NEW s, Typed(s), Sound(s), NEW d \in s.order, NEW e \in s.order, d # e
  PROVE  LET t == MergeRegisteredAliasesLocked(s, d, e)
         IN  /\ Groups(t, t.order, t.entries) /\ Slots(t, Address)
             /\ MirrorsBut(t, d) /\ RowsWithin(t, t.order)
             /\ \A x \in Address :
                   t.entries[x] = IF s.entries[x] = e THEN d ELSE s.entries[x]
             /\ t.order = s.order \ {e}
<1> DEFINE moved == s.heap[e].addresses
           m == [x \in Address |-> IF x \in moved THEN d ELSE s.entries[x]]
           O == s.order \ {e}
           U == AbsorbIdentityLocked(s, d, e)
           Ta == [a \in Address |->
                     IF a \in moved THEN Attached(SlotFor(s, a), d) ELSE U.addressTable[a]]
           V == Regrouped(U, d, e, moved, Ta)
           T == RemoveIdentityBindingsLocked(V, e)
<1>1. /\ Points(s, d) /\ Points(s, e) /\ s.order \subseteq EntryId /\ moved \subseteq Address
      /\ \A x \in Address : (x \in moved) <=> (s.entries[x] = e)
  <2>1. Points(s, d) /\ Points(s, e) /\ s.order \subseteq EntryId
    BY DEF Typed, PointersType, RegistryState
  <2>2. e # Nil
    BY <2>1, NullAssumption
  <2>3. QED BY <2>1, <2>2 DEF Sound, Groups, Points, DeviceEntry
<1>2. /\ Yields(s, U) /\ Steady(s, U) /\ U.order = s.order
      /\ RowsWithin(U, s.order)
  BY <1>1, AbsorbYields, AbsorbSteady DEF Sound
<1>3. MergeRegisteredAliasesLocked(s, d, e) = T
  BY DEF MergeRegisteredAliasesLocked, Regrouped
<1>4. Typed(U) /\ Points(U, d) /\ Points(U, e)
  BY <1>1, <1>2 DEF Yields, Points
<1>5. U.entries = s.entries /\ U.addressTable = s.addressTable
  BY <1>2 DEF Steady
<1>6. \A a \in Address : /\ Ta[a] \in AddressSlot \union {NoSlot}
                         /\ Ta[a] # NoSlot /\ Ta[a].Device # Nil => Points(U, Ta[a].Device)
                         /\ a \in moved => Ta[a] # NoSlot /\ Ta[a].Device = d
                         /\ a \notin moved => Ta[a] = s.addressTable[a]
  <2>1. \A a \in Address : /\ Attached(SlotFor(s, a), d) \in AddressSlot
                           /\ Attached(SlotFor(s, a), d).Device = d
    BY <1>1, SlotForType, AttachedType DEF Points
  <2>2. \A a \in moved : Ta[a] \in AddressSlot /\ Ta[a].Device = d
    BY <1>1, <2>1
  <2>3. \A a \in Address \ moved : Ta[a] = s.addressTable[a]
    BY <1>5
  <2>4. \A a \in Address : /\ s.addressTable[a] \in AddressSlot \union {NoSlot}
                           /\ s.addressTable[a] # NoSlot /\ s.addressTable[a].Device # Nil
                                => Points(U, s.addressTable[a].Device)
    BY <1>4, <1>5 DEF Typed, RegistryState, PointersType
  <2> HIDE DEF Ta, U
  <2>5. QED BY <1>4, <2>2, <2>3, <2>4, NullAssumption
<1>7. Ta \in [Address -> AddressSlot \union {NoSlot}]
  BY <1>6
<1>8. /\ m \in [Address -> EntryId \union {Nil}]
      /\ \A x \in Address : m[x] = IF x \in moved THEN d ELSE s.entries[x]
  BY <1>1 DEF Typed, RegistryState
<1> HIDE DEF U, Ta
<1>9. Yields(U, V)
  BY <1>1, <1>4, <1>6, <1>7, RegroupYields
<1>10. /\ V.entries = m /\ V.addressTable = Ta /\ V.order = O /\ V.identity = U.identity
       /\ V.heap[d].addresses = U.heap[d].addresses \union moved
       /\ V.heap[d].primaryAddress = U.heap[d].primaryAddress
       /\ \A x \in EntryId \ {d} : V.heap[x] = U.heap[x]
  BY <1>2, <1>4, <1>5 DEF Regrouped, Typed, RegistryState, Points, DeviceEntry
<1> HIDE DEF V, m
<1>11. \A x \in s.order : /\ V.heap[x].primaryAddress = s.heap[x].primaryAddress
                          /\ V.heap[x].addresses = IF x = d THEN s.heap[d].addresses \union moved
                                                            ELSE s.heap[x].addresses
                          /\ x # d => V.heap[x].Faces = s.heap[x].Faces
  BY <1>1, <1>2, <1>10 DEF Steady, Typed, PointersType, Points
<1>12. \A x \in O : s.heap[x].addresses \subseteq Address \ moved
  <2>1. \A x \in O : \A y \in s.heap[x].addresses : y \in Address /\ s.entries[y] = x
    BY DEF Sound, Groups, Typed, PointersType, Points, DeviceEntry
  <2>2. QED BY <1>1, <2>1
<1>13. Groups(V, O, m)
  <2>1. \A x \in Address : m[x] # Nil => m[x] \in O /\ x \in V.heap[m[x]].addresses
    BY <1>1, <1>8, <1>11 DEF Sound, Groups
  <2>2. \A x \in O : V.heap[x].primaryAddress \in V.heap[x].addresses
    BY <1>11 DEF Sound, Groups
  <2>3. \A x \in O : \A y \in V.heap[x].addresses : m[y] = x
    BY <1>1, <1>8, <1>11, <1>12 DEF Sound, Groups
  <2>4. QED BY <2>1, <2>2, <2>3 DEF Groups
<1>14. Slots(V, Address)
  BY <1>6, <1>8, <1>10 DEF Sound, Slots
<1>15. Mirrors(V, O \ {d})
  <2> SUFFICES ASSUME NEW x \in O \ {d} PROVE MirrorsSlots(V, x)
    BY DEF Mirrors
  <2>1. MirrorsSlots(s, x)
    BY DEF Sound, Mirrors
  <2>2. /\ V.heap[x].addresses = s.heap[x].addresses
        /\ V.heap[x].Faces = s.heap[x].Faces
    BY <1>11
  <2>3. \A y \in s.heap[x].addresses : V.addressTable[y] = s.addressTable[y]
    BY <1>6, <1>10, <1>12
  <2>4. QED BY <2>1, <2>2, <2>3 DEF MirrorsSlots
<1>16. RowsWithin(V, s.order)
  BY <1>2, <1>10 DEF RowsWithin
<1>17. Typed(V) /\ Steady(V, T) /\ T.order = O /\ RowsWithin(T, O)
  BY <1>9, <1>10, <1>16, RemoveSteady DEF Yields
<1> HIDE DEF T
<1>18. Groups(T, O, m) /\ Slots(T, Address) /\ Mirrors(T, O \ {d})
  BY <1>10, <1>13, <1>14, <1>15, <1>17, SteadyKeeps
<1>19. T.entries = m
  BY <1>10, <1>17 DEF Steady
<1>20. QED BY <1>1, <1>3, <1>8, <1>17, <1>18, <1>19 DEF MirrorsBut

-----------------------------------------------------------------------------
\* registerLocked

\* Nothing entries e and d know of serial, MAC or model contradicts the other
\* (registry_alias.go:286-357).
Corroborates(s, e, d) ==
  /\ CanMergeIdentity(s.heap[e].info, s.heap[d].info)
  /\ ~ HasConflictingModelSignature(s.heap[e].info, s.heap[d].info)

\* An address other than a changes entry only with the whole group of a, into
\* an entry that corroborates theirs.
MovesTogether(s, t, a) ==
  \A x \in Address \ {a} :
     \/ t.entries[x] = s.entries[x]
     \/ /\ s.entries[x] = s.entries[a] /\ s.entries[a] # Nil
        /\ t.entries[x] \in s.order
        /\ Corroborates(s, s.entries[x], t.entries[x])
        /\ \A y \in Address : s.entries[y] = s.entries[x] => t.entries[y] = t.entries[x]

\* Two infos that may be merged may be merged either way (registry_alias.go:286-357).
LEMMA CorroborationIsSymmetric ==
  ASSUME NEW x, NEW y, CanMergeIdentity(x, y), ~ HasConflictingModelSignature(x, y)
  PROVE  CanMergeIdentity(y, x) /\ ~ HasConflictingModelSignature(y, x)
BY DEF CanMergeIdentity, HasConflictingModelSignature, DifferIn, Differ

\* The group the address belonged to is merged into the selected entry, or goes
\* on without the address (registry_registration.go:115-123).
LEMMA LeaveGroupSound ==
  ASSUME NEW s, Typed(s), Sound(s), NEW a \in Address, NEW o, NEW i, NEW e,
         e # Nil => e \in s.order, i # Nil => e # Nil,
         NEW heir \in Address, GoodHeir(s, a, heir)
  PROVE  LET t == LeaveGroup(s, a, o, i, e, heir)
         IN  /\ Groups(t, t.order, t.entries) /\ Slots(t, Address)
             /\ MirrorsBut(t, e) /\ RowsWithin(t, t.order)
             /\ t.entries[a] \in {Nil, e}
             /\ t.order \subseteq s.order
             /\ e # Nil => e \in t.order
             /\ MovesTogether(s, t, a)
<1> DEFINE d == s.entries[a]
           D == DetachAddressLocked(s, d, a, heir)
           M == MergeRegisteredAliasesLocked(s, e, d)
<1>1. d # Nil => d \in s.order
  BY DEF Sound, Groups
<1>2. LeaveGroup(s, a, o, i, e, heir) =
        CASE d \in {Nil, e} -> s
          [] d \notin {Nil, e} /\ i # Nil /\ MergesInto(s, o, e, d) -> M
          [] OTHER -> D
  BY DEF LeaveGroup
<1>3. CASE d \in {Nil, e}
  BY <1>2, <1>3 DEF Sound, Mirrors, MirrorsBut, MovesTogether
<1>4. CASE d \notin {Nil, e} /\ i # Nil /\ MergesInto(s, o, e, d)
  <2>1. e \in s.order /\ d \in s.order /\ e # d /\ e # Nil
    BY <1>1, <1>4
  <2> HIDE DEF d
  <2>2. /\ Groups(M, M.order, M.entries) /\ Slots(M, Address)
        /\ MirrorsBut(M, e) /\ RowsWithin(M, M.order)
        /\ \A x \in Address : M.entries[x] = IF s.entries[x] = d THEN e ELSE s.entries[x]
        /\ M.order = s.order \ {d}
    BY <2>1, MergeRegisteredSound
  <2> HIDE DEF M
  <2>3. Corroborates(s, d, e)
    BY <1>4, CorroborationIsSymmetric
    DEF MergesInto, CompatibleAliasEnrichment, Corroborates
  <2>4. MovesTogether(s, M, a)
    BY <1>4, <2>1, <2>2, <2>3 DEF MovesTogether, d
  <2>5. QED BY <1>2, <1>4, <2>1, <2>2, <2>4 DEF d
<1>5. CASE d \notin {Nil, e} /\ ~ (i # Nil /\ MergesInto(s, o, e, d))
  <2>1. /\ Sound(D)
        /\ D.entries = [s.entries EXCEPT ![a] = Nil]
        /\ D.order \subseteq s.order /\ s.order \ {d} \subseteq D.order
    BY <1>5, DetachSound
  <2> HIDE DEF D
  <2>2. D.entries[a] = Nil /\ \A x \in Address \ {a} : D.entries[x] = s.entries[x]
    BY <2>1 DEF Typed, RegistryState
  <2>3. MovesTogether(s, D, a)
    BY <2>2 DEF MovesTogether
  <2>4. MirrorsBut(D, e)
    BY <2>1 DEF Sound, Mirrors, MirrorsBut
  <2>5. QED BY <1>2, <1>5, <2>1, <2>2, <2>3, <2>4 DEF Sound
<1>6. QED BY <1>3, <1>4, <1>5

\* The address map once a resolves to e.
Resolving(s, a, e) == [s.entries EXCEPT ![a] = e]

\* The entry an address joins.
EntryFor(e, fresh) == IF e = Nil THEN fresh ELSE e

\* A new entry, or a selected one, has the address in its list before the
\* address resolves to it (registry_registration.go:125-133).
LEMMA JoinEntrySound ==
  ASSUME NEW s, Typed(s), Groups(s, s.order, s.entries), NEW e,
         e # Nil => e \in s.order, MirrorsBut(s, e), RowsWithin(s, s.order),
         NEW a \in Address, s.entries[a] \in {Nil, e}, NEW fresh \in EntryId \ s.order
  PROVE  LET t == JoinEntry(s, a, e, fresh)
             r == EntryFor(e, fresh)
         IN  /\ Groups(t, t.order, Resolving(s, a, r))
             /\ MirrorsBut(t, r) /\ RowsWithin(t, t.order)
             /\ t.entries = s.entries /\ t.addressTable = s.addressTable
             /\ t.order = s.order \union {r}
<1> DEFINE t == JoinEntry(s, a, e, fresh)
           r == EntryFor(e, fresh)
           m == Resolving(s, a, r)
           Ad == IF e = Nil THEN {a} ELSE s.heap[e].addresses \union {a}
           pr == IF e = Nil THEN a ELSE s.heap[e].primaryAddress
<1> USE DEF EntryFor
<1>1. /\ e # Nil => Points(s, e)
      /\ s.order \subseteq EntryId
      /\ Nil \notin s.order /\ fresh # Nil
  BY NullAssumption DEF Typed, PointersType, RegistryState
<1>2. /\ m[a] = r /\ \A x \in Address \ {a} : m[x] = s.entries[x]
  BY DEF Resolving, Typed, RegistryState
<1>3. /\ t.entries = s.entries /\ t.addressTable = s.addressTable /\ t.identity = s.identity
      /\ t.order = s.order \union {r}
      /\ t.heap[r].addresses = Ad /\ t.heap[r].primaryAddress = pr
      /\ \A d \in EntryId \ {r} : t.heap[d] = s.heap[d]
  <2>1. CASE e = Nil
    BY <2>1 DEF JoinEntry, NewEntry, Typed, RegistryState
  <2>2. CASE e # Nil
    BY <1>1, <2>2 DEF JoinEntry, Typed, RegistryState, Points, DeviceEntry
  <2>3. QED BY <2>1, <2>2
<1>4. /\ pr \in Ad /\ a \in Ad
      /\ \A x \in Ad : x = a \/ (e # Nil /\ x \in s.heap[e].addresses)
      /\ e # Nil => s.heap[e].addresses \subseteq Ad
  BY DEF Groups
<1>5. \A d \in s.order : \A x \in s.heap[d].addresses : x \in Address /\ s.entries[x] = d
  BY DEF Groups, Typed, PointersType, Points, DeviceEntry
<1>6. \A d \in s.order \ {r} : a \notin s.heap[d].addresses
  BY <1>1, <1>5
<1>7. r # Nil /\ r \in EntryId /\ (e # Nil => r = e) /\ (e = Nil => r \notin s.order)
  BY <1>1
<1> HIDE DEF t, r, m, Ad, pr
<1>8. \A d \in s.order \ {r} : d \in EntryId /\ t.heap[d] = s.heap[d]
  BY <1>1, <1>3
<1>9. Groups(t, t.order, m)
  <2>1. \A x \in Address : m[x] # Nil => m[x] \in t.order /\ x \in t.heap[m[x]].addresses
    <3> SUFFICES ASSUME NEW x \in Address, m[x] # Nil
                 PROVE  m[x] \in t.order /\ x \in t.heap[m[x]].addresses
      OBVIOUS
    <3>1. CASE x = a
      BY <1>2, <1>3, <1>4, <3>1
    <3>2. CASE x # a
      <4>1. m[x] = s.entries[x] /\ m[x] \in s.order /\ x \in s.heap[m[x]].addresses
        BY <1>2, <3>2 DEF Groups
      <4>2. CASE m[x] = r
        BY <1>3, <1>4, <1>7, <4>1, <4>2
      <4>3. CASE m[x] # r
        BY <1>3, <1>8, <4>1, <4>3
      <4>4. QED BY <4>2, <4>3
    <3>3. QED BY <3>1, <3>2
  <2>2. \A d \in t.order : t.heap[d].primaryAddress \in t.heap[d].addresses
    BY <1>3, <1>4, <1>8 DEF Groups
  <2>3. \A d \in t.order \ {r} : \A x \in t.heap[d].addresses : m[x] = d
    BY <1>2, <1>3, <1>5, <1>6, <1>8
  <2>4. \A x \in t.heap[r].addresses : m[x] = r
    BY <1>2, <1>3, <1>4, <1>5, <1>7
  <2>5. QED BY <2>1, <2>2, <2>3, <2>4 DEF Groups
<1>10. MirrorsBut(t, r)
  <2>1. \A d \in t.order \ {r} : d \in s.order \ {r} /\ d \in s.order \ {e}
    BY <1>1, <1>3, <1>7
  <2>2. QED BY <1>3, <1>8, <2>1 DEF MirrorsBut, Mirrors, MirrorsSlots
<1>11. RowsWithin(t, t.order)
  BY <1>3 DEF RowsWithin
<1>12. QED BY <1>3, <1>9, <1>10, <1>11 DEF t, r, m

\* registerLocked from the stored info on: the address resolves to its entry,
\* and its slot is attached later (registry_registration.go:135-206).
LEMMA StoreSound ==
  ASSUME NEW before, NEW s, Typed(s), NEW a \in Address, NEW o \in Observation,
         NEW e \in s.order, NEW keepID,
         Groups(s, s.order, Resolving(s, a, e)), Slots(s, Address),
         MirrorsBut(s, e), RowsWithin(s, s.order)
  PROVE  LET t == Store(before, s, a, o, e, keepID)
         IN  /\ Groups(t, t.order, t.entries) /\ SlotsBut(t, a)
             /\ MirrorsBut(t, e) /\ RowsWithin(t, t.order)
             /\ t.entries = Resolving(s, a, e)
             /\ t.order = s.order
<1> DEFINE info == StoredInfo(o, s.heap[e], keepID)
           k == AuthorityKey(before, o, s.heap[e])
           m == Resolving(s, a, e)
           Ne == Rebuilt(s.heap[e], info, Matched(s, info))
           U == [s EXCEPT !.heap[e] = Ne]
           V == PublishCurrentIdentityBindingLocked(U, e, k)
           T == [V EXCEPT !.entries[a] = e]
<1>1. Points(s, e) /\ e \in EntryId
  BY DEF Typed, PointersType, Points
<1>2. info \in DeviceInfo /\ k \in IdentityKey \union {NoKey}
  BY <1>1, StoredInfoType, AuthorityKeyType, ObservationAssumption DEF Points
<1>3. Matched(s, info) \in SUBSET Provider
  BY DEF Matched, Typed, RegistryState
<1>4. Store(before, s, a, o, e, keepID) = T
  BY <1>1 DEF Store, StoreInfo, Points, Typed, RegistryState
<1> HIDE DEF k
<1>5. /\ Ne.primaryAddress = s.heap[e].primaryAddress
      /\ Ne.addresses = s.heap[e].addresses
      /\ Ne.Faces = s.heap[e].Faces
  BY <1>1 DEF Rebuilt, Points, DeviceEntry
<1> HIDE DEF info
<1>6. Ne \in DeviceEntry
  BY <1>1, <1>2, <1>3, RebuiltType DEF Points
<1> HIDE DEF Ne
<1>7. Typed(U) /\ Points(U, e)
  BY <1>1, <1>6, WriteEntryYields DEF Yields
<1>8. Steady(s, U) /\ U.order = s.order /\ RowsWithin(U, s.order)
  BY <1>1, <1>5, WriteSteady
<1> HIDE DEF U
<1>9. Steady(U, V) /\ V.order = s.order /\ RowsWithin(V, s.order) /\ Typed(V)
  BY <1>2, <1>7, <1>8, PublishSteady, PublishYields DEF Yields
<1> HIDE DEF V
<1>10. Groups(U, s.order, m) /\ Slots(U, Address) /\ Mirrors(U, s.order \ {e})
  BY <1>8, SteadyKeeps DEF MirrorsBut
<1>11. Groups(V, s.order, m) /\ Slots(V, Address) /\ Mirrors(V, s.order \ {e})
  BY <1>7, <1>8, <1>9, <1>10, SteadyKeeps
<1>12. V.entries = s.entries
  BY <1>8, <1>9 DEF Steady
<1>13. /\ T.entries = m /\ T.addressTable = V.addressTable /\ T.order = s.order
       /\ T.identity = V.identity /\ T.heap = V.heap
  BY <1>9, <1>12 DEF Resolving, Typed, RegistryState
<1>14. \A x \in Address \ {a} : T.entries[x] = V.entries[x]
  BY <1>12, <1>13 DEF Resolving, Typed, RegistryState
<1> HIDE DEF T
<1>15. Groups(T, s.order, m) /\ Mirrors(T, s.order \ {e}) /\ RowsWithin(T, s.order)
  BY <1>9, <1>11, <1>13 DEF Groups, Mirrors, MirrorsSlots, RowsWithin
<1>16. Slots(T, Address \ {a})
  BY <1>11, <1>13, <1>14 DEF Slots
<1>17. QED BY <1>4, <1>13, <1>15, <1>16 DEF SlotsBut, MirrorsBut

\* What registerLocked leaves for its callers: the address resolves to an entry
\* whose faces, and the address's slot, they still have to write.
Registered(s, t, a) ==
  /\ Groups(t, t.order, t.entries) /\ SlotsBut(t, a)
  /\ t.entries[a] \in t.order
  /\ MirrorsBut(t, t.entries[a]) /\ RowsWithin(t, t.order)
  /\ MovesTogether(s, t, a)

\* The address moves last (registry_registration.go:205).
LEMMA MovesTogetherWithAddress ==
  ASSUME NEW s, NEW t, NEW a \in Address, MovesTogether(s, t, a), Nil \notin s.order,
         NEW e, t.entries[a] \in {Nil, e},
         NEW u, u.entries[a] = e, \A x \in Address \ {a} : u.entries[x] = t.entries[x]
  PROVE  MovesTogether(s, u, a)
BY DEF MovesTogether

\* registerLocked (registry_registration.go:66-209).
LEMMA RegisterLockedSound ==
  ASSUME NEW s, Typed(s), Sound(s), NEW a \in Address, NEW o \in Observation,
         NEW fresh \in EntryId \ s.order, NEW heir \in Address, GoodHeir(s, a, heir)
  PROVE  Registered(s, RegisterLocked(s, a, o, fresh, heir), a)
<1> DEFINE i == ExistingByIdentity(s, o)
           e == SelectEntry(s, a, o, i)
           r == EntryFor(e, fresh)
           U == DropStaleIdentity(s, IncomingKey[o])
           V == LeaveGroup(U, a, o, i, e, heir)
           W == JoinEntry(V, a, e, fresh)
           X == Store(s, W, a, o, r, i \notin {Nil, s.entries[a]})
<1>1. RegisterLocked(s, a, o, fresh, heir) = X
  BY DEF RegisterLocked, RegisterAdmitted, RegisterInto, EntryFor
<1>2. i # Nil => i \in s.order
  BY IncomingKeyType
  DEF ExistingByIdentity, Admitted, CurrentIdentityEntry, Sound, RowsWithin
<1>3. e # Nil => e \in s.order
  BY <1>2 DEF SelectEntry, Retained, Sound, Groups
<1>4. i # Nil => e # Nil
  BY SelectedByIdentity
<1>5. Yields(s, U) /\ Steady(s, U) /\ U.order = s.order /\ U.heap = s.heap
      /\ RowsWithin(U, s.order)
  BY IncomingKeyType, DropStaleYields, DropStaleSteady DEF Sound
<1> HIDE DEF U, i, e
<1>6. Typed(U) /\ U.entries = s.entries
  BY <1>5 DEF Yields, Steady
<1>7. Sound(U)
  BY <1>5, <1>6, SteadyKeeps DEF Sound
<1>8. GoodHeir(U, a, heir)
  BY <1>5, <1>6 DEF GoodHeir
<1>9. /\ Groups(V, V.order, V.entries) /\ Slots(V, Address)
      /\ MirrorsBut(V, e) /\ RowsWithin(V, V.order)
      /\ V.entries[a] \in {Nil, e}
      /\ V.order \subseteq s.order
      /\ e # Nil => e \in V.order
      /\ MovesTogether(U, V, a)
  BY <1>3, <1>4, <1>5, <1>6, <1>7, <1>8, LeaveGroupSound
<1>10. MovesTogether(s, V, a)
  BY <1>5, <1>6, <1>9 DEF MovesTogether, Corroborates
<1>11. /\ Points(U, i) \/ i = Nil
       /\ Points(U, e) \/ e = Nil
  BY <1>2, <1>3, <1>5, <1>6 DEF Typed, PointersType
<1>12. Typed(V)
  BY <1>4, <1>6, <1>11, LeaveGroupYields DEF Yields
<1> HIDE DEF V
<1>13. fresh \in EntryId /\ fresh \notin V.order
  BY <1>9
<1>14. /\ Groups(W, W.order, Resolving(V, a, r))
       /\ MirrorsBut(W, r) /\ RowsWithin(W, W.order)
       /\ W.entries = V.entries /\ W.addressTable = V.addressTable
       /\ W.order = V.order \union {r}
  BY <1>9, <1>12, <1>13, JoinEntrySound
<1>15. Typed(W)
  <2>1. e # Nil => Points(V, e)
    BY <1>9, <1>12 DEF Typed, PointersType
  <2>2. QED BY <1>12, <1>13, <2>1, JoinEntryYields DEF Yields
<1> HIDE DEF W
<1>16. Slots(W, Address) /\ r \in W.order
  BY <1>9, <1>14 DEF Slots
<1>17. V.entries[a] \in {Nil, r}
  BY <1>9 DEF EntryFor
<1> HIDE DEF r
<1>18. /\ Groups(X, X.order, X.entries) /\ SlotsBut(X, a)
       /\ MirrorsBut(X, r) /\ RowsWithin(X, X.order)
       /\ X.entries = Resolving(W, a, r)
       /\ X.order = W.order
  <2>1. Groups(W, W.order, Resolving(W, a, r))
    BY <1>14 DEF Resolving
  <2>2. MirrorsBut(W, r) /\ RowsWithin(W, W.order)
    BY <1>14
  <2> DEFINE keepID == i \notin {Nil, s.entries[a]}
  <2> HIDE DEF keepID
  <2>3. X = Store(s, W, a, o, r, keepID)
    BY DEF keepID
  <2> HIDE DEF X
  <2>4. QED BY <1>15, <1>16, <2>1, <2>2, <2>3, StoreSound
<1> HIDE DEF X
<1>19. X.entries[a] = r /\ \A x \in Address \ {a} : X.entries[x] = V.entries[x]
  BY <1>12, <1>14, <1>18 DEF Resolving, Typed, RegistryState
<1>20. MovesTogether(s, X, a)
  BY <1>10, <1>17, <1>19, NullAssumption, MovesTogetherWithAddress, SMTT(20) DEF Typed, RegistryState
<1>21. QED BY <1>1, <1>16, <1>18, <1>19, <1>20 DEF Registered

-----------------------------------------------------------------------------
\* Slots and faces after registerLocked

\* Sound but for the faces of e, which are about to be copied.
SoundBut(s, e) ==
  /\ Groups(s, s.order, s.entries) /\ Slots(s, Address)
  /\ MirrorsBut(s, e) /\ RowsWithin(s, s.order)

\* t has the groups of s.
SameGroups(s, t) == t.entries = s.entries /\ t.order = s.order

\* Whatever follows may dirty any one entry (no single line of the code).
LEMMA SoundIsSoundBut ==
  ASSUME NEW s, Sound(s), NEW e
  PROVE  SoundBut(s, e)
BY DEF Sound, SoundBut, Mirrors, MirrorsBut

\* The copy of the faces is what is missing (registry_scan.go:139).
LEMMA SyncSound ==
  ASSUME NEW s, Typed(s), NEW e \in s.order, SoundBut(s, e)
  PROVE  Sound(SyncEntryFacesLocked(s, e)) /\ SameGroups(s, SyncEntryFacesLocked(s, e))
<1>1. e # Nil /\ Points(s, e)
  BY NullAssumption DEF Typed, PointersType, Points
<1>2. Settled(s, e)
  <2>1. \A x \in s.heap[e].addresses : x \in Address /\ s.entries[x] = e
    BY <1>1 DEF SoundBut, Groups, Points, DeviceEntry
  <2>2. QED BY <1>1, <2>1 DEF SoundBut, Slots, Settled
<1> DEFINE m == s.entries
           O == s.order
           X == Address
           t == SyncEntryFacesLocked(s, e)
<1>3. Groups(s, O, m) /\ Mirrors(s, O \ {e}) /\ Slots(s, X) /\ RowsWithin(s, O)
  BY DEF SoundBut, MirrorsBut
<1>4. O \subseteq s.order /\ e \in O
  OBVIOUS
<1> HIDE DEF m, O, X, t
<1>5. /\ Groups(t, O, m) /\ Mirrors(t, O) /\ Slots(t, X) /\ RowsWithin(t, O)
      /\ t.entries = s.entries /\ t.order = s.order
  BY <1>1, <1>2, <1>3, <1>4, SyncKeeps DEF t
<1>6. QED BY <1>5 DEF t, m, O, X, Sound, SameGroups

\* A slot is written whose Device is what the address resolves to
\* (registry_scan.go:10, 118).
LEMMA SetSlotSound ==
  ASSUME NEW s, Typed(s), NEW a \in Address, NEW e, s.entries[a] = e,
         Groups(s, s.order, s.entries), SlotsBut(s, a), MirrorsBut(s, e),
         RowsWithin(s, s.order), NEW slot \in AddressSlot, slot.Device = e
  PROVE  SoundBut(SetSlot(s, a, slot), e) /\ SameGroups(s, SetSlot(s, a, slot))
<1> DEFINE t == SetSlot(s, a, slot)
<1>1. /\ t.entries = s.entries /\ t.order = s.order /\ t.identity = s.identity
      /\ t.heap = s.heap /\ t.addressTable[a] = slot
      /\ \A x \in Address \ {a} : t.addressTable[x] = s.addressTable[x]
  BY DEF SetSlot, Typed, RegistryState
<1> HIDE DEF t
<1>2. Groups(t, t.order, t.entries) /\ RowsWithin(t, t.order)
  BY <1>1 DEF Groups, RowsWithin
<1>3. Slots(t, Address)
  BY <1>1, NullAssumption DEF SlotsBut, Slots
<1>4. MirrorsBut(t, e)
  <2> SUFFICES ASSUME NEW d \in s.order, d # e PROVE MirrorsSlots(t, d)
    BY <1>1 DEF MirrorsBut, Mirrors
  <2>1. \A x \in s.heap[d].addresses : x \in Address \ {a}
    BY DEF Groups, Typed, PointersType, Points, DeviceEntry
  <2>2. QED BY <1>1, <2>1 DEF MirrorsBut, Mirrors, MirrorsSlots
<1>5. QED BY <1>1, <1>2, <1>3, <1>4 DEF SoundBut, SameGroups, t

\* Only slots of e are confirmed (registry_registration.go:242-283).
LEMMA ConfirmTopologySound ==
  ASSUME NEW s, Typed(s), NEW a \in Address, NEW e \in s.order, SoundBut(s, e)
  PROVE  LET t == ConfirmTopologyIdentitySlotsLocked(s, a, e)
         IN  SoundBut(t, e) /\ SameGroups(s, t)
<1> DEFINE Co(x) == [SlotFor(s, x) EXCEPT !.VerificationState = AtLeast(@, IdentityConfirmed)]
           t == ConfirmTopologyIdentitySlotsLocked(s, a, e)
<1>1. /\ t.entries = s.entries /\ t.order = s.order /\ t.identity = s.identity
      /\ t.heap = s.heap
      /\ \A x \in Address : t.addressTable[x] = IF x \in Joined(s, a, e) THEN Co(x)
                                                ELSE s.addressTable[x]
  BY DEF ConfirmTopologyIdentitySlotsLocked, Typed, RegistryState
<1>2. \A x \in Joined(s, a, e) : x \in Address /\ s.entries[x] = e
  BY DEF Joined
<1>3. \A x \in Address : Co(x) # NoSlot /\ Co(x).Device = SlotFor(s, x).Device
  <2> TAKE x \in Address
  <2>1. SlotFor(s, x) \in AddressSlot
    BY SlotForType
  <2>2. Co(x) \in AddressSlot /\ Co(x).Device = SlotFor(s, x).Device
    BY <2>1 DEF AddressSlot, VerificationState, IdentityConfirmed, AtLeast
  <2>3. QED BY <2>2, NullAssumption
<1> HIDE DEF t, Co
<1>4. e # Nil
  BY NullAssumption DEF Typed, PointersType, Points
<1>5. Groups(t, t.order, t.entries) /\ RowsWithin(t, t.order)
  BY <1>1 DEF SoundBut, Groups, RowsWithin
<1>6. Slots(t, Address)
  <2>1. \A x \in Joined(s, a, e) : SlotFor(s, x).Device = e
    BY <1>2, <1>4 DEF SoundBut, Slots, SlotFor, EnsureSlot
  <2>2. QED BY <1>1, <1>2, <1>3, <2>1 DEF SoundBut, Slots
<1>7. MirrorsBut(t, e)
  <2> SUFFICES ASSUME NEW d \in s.order, d # e PROVE MirrorsSlots(t, d)
    BY <1>1 DEF MirrorsBut, Mirrors
  <2>1. \A x \in s.heap[d].addresses : x \in Address /\ x \notin Joined(s, a, e)
    BY <1>2 DEF SoundBut, Groups, Typed, PointersType, Points, DeviceEntry
  <2>2. QED BY <1>1, <2>1 DEF SoundBut, MirrorsBut, Mirrors, MirrorsSlots
<1>8. QED BY <1>1, <1>5, <1>6, <1>7 DEF SoundBut, SameGroups, t

\* A slot is marked and its entry refreshed (registry_scan.go:42-50,
\* registry_registration.go:309-314).
LEMMA StampedSlotSound ==
  ASSUME NEW s, Typed(s), Sound(s), NEW a \in Address, NEW source \in DiscoverySource,
         NEW floor \in VerificationState, NEW role \in SlotRole
  PROVE  LET t == SyncIfAttached(SetSlot(s, a, Stamp(SlotFor(s, a), source, floor, role)), a)
         IN  Sound(t) /\ SameGroups(s, t)
<1> DEFINE slot == Stamp(SlotFor(s, a), source, floor, role)
           U == SetSlot(s, a, slot)
           e == s.entries[a]
<1>1. slot \in AddressSlot /\ slot.Device = SlotFor(s, a).Device
  BY SlotForType, StampType
<1>2. SlotFor(s, a).Device = e
  BY DEF Sound, Slots, SlotFor, EnsureSlot, EmptySlot
<1>3. e # Nil => e \in s.order /\ Points(s, e)
  BY DEF Sound, Groups, Typed, PointersType
<1>4. SlotsBut(s, a) /\ MirrorsBut(s, e)
  BY SoundIsSoundBut DEF Sound, SoundBut, SlotsBut, Slots
<1>5. Typed(U) /\ U.addressTable[a] = slot
  BY <1>1, <1>2, <1>3, SetSlotMarks DEF Marks, Yields
<1> HIDE DEF slot
<1>6. SoundBut(U, e) /\ SameGroups(s, U)
  BY <1>1, <1>2, <1>4, SetSlotSound DEF Sound
<1>7. U.addressTable[a].Device = e
  BY <1>1, <1>2, <1>5
<1> HIDE DEF U
<1>8. CASE e = Nil
  <2>1. Nil \notin U.order
    BY <1>5, NullAssumption DEF Typed, PointersType, Points
  <2>2. Sound(U)
    BY <1>6, <1>8, <2>1 DEF SoundBut, Sound, MirrorsBut, Mirrors
  <2>3. QED BY <1>6, <1>7, <1>8, <2>2 DEF SyncIfAttached, U, slot
<1>9. CASE e # Nil
  <2>1. e \in U.order
    BY <1>3, <1>6, <1>9 DEF SameGroups
  <2>2. Sound(SyncEntryFacesLocked(U, e)) /\ SameGroups(U, SyncEntryFacesLocked(U, e))
    BY <1>5, <1>6, <2>1, SyncSound
  <2>3. SyncIfAttached(U, a) = SyncEntryFacesLocked(U, e)
    BY <1>7, <1>9 DEF SyncIfAttached
  <2>4. QED BY <1>6, <2>2, <2>3 DEF SameGroups, U, slot
<1>10. QED BY <1>8, <1>9

-----------------------------------------------------------------------------
\* AliasAddresses

\* A slot made for an address is empty, and the address resolves to nothing
\* (registry_alias.go:137-138).
LEMMA EnsuredSound ==
  ASSUME NEW s, Typed(s), Sound(s), NEW A \in SUBSET Address
  PROVE  LET t == Ensured(s, A)
         IN  /\ Sound(t) /\ SameGroups(s, t) /\ t.heap = s.heap
             /\ \A x \in Address : s.addressTable[x] # NoSlot =>
                   t.addressTable[x] = s.addressTable[x]
<1> DEFINE t == Ensured(s, A)
<1>1. /\ t.entries = s.entries /\ t.order = s.order /\ t.identity = s.identity
      /\ t.heap = s.heap
      /\ \A x \in Address : t.addressTable[x] = IF x \in A THEN SlotFor(s, x)
                                                ELSE s.addressTable[x]
  BY DEF Ensured, Typed, RegistryState
<1>2. \A x \in Address : /\ SlotFor(s, x) # NoSlot
                         /\ s.addressTable[x] # NoSlot => SlotFor(s, x) = s.addressTable[x]
                         /\ s.addressTable[x] = NoSlot => SlotFor(s, x).Device = Nil
  BY SlotForType, NullAssumption DEF SlotFor, EnsureSlot, EmptySlot
<1> HIDE DEF t
<1>3. \A x \in Address : s.addressTable[x] # NoSlot => t.addressTable[x] = s.addressTable[x]
  BY <1>1, <1>2
<1>4. Groups(t, t.order, t.entries) /\ RowsWithin(t, t.order)
  BY <1>1 DEF Sound, Groups, RowsWithin
<1>5. Slots(t, Address)
  BY <1>1, <1>2 DEF Sound, Slots
<1>6. Mirrors(t, t.order)
  <2> SUFFICES ASSUME NEW d \in s.order PROVE MirrorsSlots(t, d)
    BY <1>1 DEF Mirrors
  <2>1. \A x \in s.heap[d].addresses : x \in Address /\ s.entries[x] = d /\ d # Nil
    BY NullAssumption DEF Sound, Groups, Typed, PointersType, Points, DeviceEntry
  <2>2. \A x \in s.heap[d].addresses : t.addressTable[x] = s.addressTable[x]
    BY <1>3, <2>1 DEF Sound, Slots
  <2>3. QED BY <1>1, <2>2 DEF Sound, Mirrors, MirrorsSlots
<1>7. QED BY <1>1, <1>3, <1>4, <1>5, <1>6 DEF Sound, SameGroups, t

\* The merge of a removed entry moves no address (registry_alias.go:203-220).
LEMMA MergeRemovedSteady ==
  ASSUME NEW s, Typed(s), NEW d \in s.order, NEW e, Points(s, e), d # e,
         RowsWithin(s, s.order)
  PROVE  LET t == MergeRemovedAliasEntryLocked(s, d, e)
         IN  /\ Steady(s, t)
             /\ t.order = s.order \ {e}
             /\ RowsWithin(t, t.order)
<1> DEFINE A == AbsorbIdentityLocked(s, d, e)
           U == RemoveIdentityBindingsLocked(A, e)
           ph == CanonicalPhysicalIdentity(U.heap[d].info)
           Ne == [U.heap[d] EXCEPT !.physical = ph]
           V == [U EXCEPT !.heap[d] = Ne]
           k == MergedAuthority(U, d, e, ph)
           W == PublishCurrentIdentityBindingLocked(V, d, k)
           T == [W EXCEPT !.order = @ \ {e}]
           O == s.order \ {e}
<1>1. Points(s, d)
  BY DEF Typed, PointersType
<1>2. Yields(s, A) /\ Steady(s, A) /\ A.order = s.order /\ RowsWithin(A, s.order)
  BY <1>1, AbsorbYields, AbsorbSteady
<1> HIDE DEF A
<1>3. Yields(A, U) /\ Steady(A, U) /\ U.order = s.order /\ RowsWithin(U, O)
  BY <1>2, RemoveYields, RemoveSteady DEF Yields
<1>4. Yields(s, U) /\ Steady(s, U)
  BY <1>2, <1>3, YieldsTransitive, SteadyTransitive
<1>5. Typed(U) /\ Points(U, d) /\ Points(U, e)
  BY <1>1, <1>4 DEF Yields, Points
<1>6. MergeRemovedAliasEntryLocked(s, d, e) = T
  BY <1>5 DEF MergeRemovedAliasEntryLocked, RebuildPhysical, WithPhysical, Typed,
              RegistryState, Points, A
<1> HIDE DEF U
<1>7. ph \in PhysicalIdentity
  BY <1>5, CanonicalType DEF Points, DeviceEntry
<1>8. k \in IdentityKey \union {NoKey}
  BY <1>5 DEF MergedAuthority, Points, DeviceEntry
<1> HIDE DEF ph, k
<1>9. /\ Ne \in DeviceEntry
      /\ Ne.primaryAddress = U.heap[d].primaryAddress
      /\ Ne.addresses = U.heap[d].addresses
      /\ Ne.Faces = U.heap[d].Faces
  BY <1>5, <1>7 DEF Points, DeviceEntry
<1> HIDE DEF Ne, O
<1>10. /\ Yields(U, V) /\ Points(V, d) /\ Typed(V)
       /\ Steady(U, V) /\ V.order = s.order /\ RowsWithin(V, O)
  BY <1>3, <1>5, <1>9, WriteEntryYields, WriteSteady DEF Points, Yields
<1>11. d \in O
  BY DEF O
<1> HIDE DEF V
<1>12. /\ Yields(V, W) /\ Steady(V, W) /\ W.order = s.order /\ RowsWithin(W, O)
  BY <1>8, <1>10, <1>11, PublishYields, PublishSteady
<1> HIDE DEF W
<1>13. Steady(s, W) /\ Typed(W) /\ Yields(s, W)
  BY <1>4, <1>10, <1>12, YieldsTransitive, SteadyTransitive DEF Yields
<1>14. Steady(W, T) /\ T.order = O /\ T.identity = W.identity
  BY <1>12, <1>13, LeaveOrderSteady DEF O
<1> HIDE DEF T
<1>15. Steady(s, T)
  BY <1>13, <1>14, SteadyTransitive
<1>16. RowsWithin(T, O)
  BY <1>12, <1>14 DEF RowsWithin
<1>17. QED BY <1>6, <1>14, <1>15, <1>16 DEF O

\* The group the address is taken from disappears or survives without it
\* (registry_alias.go:143-162).
LEMMA LeaveSecondarySound ==
  ASSUME NEW s, Typed(s), Sound(s), NEW d \in s.order, NEW a \in Address,
         NEW heir \in Address, GoodHeir(s, a, heir)
  PROVE  LET t == LeaveSecondary(s, d, a, s.entries[a], heir)
         IN  /\ \E n \in {Nil, d} : Groups(t, t.order, Resolving(t, a, n))
             /\ Slots(t, Address) /\ Mirrors(t, t.order) /\ RowsWithin(t, t.order)
             /\ t.entries = s.entries /\ t.addressTable = s.addressTable
             /\ d \in t.order
<1> DEFINE e == s.entries[a]
<1>1. CASE e \in {Nil, d}
  <2>1. LeaveSecondary(s, d, a, e, heir) = s
    BY <1>1 DEF LeaveSecondary
  <2>2. Resolving(s, a, e) = s.entries
    BY DEF Resolving, Typed, RegistryState
  <2>3. QED BY <1>1, <2>1, <2>2 DEF Sound
<1>2. CASE e \notin {Nil, d}
  <2> DEFINE Ne == WithoutAddress(s.heap[e], a, heir)
             U == [s EXCEPT !.heap[e] = Ne]
             m == Resolving(s, a, Nil)
             O == s.order \ {e}
             M == MergeRemovedAliasEntryLocked(U, d, e)
             Y == SyncEntryFacesLocked(U, e)
  <2>1. e \in s.order /\ Points(s, e) /\ e \in EntryId /\ e # Nil /\ a \in s.heap[e].addresses
    BY <1>2 DEF Sound, Groups, Typed, PointersType, Points
  <2>2. Ne \in DeviceEntry
    BY <2>1, WithoutAddressType DEF Points
  <2>3. Typed(U) /\ Points(U, e) /\ Points(U, d)
    BY <2>1, <2>2, WriteEntryYields DEF Typed, PointersType, Points, Yields
  <2>4. LeaveSecondary(s, d, a, e, heir) = IF s.heap[e].addresses = {a} THEN M ELSE Y
    BY <1>2, <2>1 DEF LeaveSecondary, Points, Typed, RegistryState
  <2>5. /\ U.entries = s.entries /\ U.addressTable = s.addressTable
        /\ U.order = s.order /\ U.identity = s.identity
        /\ U.heap[e] = Ne /\ \A x \in EntryId \ {e} : U.heap[x] = s.heap[x]
    BY <2>1 DEF Typed, RegistryState
  <2> HIDE DEF U
  <2>6. /\ Groups(U, O, m) \/ s.heap[e].addresses # {a}
        /\ Groups(U, s.order, m) \/ s.heap[e].addresses = {a}
    BY <2>1, <2>5, LeftGroups DEF Sound, Resolving
  <2>7. Slots(U, Address) /\ RowsWithin(U, U.order)
    BY <2>5 DEF Sound, Slots, RowsWithin
  <2>8. Mirrors(U, O)
    BY <2>5 DEF Sound, Mirrors, MirrorsSlots, Typed, RegistryState
  <2> HIDE DEF m, O, e
  <2>9. CASE s.heap[e].addresses = {a}
    <3>1. Steady(U, M) /\ M.order = U.order \ {e} /\ RowsWithin(M, M.order)
      BY <1>2, <2>3, <2>5, <2>7, MergeRemovedSteady
    <3> HIDE DEF M
    <3>2. O \subseteq U.order /\ M.order = O /\ d \in O
      BY <1>2, <2>5, <3>1 DEF O
    <3>3. Groups(M, O, m) /\ Slots(M, Address) /\ Mirrors(M, O)
      BY <2>3, <2>6, <2>7, <2>8, <2>9, <3>1, <3>2, SteadyKeeps
    <3>4. M.entries = s.entries /\ M.addressTable = s.addressTable
      BY <2>5, <3>1 DEF Steady
    <3>5. m = Resolving(M, a, Nil)
      BY <3>4 DEF Resolving, m
    <3>6. Groups(M, M.order, Resolving(M, a, Nil))
      BY <3>2, <3>3, <3>5
    <3>7. QED BY <2>4, <2>9, <3>1, <3>2, <3>3, <3>4, <3>6 DEF e
  <2>10. CASE s.heap[e].addresses # {a}
    <3>1. Settled(U, e)
      <4>1. U.heap[e].addresses = s.heap[e].addresses \ {a}
        BY <2>1, <2>5 DEF WithoutAddress, Points, DeviceEntry
      <4>2. \A x \in s.heap[e].addresses : x \in Address /\ s.entries[x] = e
        BY <2>1 DEF Sound, Groups, Points, DeviceEntry
      <4>3. QED BY <2>1, <2>5, <4>1, <4>2 DEF Sound, Slots, Settled
    <3> DEFINE Q == U.order
               X == Address
    <3>2. Groups(U, Q, m) /\ Mirrors(U, Q \ {e}) /\ Slots(U, X) /\ RowsWithin(U, Q)
      BY <2>5, <2>6, <2>7, <2>8, <2>10 DEF O
    <3>3. Q \subseteq U.order /\ e \in Q /\ d \in Q
      BY <2>1, <2>5
    <3> HIDE DEF Q, X
    <3>4. /\ Groups(Y, Q, m) /\ Mirrors(Y, Q) /\ Slots(Y, X) /\ RowsWithin(Y, Q)
          /\ Y.entries = U.entries /\ Y.order = U.order
      BY <2>1, <2>3, <3>1, <3>2, <3>3, SyncKeeps
    <3>5. Y.addressTable = U.addressTable
      BY <2>1, <2>3, <3>1, SyncSettled
    <3> HIDE DEF Y
    <3>6. m = Resolving(Y, a, Nil)
      BY <2>5, <3>4 DEF Resolving, m
    <3>7. Groups(Y, Y.order, Resolving(Y, a, Nil))
      BY <3>4, <3>6 DEF Q
    <3>8. QED BY <2>4, <2>5, <2>10, <3>3, <3>4, <3>5, <3>7 DEF Q, X, e
  <2>11. QED BY <2>9, <2>10
<1>3. QED BY <1>1, <1>2

\* The address joins the canonical group (registry_alias.go:163-168).
LEMMA JoinGroupSound ==
  ASSUME NEW s, Typed(s), NEW d \in s.order, NEW a \in Address, NEW n \in {Nil, d},
         Groups(s, s.order, Resolving(s, a, n)), Slots(s, Address),
         Mirrors(s, s.order), RowsWithin(s, s.order), s.addressTable[a] # NoSlot
  PROVE  LET t == JoinGroup(s, d, a)
         IN  /\ Sound(t)
             /\ t.entries[a] = d
             /\ \A x \in Address \ {a} : t.entries[x] = s.entries[x]
<1> DEFINE Sl == Attached(s.addressTable[a], d)
           Ne == [s.heap[d] EXCEPT !.addresses = @ \union {a}]
           m == Resolving(s, a, n)
           T == [s EXCEPT !.addressTable = [@ EXCEPT ![a] = Sl],
                          !.heap = [@ EXCEPT ![d] = Ne],
                          !.entries = [@ EXCEPT ![a] = d]]
<1>1. Points(s, d) /\ d \in EntryId /\ d # Nil
  BY NullAssumption DEF Typed, PointersType, Points
<1>2. Sl \in AddressSlot /\ Sl.Device = d
  BY <1>1, AttachedType DEF Typed, RegistryState
<1>3. /\ Ne \in DeviceEntry
      /\ Ne.addresses = s.heap[d].addresses \union {a}
      /\ Ne.primaryAddress = s.heap[d].primaryAddress
  BY <1>1 DEF Points, DeviceEntry
<1>4. JoinGroup(s, d, a) = SyncEntryFacesLocked(T, d)
  BY <1>1 DEF JoinGroup, Typed, RegistryState, Points
<1>5. m[a] = n /\ \A x \in Address \ {a} : m[x] = s.entries[x]
  BY DEF Resolving, Typed, RegistryState
<1> HIDE DEF Sl, Ne, m
<1>6. T \in RegistryState
  BY <1>1, <1>2, <1>3 DEF Typed, RegistryState
<1>7. \A x \in EntryId : Points(s, x) => Points(T, x)
  BY <1>1, <1>3 DEF Typed, RegistryState, Points
<1>8. PointersType(T)
  BY <1>1, <1>2, <1>7 DEF Typed, RegistryState, PointersType, Points
<1>9. /\ T.entries[a] = d /\ T.addressTable[a] = Sl
      /\ \A x \in Address \ {a} : /\ T.entries[x] = s.entries[x]
                                  /\ T.addressTable[x] = s.addressTable[x]
      /\ T.order = s.order /\ T.identity = s.identity
      /\ T.heap[d] = Ne /\ \A x \in EntryId \ {d} : T.heap[x] = s.heap[x]
  BY <1>1 DEF Typed, RegistryState
<1> HIDE DEF T
<1>10. /\ s.order \subseteq EntryId
       /\ \A e \in s.order : \A x \in s.heap[e].addresses : x \in Address /\ m[x] = e
       /\ \A e \in s.order \ {d} : a \notin s.heap[e].addresses
  <2>1. \A e \in s.order : \A x \in s.heap[e].addresses : x \in Address /\ m[x] = e
    BY DEF Groups, Typed, PointersType, Points, DeviceEntry, m
  <2>2. s.order \subseteq EntryId /\ \A e \in s.order \ {d} : e # m[a]
    BY <1>5, NullAssumption DEF Typed, PointersType, Points
  <2>3. QED BY <2>1, <2>2
<1>11. \A e \in s.order \ {d} : T.heap[e] = s.heap[e]
  BY <1>9, <1>10
<1>12. Groups(T, T.order, T.entries)
  <2>1. \A x \in Address : T.entries[x] # Nil =>
           T.entries[x] \in s.order /\ x \in T.heap[T.entries[x]].addresses
    <3> SUFFICES ASSUME NEW x \in Address, T.entries[x] # Nil
                 PROVE  T.entries[x] \in s.order /\ x \in T.heap[T.entries[x]].addresses
      OBVIOUS
    <3>1. CASE x = a
      BY <1>3, <1>9, <3>1
    <3>2. CASE x # a
      <4>1. T.entries[x] = m[x] /\ m[x] \in s.order /\ x \in s.heap[m[x]].addresses
        BY <1>5, <1>9, <3>2 DEF Groups, m
      <4>2. QED BY <1>3, <1>9, <1>11, <4>1
    <3>3. QED BY <3>1, <3>2
  <2>2. \A e \in s.order : T.heap[e].primaryAddress \in T.heap[e].addresses
    BY <1>3, <1>9, <1>11 DEF Groups
  <2>3. \A e \in s.order : \A x \in T.heap[e].addresses : T.entries[x] = e
    BY <1>3, <1>5, <1>9, <1>10, <1>11
  <2>4. QED BY <1>9, <2>1, <2>2, <2>3 DEF Groups
<1>13. Slots(T, Address)
  BY <1>2, <1>9, NullAssumption DEF Slots
<1>14. MirrorsBut(T, d)
  BY <1>9, <1>10, <1>11 DEF MirrorsBut, Mirrors, MirrorsSlots
<1>15. SoundBut(T, d) /\ Typed(T) /\ d \in T.order
  BY <1>6, <1>8, <1>9, <1>12, <1>13, <1>14 DEF SoundBut, RowsWithin, Typed
<1>16. Sound(SyncEntryFacesLocked(T, d)) /\ SameGroups(T, SyncEntryFacesLocked(T, d))
  BY <1>15, SyncSound
<1>17. QED BY <1>4, <1>9, <1>16 DEF SameGroups

\* Only a changes its entry, and resolves.
OnlyMoves(s, t, a) ==
  /\ \A x \in Address \ {a} : t.entries[x] = s.entries[x]
  /\ s.entries[a] # Nil => t.entries[a] # Nil

\* An address moves to the canonical group (registry_alias.go:141-168).
LEMMA MoveToGroupSound ==
  ASSUME NEW s, Typed(s), Sound(s), NEW d \in s.order, NEW a \in Address,
         NEW heir \in Address, GoodHeir(s, a, heir), s.addressTable[a] # NoSlot
  PROVE  LET t == MoveToGroup(s, d, a, heir)
         IN  Sound(t) /\ OnlyMoves(s, t, a) /\ t.entries[a] = d
<1> DEFINE e == s.entries[a]
           U == LeaveSecondary(s, d, a, e, heir)
           T == JoinGroup(U, d, a)
<1>1. MoveToGroup(s, d, a, heir) = T
  BY DEF MoveToGroup, Sound, Slots
<1>2. /\ \E n \in {Nil, d} : Groups(U, U.order, Resolving(U, a, n))
      /\ Slots(U, Address) /\ Mirrors(U, U.order) /\ RowsWithin(U, U.order)
      /\ U.entries = s.entries /\ U.addressTable = s.addressTable
      /\ d \in U.order
  BY LeaveSecondarySound
<1>3. Typed(U)
  <2>1. Points(s, d) /\ (e # Nil => Points(s, e))
    BY DEF Typed, PointersType
  <2>2. QED BY <2>1, LeaveSecondaryYields DEF Yields
<1> HIDE DEF U
<1>4. PICK n \in {Nil, d} : Groups(U, U.order, Resolving(U, a, n))
  BY <1>2
<1>5. U.addressTable[a] # NoSlot
  BY <1>2
<1>6. Sound(T) /\ T.entries[a] = d /\ \A x \in Address \ {a} : T.entries[x] = U.entries[x]
  BY <1>2, <1>3, <1>4, <1>5, JoinGroupSound
<1> HIDE DEF T
<1>7. d # Nil
  BY NullAssumption DEF Typed, PointersType, Points
<1>8. QED BY <1>1, <1>2, <1>6, <1>7 DEF OnlyMoves

\* The group a and b end up in (registry_alias.go:140-189).
LEMMA GroupedSound ==
  ASSUME NEW s, Typed(s), Sound(s), NEW a \in Address, NEW b \in Address,
         NEW heir \in Address, GoodHeir(s, b, heir),
         s.addressTable[a] # NoSlot, s.addressTable[b] # NoSlot
  PROVE  Sound(Grouped(s, a, b, heir)) /\ \E c \in Address : OnlyMoves(s, Grouped(s, a, b, heir), c)
<1> DEFINE da == s.entries[a]
           db == s.entries[b]
<1>1. s.addressTable[a].Device = da /\ s.addressTable[b].Device = db
  BY DEF Sound, Slots
<1>2. Grouped(s, a, b, heir) = CASE da # Nil -> MoveToGroup(s, da, b, heir)
                                 [] da = Nil /\ db # Nil -> MoveToGroup(s, db, a, heir)
                                 [] OTHER -> s
  BY <1>1 DEF Grouped
<1>3. (da # Nil => da \in s.order) /\ (db # Nil => db \in s.order)
  BY DEF Sound, Groups
<1>4. da = Nil => GoodHeir(s, a, heir)
  BY NullAssumption DEF GoodHeir, Typed, PointersType, Points
<1> HIDE DEF da, db
<1>5. CASE da # Nil
  BY <1>2, <1>3, <1>5, MoveToGroupSound
<1>6. CASE da = Nil /\ db # Nil
  BY <1>2, <1>3, <1>4, <1>6, MoveToGroupSound
<1>7. CASE da = Nil /\ db = Nil
  BY <1>2, <1>7 DEF OnlyMoves
<1>8. QED BY <1>5, <1>6, <1>7

\* AliasAddresses up to the generation (registry_alias.go:137-193).
LEMMA AliasedSound ==
  ASSUME NEW s, Typed(s), Sound(s), NEW a \in Address, NEW b \in Address,
         NEW heir \in Address, GoodHeir(s, b, heir)
  PROVE  Sound(Aliased(s, a, b, heir)) /\ \E c \in Address : OnlyMoves(s, Aliased(s, a, b, heir), c)
<1> DEFINE U == Ensured(s, {a, b})
           V == Grouped(U, a, b, heir)
           T == RecordIfJoined(V, a, b)
<1>1. Aliased(s, a, b, heir) = T
  BY DEF Aliased
<1>2. Typed(U) /\ U.addressTable[a] # NoSlot /\ U.addressTable[b] # NoSlot
  BY EnsuredYields DEF Yields
<1>3. Sound(U) /\ SameGroups(s, U) /\ U.heap = s.heap
  BY EnsuredSound
<1> HIDE DEF U
<1>4. GoodHeir(U, b, heir)
  BY <1>3 DEF GoodHeir, SameGroups
<1>5. Sound(V) /\ \E c \in Address : OnlyMoves(U, V, c)
  BY <1>2, <1>3, <1>4, GroupedSound
<1>6. Typed(V)
  BY <1>2, GroupedYields DEF Yields
<1> HIDE DEF V
<1>7. Steady(V, T) /\ T.order = V.order /\ T.identity = V.identity
  BY <1>6 DEF RecordIfJoined, RecordTopologyAliasLocked, Steady, Typed, RegistryState
<1> HIDE DEF T
<1>8. Sound(T)
  <2>1. /\ Groups(T, V.order, V.entries) /\ Slots(T, Address) /\ Mirrors(T, V.order)
    BY <1>5, <1>6, <1>7, SteadyKeeps DEF Sound
  <2>2. QED BY <1>5, <1>7, <2>1 DEF Sound, Steady, RowsWithin
<1>9. T.entries = V.entries
  BY <1>7 DEF Steady
<1>10. QED BY <1>1, <1>3, <1>5, <1>8, <1>9 DEF OnlyMoves, SameGroups

-----------------------------------------------------------------------------
\* The operations

\* t differs from s in generations, witnesses, providers and topology at most.
SameBooks(s, t) ==
  /\ t.entries = s.entries /\ t.addressTable = s.addressTable
  /\ t.order = s.order /\ t.identity = s.identity /\ t.heap = s.heap

\* The end of every operation (registry.go:111-119,
\* qualified_identity_witness.go:73-118).
LEMMA EndingsKeepBooks ==
  ASSUME NEW s, Typed(s)
  PROVE  /\ SameBooks(s, Advance(s))
         /\ SameBooks(s, ReconcileQualifiedIdentityWitnessesLocked(Advance(s)))
         /\ \A a, o, e : SameBooks(s, RecordDirectQualifiedIdentityWitnessLocked(
                ReconcileQualifiedIdentityWitnessesLocked(Advance(s)), a, o, e))
<1> DEFINE U == Advance(s)
           V == ReconcileQualifiedIdentityWitnessesLocked(U)
<1>1. Typed(U) /\ SameBooks(s, U)
  BY AdvanceType DEF Advance, SameBooks, Typed, RegistryState
<1> HIDE DEF U
<1>2. Typed(V) /\ SameBooks(s, V)
  BY <1>1, ReconcileType
  DEF ReconcileQualifiedIdentityWitnessesLocked, SameBooks, Typed, RegistryState
<1> HIDE DEF V
<1>3. \A a, o, e : SameBooks(V, RecordDirectQualifiedIdentityWitnessLocked(V, a, o, e))
  BY <1>2 DEF RecordDirectQualifiedIdentityWitnessLocked, SameBooks, Typed, RegistryState
<1>4. QED BY <1>1, <1>2, <1>3 DEF SameBooks, U, V

\* The books decide whether a registry is sound (no single line of the code).
LEMMA SameBooksSound ==
  ASSUME NEW s, Sound(s), NEW t, SameBooks(s, t)
  PROVE  Sound(t)
BY DEF Sound, SameBooks, Groups, Slots, Mirrors, MirrorsSlots, RowsWithin

\* What an operation that starts from s makes of it.
Preserves(s, t) ==
  /\ Sound(t)
  /\ \A x \in Address : s.entries[x] # Nil => t.entries[x] # Nil
  /\ \E a \in Address : MovesTogether(s, t, a)

\* nil is no entry (registry.go:84).
LEMMA NilIsNotLive ==
  ASSUME NEW s, Typed(s)
  PROVE  Nil \notin s.order
BY NullAssumption DEF Typed, PointersType, Points

\* The choice of the next primary address (registry_alias.go:380-385).
LEMMA HeirsAreGood ==
  ASSUME NEW s, Typed(s), NEW a, NEW heir \in Heirs(s, a)
  PROVE  GoodHeir(s, a, heir)
BY NilIsNotLive DEF Heirs, GoodHeir

\* A fresh pointer is no live entry's (registry_registration.go:126).
LEMMA AllocatedIsFresh ==
  ASSUME NEW s, Typed(s), EntryId # s.order
  PROVE  \A fresh \in Allocated(s) : fresh \in EntryId \ s.order
<1>1. \E e \in EntryId : e \notin s.order
  BY DEF Typed, RegistryState
<1>2. QED BY <1>1 DEF Allocated, Unused

\* No address changes entry (registry_scan.go:35-74).
LEMMA SameGroupsPreserves ==
  ASSUME NEW s, NEW t, SameGroups(s, t), NEW u, SameBooks(t, u), Sound(t)
  PROVE  Preserves(s, u)
BY SameBooksSound, AddressAssumption DEF Preserves, SameGroups, SameBooks, MovesTogether

\* The groups after registerLocked are those after the whole operation.
LEMMA RegisteredPreserves ==
  ASSUME NEW s, Typed(s), Sound(s), NEW a \in Address, NEW t, Registered(s, t, a),
         Nil \notin s.order, Nil \notin t.order,
         NEW u, Sound(u), SameGroups(t, u), NEW v, SameBooks(u, v)
  PROVE  Preserves(s, v) /\ MovesTogether(s, v, a)
<1>1. Sound(v) /\ v.entries = t.entries
  BY SameBooksSound DEF SameGroups, SameBooks
<1>2. MovesTogether(s, v, a)
  BY <1>1 DEF Registered, MovesTogether
<1>3. \A x \in Address : s.entries[x] # Nil => v.entries[x] # Nil
  BY <1>1, <1>2 DEF Registered, MovesTogether
<1>4. QED BY <1>1, <1>2, <1>3 DEF Preserves

\* The slot and the faces of a registered address are written
\* (registry_registration.go:15-22, 233-239, registry_scan.go:106-112).
LEMMA AttachSound ==
  ASSUME NEW s, NEW t, Typed(t), NEW a \in Address, Registered(s, t, a),
         NEW slot \in AddressSlot
  PROVE  LET e == t.entries[a]
             u == SetSlot(t, a, Attached(slot, e))
         IN  /\ Typed(u) /\ e \in u.order /\ Points(t, e) /\ Points(u, e)
             /\ SoundBut(u, e) /\ SameGroups(t, u)
<1> DEFINE e == t.entries[a]
           sl == Attached(slot, e)
           u == SetSlot(t, a, sl)
<1>1. e \in t.order /\ Points(t, e) /\ e \in EntryId
  BY DEF Registered, Typed, PointersType, Points
<1>2. sl \in AddressSlot /\ sl.Device = e
  BY <1>1, AttachedType
<1> HIDE DEF sl
<1>3. Yields(t, u)
  BY <1>1, <1>2, SetSlotYields
<1>4. SoundBut(u, e) /\ SameGroups(t, u)
  BY <1>2, SetSlotSound DEF Registered
<1>5. Typed(u) /\ Points(u, e) /\ e \in u.order
  BY <1>1, <1>3, <1>4 DEF Yields, Points, SameGroups
<1>6. QED BY <1>1, <1>4, <1>5 DEF sl

\* Register (registry_registration.go:5).
LEMMA RegisterPreserves ==
  ASSUME Typed(registry), Sound(registry), NEW a \in Address, NEW o \in Observation,
         Register(a, o)
  PROVE  /\ Preserves(registry, registry') /\ registry'.entries[a] # Nil
         /\ MovesTogether(registry, registry', a)
<1>1. PICK fresh \in Allocated(registry), heir \in Heirs(registry, a) :
         registry' = RegisteredActively(RegisterLocked(registry, a, o, fresh, heir), a, o)
  BY DEF Register
<1>2. fresh \in EntryId \ registry.order /\ heir \in Address
  BY AllocatedIsFresh, HeirsType DEF Register
<1> DEFINE U == RegisterLocked(registry, a, o, fresh, heir)
           e == U.entries[a]
           u(state) == ObserveAddressSlotLocked(U, a, e, state)
           V == IF IncomingKey[o] # NoKey THEN ConfirmFrom(U, a, e) ELSE u(Candidate)
           T == SyncEntryFacesLocked(V, e)
<1>3. Typed(U) /\ Points(U, e)
  BY <1>2, RegisterLockedYields DEF Yields
<1>4. Registered(registry, U, a)
  BY <1>2, HeirsAreGood, RegisterLockedSound
<1>5. registry' = RecordDirectQualifiedIdentityWitnessLocked(
                     ReconcileQualifiedIdentityWitnessesLocked(Advance(T)), a, o, e)
  BY <1>1 DEF RegisteredActively, ActivelyObserved
<1>0. U.entries[a] # Nil
  BY <1>3, NullAssumption DEF Points
<1> HIDE DEF U
<1>6. ASSUME NEW state \in VerificationState
      PROVE  /\ Typed(u(state)) /\ e \in u(state).order
             /\ SoundBut(u(state), e) /\ SameGroups(U, u(state))
  <2>1. Stamp(SlotFor(U, a), "ActiveConfirmed", state, "Unknown") \in AddressSlot
    BY <1>3, SlotForType, StampType DEF DiscoverySource, SlotRole
  <2>2. QED BY <1>3, <1>4, <2>1, AttachSound DEF ObserveAddressSlotLocked
<1>7. Typed(V) /\ e \in V.order /\ SoundBut(V, e) /\ SameGroups(U, V)
  <2>1. CASE IncomingKey[o] # NoKey
    <3> DEFINE w == u(IdentityConfirmed)
    <3>1. Typed(w) /\ e \in w.order /\ SoundBut(w, e) /\ SameGroups(U, w)
      BY <1>6, StampConstants
    <3>2. V = ConfirmTopologyIdentitySlotsLocked(w, a, e)
      BY <2>1 DEF ConfirmFrom
    <3> HIDE DEF w
    <3>3. QED BY <3>1, <3>2, ConfirmTopologySound, ConfirmTopologyYields DEF Yields, SameGroups
  <2>2. CASE IncomingKey[o] = NoKey
    BY <1>6, <2>2, StampConstants
  <2>3. QED BY <2>1, <2>2
<1> HIDE DEF V, e
<1>8. Sound(T) /\ SameGroups(V, T)
  BY <1>7, SyncSound
<1>9. Typed(T)
  BY <1>7, SyncYields DEF Typed, PointersType, Yields
<1> HIDE DEF T
<1>10. SameBooks(T, registry')
  BY <1>5, <1>9, EndingsKeepBooks
<1>11. SameGroups(U, T)
  BY <1>7, <1>8 DEF SameGroups
<1>12. registry'.entries[a] # Nil
  BY <1>0, <1>10, <1>11 DEF SameGroups, SameBooks
<1>13. QED BY <1>3, <1>4, <1>8, <1>10, <1>11, <1>12, NilIsNotLive, RegisteredPreserves

\* RegisterStaticSeed and RegisterPassiveObserved past registerLocked
\* (registry_registration.go:233-239, registry_scan.go:106-112).
LEMMA StampedRegistrationPreserves ==
  ASSUME NEW s, Typed(s), Sound(s), NEW a \in Address, NEW o \in Observation,
         EntryId # s.order, NEW fresh \in Allocated(s), NEW heir \in Heirs(s, a), heir \in Address,
         NEW source \in DiscoverySource, NEW floor \in VerificationState, NEW role \in SlotRole
  PROVE  LET u == RegisterLocked(s, a, o, fresh, heir)
         IN  Preserves(s, StampedRegistration(u, a, u.entries[a],
                                              Stamp(SlotFor(u, a), source, floor, role)))
<1> DEFINE U == RegisterLocked(s, a, o, fresh, heir)
           e == U.entries[a]
           slot == Stamp(SlotFor(U, a), source, floor, role)
           V == SetSlot(U, a, Attached(slot, e))
           T == SyncEntryFacesLocked(V, e)
           W == ReconcileQualifiedIdentityWitnessesLocked(Advance(T))
<1>1. fresh \in EntryId \ s.order
  BY AllocatedIsFresh
<1>2. Typed(U)
  BY <1>1, RegisterLockedYields DEF Yields
<1>3. Registered(s, U, a)
  BY <1>1, HeirsAreGood, RegisterLockedSound
<1>4. StampedRegistration(U, a, e, slot) = W
  BY DEF StampedRegistration
<1> HIDE DEF U
<1>5. slot \in AddressSlot
  BY <1>2, SlotForType, StampType
<1> HIDE DEF slot
<1>6. Typed(V) /\ e \in V.order /\ SoundBut(V, e) /\ SameGroups(U, V)
  BY <1>2, <1>3, <1>5, AttachSound
<1> HIDE DEF V, e
<1>7. Sound(T) /\ SameGroups(V, T)
  BY <1>6, SyncSound
<1>8. Typed(T)
  BY <1>6, SyncYields DEF Typed, PointersType, Yields
<1> HIDE DEF T
<1>9. SameBooks(T, W)
  BY <1>8, EndingsKeepBooks
<1>10. SameGroups(U, T)
  BY <1>6, <1>7 DEF SameGroups
<1> HIDE DEF W
<1>11. Preserves(s, W)
  BY <1>2, <1>3, <1>7, <1>9, <1>10, NilIsNotLive, RegisteredPreserves
<1>12. QED BY <1>4, <1>11 DEF U, e, slot

\* RegisterStaticSeed (registry_registration.go:225).
LEMMA RegisterStaticSeedPreserves ==
  ASSUME Typed(registry), Sound(registry), NEW a \in Address, NEW o \in Observation,
         NEW role \in ObservedRole, RegisterStaticSeed(a, o, role)
  PROVE  Preserves(registry, registry')
<1>1. PICK fresh \in Allocated(registry), heir \in Heirs(registry, a) :
         registry' = RegisteredAsSeed(RegisterLocked(registry, a, o, fresh, heir), a, role)
  BY DEF RegisterStaticSeed
<1>2. heir \in Address /\ role \in SlotRole /\ EntryId # registry.order
  BY HeirsType, ObservationAssumption DEF RegisterStaticSeed
<1>3. QED
  BY <1>1, <1>2, StampedRegistrationPreserves, StampConstants
  DEF RegisteredAsSeed, MarkSlotStaticSeedLocked

\* RegisterPassiveObserved (registry_scan.go:98).
LEMMA RegisterPassiveObservedPreserves ==
  ASSUME Typed(registry), Sound(registry), NEW a \in Address, NEW o \in Observation,
         NEW role \in ObservedRole, RegisterPassiveObserved(a, o, role)
  PROVE  Preserves(registry, registry')
<1>1. PICK fresh \in Allocated(registry), heir \in Heirs(registry, a) :
         registry' = RegisteredPassively(RegisterLocked(registry, a, o, fresh, heir), a, role)
  BY DEF RegisterPassiveObserved
<1>2. heir \in Address /\ role \in SlotRole /\ EntryId # registry.order
  BY HeirsType, ObservationAssumption DEF RegisterPassiveObserved
<1>3. QED
  BY <1>1, <1>2, StampedRegistrationPreserves, StampConstants
  DEF RegisteredPassively, MarkSlotPassiveObservedLocked

\* confirmScanIdentity (registry_registration.go:28).
LEMMA ConfirmScanIdentityPreserves ==
  ASSUME Typed(registry), Sound(registry), NEW a \in Address, ConfirmScanIdentity(a)
  PROVE  Preserves(registry, registry')
<1> DEFINE e == registry.entries[a]
           slot == Attached(Stamp(SlotFor(registry, a), "ActiveConfirmed", IdentityConfirmed,
                                  "Unknown"), e)
           U == SetSlot(registry, a, slot)
           V == ConfirmTopologyIdentitySlotsLocked(U, a, e)
           T == SyncEntryFacesLocked(V, e)
<1>1. e \in registry.order /\ Points(registry, e)
  BY DEF ConfirmScanIdentity, Sound, Groups, Typed, PointersType
<1>2. registry' = Advance(T)
  BY DEF ConfirmScanIdentity, ConfirmFrom, ObserveAddressSlotLocked
<1>3. Stamp(SlotFor(registry, a), "ActiveConfirmed", IdentityConfirmed, "Unknown") \in AddressSlot
  BY SlotForType, StampType, StampConstants DEF DiscoverySource, SlotRole
<1>4. slot \in AddressSlot /\ slot.Device = e
  BY <1>1, <1>3, AttachedType DEF Points
<1> HIDE DEF slot
<1>5. SlotsBut(registry, a) /\ MirrorsBut(registry, e)
  BY SoundIsSoundBut DEF Sound, SoundBut, SlotsBut, Slots
<1>6. SoundBut(U, e) /\ SameGroups(registry, U)
  BY <1>4, <1>5, SetSlotSound DEF Sound
<1>7. Typed(U) /\ e \in U.order
  BY <1>1, <1>4, <1>6, SetSlotYields DEF Yields, SameGroups
<1> HIDE DEF U, e
<1>8. SoundBut(V, e) /\ SameGroups(U, V)
  BY <1>6, <1>7, ConfirmTopologySound
<1>9. Typed(V) /\ e \in V.order
  BY <1>7, <1>8, ConfirmTopologyYields DEF Yields, SameGroups
<1> HIDE DEF V
<1>10. Sound(T) /\ SameGroups(V, T)
  BY <1>8, <1>9, SyncSound
<1>11. Typed(T)
  BY <1>9, SyncYields DEF Typed, PointersType, Yields
<1> HIDE DEF T
<1>12. SameGroups(registry, T) /\ SameBooks(T, registry')
  BY <1>2, <1>6, <1>8, <1>10, <1>11, EndingsKeepBooks DEF SameGroups
<1>13. QED BY <1>10, <1>12, SameGroupsPreserves

\* A slot is marked, and nothing else (registry_scan.go:35-50,
\* registry_registration.go:303-316).
LEMMA MarkingPreserves ==
  ASSUME NEW s, Typed(s), Sound(s), NEW a \in Address, NEW source \in DiscoverySource,
         NEW floor \in VerificationState, NEW role \in SlotRole
  PROVE  Preserves(s, Advance(SyncIfAttached(
             SetSlot(s, a, Stamp(SlotFor(s, a), source, floor, role)), a)))
<1> DEFINE T == SyncIfAttached(SetSlot(s, a, Stamp(SlotFor(s, a), source, floor, role)), a)
<1>1. Sound(T) /\ SameGroups(s, T)
  BY StampedSlotSound
<1>2. Typed(T)
  BY StampedSlotMarks DEF Marks, Yields
<1> HIDE DEF T
<1>3. SameBooks(T, Advance(T))
  BY <1>2, EndingsKeepBooks
<1>4. Preserves(s, Advance(T))
  BY <1>1, <1>3, SameGroupsPreserves
<1>5. QED BY <1>4 DEF T

\* MarkSlotStaticSeed (registry_registration.go:303).
LEMMA MarkSlotStaticSeedPreserves ==
  ASSUME Typed(registry), Sound(registry), NEW a \in Address, NEW role \in ObservedRole,
         MarkSlotStaticSeed(a, role)
  PROVE  Preserves(registry, registry')
<1>1. role \in SlotRole
  BY ObservationAssumption
<1>2. QED
  BY <1>1, MarkingPreserves, StampConstants DEF MarkSlotStaticSeed, MarkSlotStaticSeedLocked

\* MarkSlotPassiveObserved up to its callers (registry_scan.go:35-50).
LEMMA PassiveMarkPreserves ==
  ASSUME NEW s, Typed(s), Sound(s), NEW a \in Address, NEW role \in SlotRole
  PROVE  Preserves(s, Advance(PassivelyMarked(s, a, role)))
BY MarkingPreserves, StampConstants DEF PassivelyMarked, MarkSlotPassiveObservedLocked

\* MarkSlotPassiveObserved (registry_scan.go:35).
LEMMA MarkSlotPassiveObservedPreserves ==
  ASSUME Typed(registry), Sound(registry), NEW a \in Address, NEW role \in ObservedRole,
         MarkSlotPassiveObserved(a, role)
  PROVE  Preserves(registry, registry')
BY PassiveMarkPreserves, ObservationAssumption DEF MarkSlotPassiveObserved

\* AdmitPassiveCompanion (admit_passive_companion.go:18).
LEMMA AdmitPassiveCompanionPreserves ==
  ASSUME Typed(registry), Sound(registry), NEW source \in Address,
         AdmitPassiveCompanion(source)
  PROVE  Preserves(registry, registry')
<1>1. CompanionOf[source] \in Address
  BY AddressAssumption DEF AdmitPassiveCompanion
<1>2. QED BY <1>1, PassiveMarkPreserves, StampConstants DEF AdmitPassiveCompanion

\* AliasAddresses (registry_alias.go:133).
LEMMA AliasAddressesPreserves ==
  ASSUME Typed(registry), Sound(registry), NEW a \in Address, NEW b \in Address,
         AliasAddresses(a, b)
  PROVE  Preserves(registry, registry')
<1>1. PICK heir \in Heirs(registry, b) :
         registry' = ReconcileQualifiedIdentityWitnessesLocked(
                         Advance(Aliased(registry, a, b, heir)))
  BY DEF AliasAddresses
<1> DEFINE T == Aliased(registry, a, b, heir)
<1>2. heir \in Address /\ GoodHeir(registry, b, heir)
  BY HeirsType, HeirsAreGood
<1>3. Sound(T)
  BY <1>2, AliasedSound
<1>4. PICK c \in Address : OnlyMoves(registry, T, c)
  BY <1>2, AliasedSound
<1>5. Typed(T)
  BY <1>2, AliasedYields DEF Yields
<1> HIDE DEF T
<1>6. SameBooks(T, registry')
  BY <1>1, <1>5, EndingsKeepBooks DEF T
<1>7. Sound(registry') /\ registry'.entries = T.entries
  BY <1>3, <1>6, SameBooksSound DEF SameBooks
<1>8. /\ MovesTogether(registry, registry', c)
      /\ \A x \in Address : registry.entries[x] # Nil => registry'.entries[x] # Nil
  BY <1>4, <1>7 DEF OnlyMoves, MovesTogether
<1>9. QED BY <1>7, <1>8 DEF Preserves

\* RegisterProvider (registry.go:104).
LEMMA RegisterProviderPreserves ==
  ASSUME Typed(registry), Sound(registry), NEW p \in Provider, RegisterProvider(p)
  PROVE  Preserves(registry, registry')
<1>1. SameBooks(registry, registry')
  BY DEF RegisterProvider, Advance, SameBooks, Typed, RegistryState
<1>2. QED BY <1>1, SameGroupsPreserves DEF SameGroups

\* Every operation (the exported methods of DeviceRegistry).
LEMMA EveryOperationPreserves ==
  ASSUME Typed(registry), Sound(registry), Next
  PROVE  Preserves(registry, registry')
BY RegisterPreserves, RegisterStaticSeedPreserves, RegisterPassiveObservedPreserves,
   ConfirmScanIdentityPreserves, MarkSlotStaticSeedPreserves,
   MarkSlotPassiveObservedPreserves, AdmitPassiveCompanionPreserves,
   AliasAddressesPreserves, RegisterProviderPreserves
DEF Next

-----------------------------------------------------------------------------
\* The theorems

\* The inductive invariant: types, and address groups that are sound.
PartitionInv == IdentityInv /\ Sound(registry)

\* An empty registry has no groups (registry.go:93-102).
LEMMA InitSound ==
  ASSUME Init
  PROVE  Sound(registry)
BY DEF Init, Sound, Groups, Slots, Mirrors, RowsWithin

\* No operation breaks it (the exported methods of DeviceRegistry).
LEMMA PartitionInvIsKept == PartitionInv /\ [Next]_registry => PartitionInv'
<1> SUFFICES ASSUME PartitionInv, [Next]_registry PROVE PartitionInv'
  OBVIOUS
<1>1. IdentityInv'
  BY IdentityInvIsKept DEF PartitionInv
<1>2. Sound(registry')
  <2>1. CASE Next
    BY <2>1, EveryOperationPreserves DEF PartitionInv, IdentityInv, Preserves
  <2>2. CASE UNCHANGED registry
    BY <2>2 DEF PartitionInv
  <2>3. QED BY <2>1, <2>2
<1>3. QED BY <1>1, <1>2
  DEF PartitionInv, Sound, Groups, Slots, Mirrors, MirrorsSlots, RowsWithin

\* It holds of every reachable registry (the exported methods of DeviceRegistry).
LEMMA PartitionInvHolds == Spec => []PartitionInv
<1>1. Init => PartitionInv
  BY InitType, InitSound DEF PartitionInv
<1>2. QED BY <1>1, PartitionInvIsKept, PTL DEF Spec

\* Whatever joins, splits and merges came before, the address map, the entries'
\* address lists, the slots' Device pointers and the iteration order describe one
\* partition (registry_alias.go:133-230, registry_registration.go:66-209).
THEOREM GroupsPartitionAddresses == Spec => []AddressPartition
<1>1. PartitionInv => AddressPartition
  BY DEF PartitionInv, Sound, Groups, Slots, AddressPartition, Live, Entry, Slot
<1>2. QED BY <1>1, PartitionInvHolds, PTL

\* The cached Faces of every entry are copies of the slots of its addresses, also
\* when a slot is written on behalf of another (registry_scan.go:139-157).
THEOREM FacesAreCurrent == Spec => []FacesMirrorSlots
<1>1. PartitionInv => FacesMirrorSlots
  BY DEF PartitionInv, Sound, Mirrors, MirrorsSlots, FacesMirrorSlots, Live, Entry, Slot
<1>2. QED BY <1>1, PartitionInvHolds, PTL

\* AddressByRole selects from the cached faces an address that resolves to the
\* device now, and whose slot has the role (registry_snapshot.go:115-145).
THEOREM RoutesFitTheRole == Spec => []RoutedAddressesFitTheRole
<1>1. PartitionInv => RoutedAddressesFitTheRole
  <2> SUFFICES ASSUME PartitionInv, NEW e \in registry.order, NEW role \in {"Master", "Slave"},
                      NEW a \in AddressByRole(registry.heap[e], role)
               PROVE  /\ registry.entries[a] = e
                      /\ \/ registry.addressTable[a].Role = role
                         \/ registry.addressTable[a].Role = "Unknown" /\ ClassOf[a] = role
    BY DEF RoutedAddressesFitTheRole, Live, Entry, Slot
  <2>1. registry.heap[e].Faces = [x \in registry.heap[e].addresses |->
                                     FaceOf(registry.addressTable[x])]
    BY DEF PartitionInv, Sound, Mirrors, MirrorsSlots
  <2>2. a \in DOMAIN registry.heap[e].Faces
    BY DEF AddressByRole
  <2>3. a \in registry.heap[e].addresses
        /\ registry.heap[e].Faces[a].Role = registry.addressTable[a].Role
    BY <2>1, <2>2 DEF FaceOf
  <2>4. registry.entries[a] = e
    BY <2>3 DEF PartitionInv, Sound, Groups
  <2>5. QED BY <2>3, <2>4 DEF AddressByRole
<1>2. QED BY <1>1, PartitionInvHolds, PTL

\* No operation, a failed or a contradicted one included, leaves an address that
\* resolved without an entry (registry_registration.go:79-113).
THEOREM NoAddressIsDropped == Spec => ResolvedStaysResolved
<1>1. PartitionInv /\ [Next]_registry =>
        [\A a \in Address : registry.entries[a] # Nil => registry'.entries[a] # Nil]_registry
  BY EveryOperationPreserves DEF PartitionInv, IdentityInv, Preserves
<1>2. QED BY <1>1, PartitionInvHolds, PTL DEF Spec, ResolvedStaysResolved

\* One operation moves one address, unless it merges whole groups, and those only
\* on evidence (registry_alias.go:286-357, registry_registration.go:115-123).
THEOREM BystandersStay == Spec => BystandersMoveOnlyWithEvidence
<1> DEFINE Stays(s, t, subject) ==
             \A x \in Address \ {subject} :
                s.entries[x] \notin {Nil, t.entries[x]} =>
                   /\ t.entries[x] \in s.order
                   /\ Corroborates(s, s.entries[x], t.entries[x])
                   /\ \A y \in s.heap[s.entries[x]].addresses : t.entries[y] = t.entries[x]
<1>1. ASSUME NEW s, Typed(s), Sound(s), NEW t, NEW a \in Address, MovesTogether(s, t, a)
      PROVE  Stays(s, t, a)
  <2> SUFFICES ASSUME NEW x \in Address \ {a}, s.entries[x] \notin {Nil, t.entries[x]}
               PROVE  /\ t.entries[x] \in s.order
                      /\ Corroborates(s, s.entries[x], t.entries[x])
                      /\ \A y \in s.heap[s.entries[x]].addresses : t.entries[y] = t.entries[x]
    OBVIOUS
  <2>1. /\ t.entries[x] \in s.order
        /\ Corroborates(s, s.entries[x], t.entries[x])
        /\ \A y \in Address : s.entries[y] = s.entries[x] => t.entries[y] = t.entries[x]
    BY <1>1 DEF MovesTogether
  <2>2. s.entries[x] \in s.order /\ Points(s, s.entries[x])
    BY <1>1 DEF Sound, Groups, Typed, PointersType
  <2>3. \A y \in s.heap[s.entries[x]].addresses : y \in Address /\ s.entries[y] = s.entries[x]
    BY <1>1, <2>2 DEF Sound, Groups, Points, DeviceEntry
  <2>4. QED BY <2>1, <2>3
<1>2. PartitionInv /\ Next => \E subject \in Address : Stays(registry, registry', subject)
  <2> HIDE DEF Stays
  <2>1. QED BY <1>1, EveryOperationPreserves DEF PartitionInv, IdentityInv, Preserves
<1>3. PartitionInv /\ [Next]_registry =>
        [\E subject \in Address : \A x \in Address \ {subject} :
            LET from == registry.entries[x]
                to   == registry'.entries[x]
            IN  from \notin {Nil, to} =>
                    /\ to \in Live
                    /\ Corroborating(from, to)
                    /\ \A y \in Entry(from).addresses : registry'.entries[y] = to]_registry
  BY <1>2 DEF Corroborating, Corroborates, Live, Entry
<1>4. QED BY <1>3, PartitionInvHolds, PTL DEF Spec, BystandersMoveOnlyWithEvidence
=============================================================================
