------------------------- MODULE RegistryReadProofs -------------------------
(* Proofs about what is found in a DeviceRegistry, for every instance: the     *)
(* identity index selects exactly the live entries whose current triple is     *)
(* published, and a list of all devices, read without the lock while others    *)
(* write, tells what its reader may rely on.                                   *)
EXTENDS RegistryPartitionProofs, ServiceReader

\* No observation carries a triple field that is blank without being empty.
\* Registration fills a field that is empty, but compares fields that are normalised
\* (registry_registration.go:135-157, identity.go:84-93): a device ID of tabs alone
\* would be kept, and yet say nothing.
NoBlankFields ==
  \A o \in Observation, f \in TripleField : Norm[o[f]] = Missing => o[f] = Missing

-----------------------------------------------------------------------------
\* The parts of the inductive invariant

\* The normalised identity is that of the retained info.
Canonical(s, e) == s.heap[e].physical = CanonicalPhysicalIdentity(s.heap[e].info)

\* e has published k, and k is its current triple.
Carries(s, e, k) == s.heap[e].identityKey = k /\ Key(s.heap[e].physical) = k

\* A published key has its row.
OwnsItsRow(s, e) ==
  s.heap[e].identityKey # NoKey => s.identity[s.heap[e].identityKey] = e

\* The entries O, but for e, and the index agree: nothing is said of the rows of e.
IndexedBut(s, O, e) ==
  /\ \A d \in O \ {e} : Canonical(s, d) /\ OwnsItsRow(s, d)
  /\ \A k \in IdentityKey : s.identity[k] \notin {Nil, e} =>
        s.identity[k] \in O /\ Carries(s, s.identity[k], k)

\* The entries O and the index agree.
Indexed(s, O) ==
  /\ \A d \in O : Canonical(s, d) /\ OwnsItsRow(s, d)
  /\ \A k \in IdentityKey : s.identity[k] # Nil =>
        s.identity[k] \in O /\ Carries(s, s.identity[k], k)

\* t knows of every entry what s knows, and has its index and its iteration order.
SameIdentity(s, t) ==
  /\ t.order = s.order /\ t.identity = s.identity
  /\ \A e \in EntryId : Points(s, e) =>
        /\ t.heap[e].info = s.heap[e].info
        /\ t.heap[e].physical = s.heap[e].physical
        /\ t.heap[e].identityKey = s.heap[e].identityKey

\* Helpers are called one after the other (no single line of the code).
LEMMA SameIdentityTransitive ==
  ASSUME NEW s, NEW t, NEW u, SameIdentity(s, t), SameIdentity(t, u), Yields(s, t)
  PROVE  SameIdentity(s, u)
BY DEF SameIdentity, Yields, Points

\* Who is known as whom decides whether the index is current (no single line).
LEMMA SameIdentityKeeps ==
  ASSUME NEW s, Typed(s), NEW t, SameIdentity(s, t), NEW O, O \subseteq s.order,
         Indexed(s, O)
  PROVE  Indexed(t, O)
<1>1. \A e \in O : /\ t.heap[e].info = s.heap[e].info
                   /\ t.heap[e].physical = s.heap[e].physical
                   /\ t.heap[e].identityKey = s.heap[e].identityKey
  BY DEF SameIdentity, Typed, PointersType, Points
<1>2. t.identity = s.identity
  BY DEF SameIdentity
<1>3. \A e \in O : Canonical(t, e) /\ OwnsItsRow(t, e)
  BY <1>1, <1>2 DEF Indexed, Canonical, OwnsItsRow
<1>4. \A k \in IdentityKey : t.identity[k] # Nil =>
         t.identity[k] \in O /\ Carries(t, t.identity[k], k)
  BY <1>1, <1>2 DEF Indexed, Carries
<1>5. QED BY <1>3, <1>4 DEF Indexed

-----------------------------------------------------------------------------
\* What a triple is, once its fields are filled

\* A key is no empty key (identity.go:44-58).
LEMMA KeysAreTriples ==
  ASSUME NEW physical, Key(physical) # NoKey
  PROVE  IsQualified(physical) /\ Key(physical) = Triple(physical)
BY DEF Key

\* An index key is a triple (registry_registration.go:74).
LEMMA IdentityKeysAreSome ==
  ASSUME NEW k \in IdentityKey
  PROVE  k # NoKey
BY DEF IdentityKey

\* The key depends on the three normalised fields only (identity.go:19-58).
LEMMA SameTripleSameKey ==
  ASSUME NEW x, NEW y, \A f \in TripleField : Norm[x[f]] = Norm[y[f]]
  PROVE  KeyOf(x) = KeyOf(y)
<1> DEFINE p == CanonicalPhysicalIdentity(x)
           q == CanonicalPhysicalIdentity(y)
<1>1. \A f \in TripleField : p[f] = q[f]
  BY DEF CanonicalPhysicalIdentity, Field
<1> HIDE DEF p, q
<1>2. IsQualified(p) <=> IsQualified(q)
  BY <1>1 DEF IsQualified, TripleField
<1>3. Triple(p) = Triple(q)
  BY <1>1 DEF Triple, TripleField
<1>4. QED BY <1>2, <1>3 DEF KeyOf, Key, p, q

\* A complete triple has no field left to fill (identity.go:44-58).
LEMMA CompleteFields ==
  ASSUME NEW x, KeyOf(x) # NoKey
  PROVE  \A f \in TripleField : Norm[x[f]] # Missing /\ x[f] # Missing
<1>1. \A f \in TripleField : CanonicalPhysicalIdentity(x)[f] = Norm[x[f]]
  BY DEF CanonicalPhysicalIdentity, Field
<1>2. \A f \in TripleField : CanonicalPhysicalIdentity(x)[f] # Missing
  BY DEF KeyOf, Key, IsQualified
<1>3. QED BY <1>1, <1>2, NormAssumption

\* Filling the gaps of a complete identity leaves its triple
\* (registry_registration.go:135-156, registry_alias.go:286-308).
LEMMA FilledKey ==
  ASSUME NEW x, NEW y, KeyOf(x) # NoKey
  PROVE  KeyOf(FillMissing(x, y)) = KeyOf(x)
<1>1. \A f \in TripleField : FillMissing(x, y)[f] = x[f]
  BY CompleteFields DEF FillMissing, Field
<1>2. QED BY <1>1, SameTripleSameKey

\* Two infos of one key have one triple (identity.go:34-42).
LEMMA SameKeySameTriple ==
  ASSUME NEW x, NEW y, KeyOf(x) # NoKey, KeyOf(x) = KeyOf(y)
  PROVE  \A f \in TripleField : Norm[x[f]] = Norm[y[f]]
<1> DEFINE p == CanonicalPhysicalIdentity(x)
           q == CanonicalPhysicalIdentity(y)
<1>1. \A f \in TripleField : p[f] = Norm[x[f]] /\ q[f] = Norm[y[f]]
  BY DEF CanonicalPhysicalIdentity, Field
<1> HIDE DEF p, q
<1>2. Triple(p) = Triple(q)
  BY KeysAreTriples DEF KeyOf, p, q
<1>3. /\ p["Manufacturer"] = q["Manufacturer"]
      /\ p["DeviceID"] = q["DeviceID"]
      /\ p["SerialNumber"] = q["SerialNumber"]
  BY <1>2 DEF Triple
<1>4. QED BY <1>1, <1>3 DEF TripleField

\* The info kept for an observation that carries a triple has that triple, also
\* when the entry's own spelling of the device ID is kept
\* (registry_registration.go:135-158).
LEMMA StoredTriple ==
  ASSUME NEW o, NEW entry, NEW keepID, KeyOf(o) # NoKey,
         keepID => KeyOf(entry.info) = KeyOf(o)
  PROVE  KeyOf(StoredInfo(o, entry, keepID)) = KeyOf(o)
<1> DEFINE info == StoredInfo(o, entry, keepID)
<1>1. \A f \in TripleField : FillMissing(o, entry.info)[f] = o[f]
  BY CompleteFields DEF FillMissing, Field
<1>2. \A f \in Field : f # "DeviceID" => info[f] = FillMissing(o, entry.info)[f]
  BY DEF StoredInfo, FillMissing
<1>3. info["DeviceID"] = IF keepID /\ entry.info["DeviceID"] # Missing
                         THEN entry.info["DeviceID"] ELSE FillMissing(o, entry.info)["DeviceID"]
  BY DEF StoredInfo, FillMissing, Field, TripleField
<1>4. keepID => \A f \in TripleField : Norm[o[f]] = Norm[entry.info[f]]
  BY SameKeySameTriple
<1> HIDE DEF info
<1>5. \A f \in TripleField : Norm[info[f]] = Norm[o[f]]
  BY <1>1, <1>2, <1>3, <1>4 DEF Field, TripleField
<1>6. QED BY <1>5, SameTripleSameKey DEF info

\* The info kept for a partial observation that agrees with the entry has the
\* triple of the entry (identity.go:73-93).
LEMMA PreservedTriple ==
  ASSUME NoBlankFields, NEW o \in Observation, NEW entry, NEW keepID,
         entry.physical = CanonicalPhysicalIdentity(entry.info),
         PreservesCurrentIdentityAuthority(o, entry)
  PROVE  KeyOf(StoredInfo(o, entry, keepID)) = entry.identityKey
<1> DEFINE info == StoredInfo(o, entry, keepID)
<1>1. \A f \in TripleField : entry.physical[f] = Norm[entry.info[f]]
  BY DEF CanonicalPhysicalIdentity, Field
<1>2. \A f \in TripleField : FillMissing(o, entry.info)[f] =
                                IF o[f] = Missing THEN entry.info[f] ELSE o[f]
  BY DEF FillMissing, Field
<1>3. \A f \in TripleField : Norm[FillMissing(o, entry.info)[f]] = Norm[entry.info[f]]
  BY <1>1, <1>2 DEF NoBlankFields, PreservesCurrentIdentityAuthority
<1>4. \A f \in Field : f # "DeviceID" => info[f] = FillMissing(o, entry.info)[f]
  BY DEF StoredInfo, FillMissing
<1>5. info["DeviceID"] = IF keepID /\ entry.info["DeviceID"] # Missing
                         THEN entry.info["DeviceID"] ELSE FillMissing(o, entry.info)["DeviceID"]
  BY DEF StoredInfo, FillMissing, Field, TripleField
<1> HIDE DEF info
<1>6. \A f \in TripleField : Norm[info[f]] = Norm[entry.info[f]]
  BY <1>3, <1>4, <1>5 DEF Field, TripleField
<1>7. KeyOf(info) = KeyOf(entry.info)
  BY <1>6, SameTripleSameKey
<1>8. QED BY <1>7 DEF PreservesCurrentIdentityAuthority, KeyOf, info

-----------------------------------------------------------------------------
\* The helpers on the index

\* No row of a current index is stale (registry_alias.go:21).
LEMMA NothingIsStale ==
  ASSUME NEW s, Typed(s), NEW O, Indexed(s, O), NEW k \in IdentityKey \union {NoKey}
  PROVE  /\ SameIdentity(s, DropStaleIdentity(s, k))
         /\ CurrentIdentityEntry(s, k) = IF k = NoKey THEN Nil ELSE s.identity[k]
<1>1. CASE k = NoKey
  BY <1>1 DEF DropStaleIdentity, CurrentIdentityEntry, SameIdentity
<1>2. CASE k # NoKey
  <2>1. k \in IdentityKey
    BY <1>2
  <2>2. s.identity[k] # Nil => IsCurrentQualifiedIdentityKey(s, s.identity[k], k)
    BY <1>2, <2>1 DEF Indexed, Carries, IsCurrentQualifiedIdentityKey
  <2>3. s.identity[k] = Nil => ~ IsCurrentQualifiedIdentityKey(s, s.identity[k], k)
    BY DEF IsCurrentQualifiedIdentityKey
  <2>4. CurrentIdentityEntry(s, k) = s.identity[k]
    BY <1>2, <2>2, <2>3 DEF CurrentIdentityEntry
  <2>5. s.identity[k] = Nil => [s.identity EXCEPT ![k] = Nil] = s.identity
    BY <2>1 DEF Typed, RegistryState
  <2>6. SameIdentity(s, DropStaleIdentity(s, k))
    <3>1. CASE s.identity[k] # Nil
      BY <2>2, <3>1 DEF DropStaleIdentity, SameIdentity
    <3>2. CASE s.identity[k] = Nil
      <4> DEFINE T == [s EXCEPT !.identity = [@ EXCEPT ![k] = Nil]]
      <4>1. DropStaleIdentity(s, k) = T
        BY <1>2, <2>3, <3>2 DEF DropStaleIdentity
      <4>2. T.identity = s.identity /\ T.order = s.order /\ T.heap = s.heap
        BY <2>5, <3>2 DEF Typed, RegistryState
      <4> HIDE DEF T
      <4>3. QED BY <4>1, <4>2 DEF SameIdentity
    <3>3. QED BY <3>1, <3>2
  <2>7. QED BY <1>2, <2>4, <2>6
<1>3. QED BY <1>1, <1>2

\* An entry that leaves takes its rows with it (registry_alias.go:52).
LEMMA RemoveRows ==
  ASSUME NEW s, Typed(s), NEW e
  PROVE  LET t == RemoveIdentityBindingsLocked(s, e)
         IN  /\ t.heap = s.heap /\ t.order = s.order
             /\ \A k \in IdentityKey : t.identity[k] = IF s.identity[k] = e THEN Nil
                                                       ELSE s.identity[k]
BY IdentityKeysAreSome
DEF RemoveIdentityBindingsLocked, RetainCurrentIdentityBindingLocked, Typed, RegistryState

\* The others keep theirs (registry_alias.go:52).
LEMMA RemovedIndexedBut ==
  ASSUME NEW s, Typed(s), NEW O, \A x \in O : Points(s, x), NEW d, IndexedBut(s, O, d),
         NEW e, e # d
  PROVE  IndexedBut(RemoveIdentityBindingsLocked(s, e), O \ {e}, d)
<1> DEFINE t == RemoveIdentityBindingsLocked(s, e)
<1>1. t.heap = s.heap
  BY RemoveRows
<1>2. \A k \in IdentityKey : t.identity[k] = IF s.identity[k] = e THEN Nil ELSE s.identity[k]
  BY RemoveRows
<1> HIDE DEF t
<1>3. \A x \in O \ {e} : s.heap[x].identityKey \in IdentityKey \union {NoKey}
  BY DEF Points, DeviceEntry
<1>4. \A x \in (O \ {e}) \ {d} : Canonical(t, x) /\ OwnsItsRow(t, x)
  BY <1>1, <1>2, <1>3 DEF IndexedBut, Canonical, OwnsItsRow
<1>5. \A k \in IdentityKey : t.identity[k] \notin {Nil, d} =>
         t.identity[k] \in O \ {e} /\ Carries(t, t.identity[k], k)
  BY <1>1, <1>2 DEF IndexedBut, Carries
<1>6. QED BY <1>4, <1>5 DEF IndexedBut, t

\* The others keep theirs (registry_alias.go:52).
LEMMA RemovedIndexed ==
  ASSUME NEW s, Typed(s), NEW O, \A x \in O : Points(s, x), Indexed(s, O), NEW e
  PROVE  Indexed(RemoveIdentityBindingsLocked(s, e), O \ {e})
<1> DEFINE t == RemoveIdentityBindingsLocked(s, e)
<1>1. t.heap = s.heap
  BY RemoveRows
<1>2. \A k \in IdentityKey : t.identity[k] = IF s.identity[k] = e THEN Nil ELSE s.identity[k]
  BY RemoveRows
<1> HIDE DEF t
<1>3. \A x \in O \ {e} : s.heap[x].identityKey \in IdentityKey \union {NoKey}
  BY DEF Points, DeviceEntry
<1>4. \A x \in O \ {e} : Canonical(t, x) /\ OwnsItsRow(t, x)
  BY <1>1, <1>2, <1>3 DEF Indexed, Canonical, OwnsItsRow
<1>5. \A k \in IdentityKey : t.identity[k] # Nil =>
         t.identity[k] \in O \ {e} /\ Carries(t, t.identity[k], k)
  BY <1>1, <1>2 DEF Indexed, Carries
<1>6. QED BY <1>4, <1>5 DEF Indexed, t

\* What publishing writes, when no other entry has the key (registry_alias.go:64-86).
LEMMA PublishedRows ==
  ASSUME NEW s, Typed(s), NEW e, Points(s, e), NEW k \in IdentityKey \union {NoKey},
         k # NoKey => s.identity[k] \in {Nil, e}
  PROVE  LET t == PublishCurrentIdentityBindingLocked(s, e, k)
         IN  /\ t.order = s.order
             /\ \A d \in EntryId \ {e} : t.heap[d] = s.heap[d]
             /\ t.heap[e].info = s.heap[e].info /\ t.heap[e].physical = s.heap[e].physical
             /\ t.heap[e].identityKey = k
             /\ \A x \in IdentityKey : t.identity[x] =
                   IF x = k THEN e ELSE IF s.identity[x] = e THEN Nil ELSE s.identity[x]
<1> DEFINE j == PublishableKey(s, e, k, CurrentIdentityEntry(s, k))
           U == DropStaleIdentity(s, k)
           V == RetainCurrentIdentityBindingLocked(U, e, k)
           W == BindIdentity(V, e, k)
<1>1. j = k
  BY DEF PublishableKey, CurrentIdentityEntry
<1>2. PublishCurrentIdentityBindingLocked(s, e, k) = W
  BY <1>1 DEF PublishCurrentIdentityBindingLocked, ReplaceBinding
<1>3. /\ U.order = s.order /\ U.heap = s.heap
      /\ \A x \in IdentityKey : x # k => U.identity[x] = s.identity[x]
  BY DEF DropStaleIdentity, Typed, RegistryState
<1>4. Typed(U)
  BY DropStaleYields DEF Yields
<1> HIDE DEF U, j
<1>5. /\ V.order = s.order /\ V.heap = s.heap
      /\ \A x \in IdentityKey : V.identity[x] = IF U.identity[x] = e /\ x # k THEN Nil
                                                ELSE U.identity[x]
  BY <1>3, <1>4 DEF RetainCurrentIdentityBindingLocked, Typed, RegistryState
<1>6. Typed(V) /\ Points(V, e)
  BY <1>4, <1>5, RetainYields DEF Yields, Points
<1> HIDE DEF V
<1> DEFINE Ne == [V.heap[e] EXCEPT !.identityKey = k]
           Ix == [x \in IdentityKey |-> IF x = k THEN e ELSE V.identity[x]]
           T == [V EXCEPT !.heap = [@ EXCEPT ![e] = Ne], !.identity = Ix]
<1>7. W = T
  BY <1>6 DEF BindIdentity, Typed, RegistryState
<1>8. /\ Ne.info = s.heap[e].info /\ Ne.physical = s.heap[e].physical
      /\ Ne.identityKey = k
  BY <1>5, <1>6 DEF Points, DeviceEntry
<1>9. \A x \in IdentityKey : Ix[x] = IF x = k THEN e
                                     ELSE IF s.identity[x] = e THEN Nil ELSE s.identity[x]
  BY <1>3, <1>5
<1> HIDE DEF Ne, Ix, W
<1>10. /\ T.order = s.order /\ T.identity = Ix /\ T.heap[e] = Ne
       /\ \A d \in EntryId \ {e} : T.heap[d] = s.heap[d]
  BY <1>5, <1>6 DEF Typed, RegistryState, Points
<1> HIDE DEF T
<1>11. QED BY <1>2, <1>7, <1>8, <1>9, <1>10

\* An entry that publishes its triple, or nothing, becomes part of the index
\* (registry_alias.go:64-86).
LEMMA PublishIndexed ==
  ASSUME NEW s, Typed(s), NEW O, O \subseteq s.order, NEW e \in O, IndexedBut(s, O, e),
         Canonical(s, e), NEW k \in IdentityKey \union {NoKey},
         k # NoKey => Key(s.heap[e].physical) = k /\ s.identity[k] \in {Nil, e}
  PROVE  LET t == PublishCurrentIdentityBindingLocked(s, e, k)
         IN  Indexed(t, O) /\ t.order = s.order
<1> DEFINE t == PublishCurrentIdentityBindingLocked(s, e, k)
<1>1. Points(s, e) /\ e \in EntryId /\ O \subseteq EntryId /\ e # Nil
  BY NullAssumption DEF Typed, PointersType, Points
<1>2. /\ t.order = s.order
      /\ \A d \in EntryId \ {e} : t.heap[d] = s.heap[d]
      /\ t.heap[e].info = s.heap[e].info /\ t.heap[e].physical = s.heap[e].physical
      /\ t.heap[e].identityKey = k
      /\ \A x \in IdentityKey : t.identity[x] =
            IF x = k THEN e ELSE IF s.identity[x] = e THEN Nil ELSE s.identity[x]
  BY <1>1, PublishedRows
<1> HIDE DEF t
<1>3. \A d \in O \ {e} : t.heap[d] = s.heap[d] /\ s.heap[d].identityKey \in IdentityKey \union {NoKey}
  BY <1>1, <1>2 DEF Typed, PointersType, Points, DeviceEntry
<1>4. Canonical(t, e) /\ OwnsItsRow(t, e)
  BY <1>2 DEF Canonical, OwnsItsRow
<1>5. ASSUME NEW d \in O \ {e}
      PROVE  Canonical(t, d) /\ OwnsItsRow(t, d)
  <2>1. t.heap[d] = s.heap[d] /\ s.heap[d].identityKey \in IdentityKey \union {NoKey}
    BY <1>3
  <2>2. Canonical(s, d) /\ OwnsItsRow(s, d)
    BY DEF IndexedBut
  <2>3. Canonical(t, d)
    BY <2>1, <2>2 DEF Canonical
  <2>4. CASE s.heap[d].identityKey = NoKey
    BY <2>1, <2>3, <2>4 DEF OwnsItsRow
  <2>5. CASE s.heap[d].identityKey # NoKey
    <3>1. s.identity[s.heap[d].identityKey] = d /\ d # e /\ d # Nil
      BY <1>1, <2>2, <2>5, NullAssumption DEF OwnsItsRow
    <3>2. s.heap[d].identityKey # k
      BY <2>5, <3>1
    <3>3. QED BY <1>2, <2>1, <2>3, <2>5, <3>1, <3>2 DEF OwnsItsRow
  <2>6. QED BY <2>4, <2>5
<1>6. ASSUME NEW x \in IdentityKey, t.identity[x] # Nil
      PROVE  t.identity[x] \in O /\ Carries(t, t.identity[x], x)
  <2>1. CASE x = k
    BY <1>2, <2>1, IdentityKeysAreSome DEF Carries
  <2>2. CASE x # k
    <3>1. t.identity[x] = s.identity[x] /\ s.identity[x] \notin {Nil, e}
      BY <1>2, <1>6, <2>2
    <3>2. s.identity[x] \in O \ {e} /\ Carries(s, s.identity[x], x)
      BY <3>1 DEF IndexedBut
    <3>3. QED BY <1>3, <3>1, <3>2 DEF Carries
  <2>3. QED BY <2>1, <2>2
<1>7. QED BY <1>2, <1>4, <1>5, <1>6 DEF Indexed, t

\* An entry is written, its rows are not (any helper that writes through a
\* *deviceEntry).
LEMMA WriteIndexedBut ==
  ASSUME NEW s, Typed(s), NEW O, O \subseteq s.order, NEW e \in EntryId,
         IndexedBut(s, O, e), NEW t, t.identity = s.identity,
         \A d \in EntryId \ {e} : t.heap[d] = s.heap[d]
  PROVE  IndexedBut(t, O, e)
<1>1. \A d \in O \ {e} : t.heap[d] = s.heap[d]
  BY DEF Typed, PointersType, Points
<1>2. \A d \in O \ {e} : Canonical(t, d) /\ OwnsItsRow(t, d)
  BY <1>1 DEF IndexedBut, Canonical, OwnsItsRow
<1>3. \A k \in IdentityKey : t.identity[k] \notin {Nil, e} =>
         t.identity[k] \in O /\ Carries(t, t.identity[k], k)
  BY <1>1 DEF IndexedBut, Carries
<1>4. QED BY <1>2, <1>3 DEF IndexedBut

\* A current index is current but for any entry (no single line of the code).
LEMMA IndexedIsIndexedBut ==
  ASSUME NEW s, NEW O, Indexed(s, O), NEW e
  PROVE  IndexedBut(s, O, e)
BY DEF Indexed, IndexedBut

-----------------------------------------------------------------------------
\* Merges

\* An entry that gains knowledge and keeps its triple keeps its row
\* (registry_alias.go:286-308).
LEMMA EnrichedIndexed ==
  ASSUME NEW s, NEW O, O \subseteq EntryId, Indexed(s, O), NEW d \in O,
         NEW t, t.identity = s.identity, \A x \in EntryId \ {d} : t.heap[x] = s.heap[x],
         t.heap[d].identityKey = s.heap[d].identityKey, Canonical(t, d),
         Key(t.heap[d].physical) = Key(s.heap[d].physical)
  PROVE  Indexed(t, O)
<1>1. \A x \in O : x # d => t.heap[x] = s.heap[x]
  OBVIOUS
<1>2. \A x \in O : t.heap[x].identityKey = s.heap[x].identityKey
                   /\ Key(t.heap[x].physical) = Key(s.heap[x].physical)
  BY <1>1
<1>3. \A x \in O : Canonical(t, x) /\ OwnsItsRow(t, x)
  BY <1>1, <1>2 DEF Indexed, Canonical, OwnsItsRow
<1>4. \A k \in IdentityKey : t.identity[k] # Nil =>
         t.identity[k] \in O /\ Carries(t, t.identity[k], k)
  BY <1>2 DEF Indexed, Carries
<1>5. QED BY <1>3, <1>4 DEF Indexed

\* What absorbIdentityLocked makes of dst's identity (registry_alias.go:286-314).
LEMMA AbsorbedIdentity ==
  ASSUME NEW s, Typed(s), NEW d, Points(s, d), NEW e, Points(s, e)
  PROVE  LET t == AbsorbIdentityLocked(s, d, e)
             info == FillMissing(s.heap[d].info, s.heap[e].info)
         IN  /\ t.identity = s.identity /\ t.order = s.order
             /\ \A x \in EntryId \ {d} : t.heap[x] = s.heap[x]
             /\ t.heap[d].info = info
             /\ t.heap[d].physical = IF s.heap[d].physical = NoInfo THEN s.heap[e].physical
                                     ELSE CanonicalPhysicalIdentity(info)
             /\ t.heap[d].identityKey = s.heap[d].identityKey
<1> DEFINE info == FillMissing(s.heap[d].info, s.heap[e].info)
           Ne == AbsorbIdentity(s.heap[d], s.heap[e], info)
           T == [s EXCEPT !.heap = [@ EXCEPT ![d] = Ne]]
<1>1. AbsorbIdentityLocked(s, d, e) = T
  BY DEF AbsorbIdentityLocked, Points, Typed, RegistryState
<1>2. /\ Ne.info = info
      /\ Ne.physical = IF s.heap[d].physical = NoInfo THEN s.heap[e].physical
                       ELSE CanonicalPhysicalIdentity(info)
      /\ Ne.identityKey = s.heap[d].identityKey
  BY DEF AbsorbIdentity, Points, DeviceEntry
<1> HIDE DEF Ne
<1>3. /\ T.identity = s.identity /\ T.order = s.order /\ T.heap[d] = Ne
      /\ \A x \in EntryId \ {d} : T.heap[x] = s.heap[x]
  BY DEF Typed, RegistryState, Points
<1> HIDE DEF T
<1>4. QED BY <1>1, <1>2, <1>3

\* What a step that may precede the storing of an info keeps: rows are deleted at
\* most, and a complete triple stays what it is.
KeepsTriples(s, t) ==
  /\ \A k \in IdentityKey : t.identity[k] \in {Nil, s.identity[k]}
  /\ \A e \in s.order : Key(s.heap[e].physical) # NoKey =>
        Key(t.heap[e].physical) = Key(s.heap[e].physical)

\* mergeRegisteredAliasesLocked into an entry with a complete triple
\* (registry_registration.go:339-360).
LEMMA MergeRegisteredIndexed ==
  ASSUME NEW s, Typed(s), Indexed(s, s.order), NEW d \in s.order, NEW e \in s.order, d # e,
         Key(s.heap[d].physical) # NoKey
  PROVE  LET t == MergeRegisteredAliasesLocked(s, d, e)
         IN  Indexed(t, t.order) /\ KeepsTriples(s, t)
<1> DEFINE info == FillMissing(s.heap[d].info, s.heap[e].info)
           moved == s.heap[e].addresses
           A == AbsorbIdentityLocked(s, d, e)
           Ta == [a \in Address |->
                     IF a \in moved THEN Attached(SlotFor(s, a), d) ELSE A.addressTable[a]]
           V == Regrouped(A, d, e, moved, Ta)
           T == RemoveIdentityBindingsLocked(V, e)
<1>1. Points(s, d) /\ Points(s, e) /\ s.order \subseteq EntryId
  BY DEF Typed, PointersType, RegistryState
<1>2. MergeRegisteredAliasesLocked(s, d, e) = T
  BY DEF MergeRegisteredAliasesLocked, Regrouped
<1>3. Yields(s, A) /\ Typed(A) /\ Points(A, d)
  BY <1>1, AbsorbYields DEF Yields
<1>4. s.heap[d].physical # NoInfo
  BY DEF Key, IsQualified, NoInfo, TripleField, Field
<1>5. /\ A.identity = s.identity /\ A.order = s.order
      /\ \A x \in EntryId \ {d} : A.heap[x] = s.heap[x]
      /\ A.heap[d].info = info
      /\ A.heap[d].physical = CanonicalPhysicalIdentity(info)
      /\ A.heap[d].identityKey = s.heap[d].identityKey
  BY <1>1, <1>4, AbsorbedIdentity
<1>6. moved \in SUBSET Address
  BY <1>1 DEF Points, DeviceEntry
<1>7. \A a \in Address : /\ Ta[a] \in AddressSlot \union {NoSlot}
                         /\ Ta[a] # NoSlot /\ Ta[a].Device # Nil => Points(A, Ta[a].Device)
  <2> HIDE DEF A, moved
  <2>1. \A a \in Address : /\ Attached(SlotFor(s, a), d) \in AddressSlot
                           /\ Attached(SlotFor(s, a), d).Device = d
    BY <1>1, SlotForType, AttachedType DEF Points
  <2>2. \A a \in Address : /\ A.addressTable[a] \in AddressSlot \union {NoSlot}
                           /\ A.addressTable[a] # NoSlot /\ A.addressTable[a].Device # Nil
                                => Points(A, A.addressTable[a].Device)
    BY <1>3 DEF Typed, RegistryState, PointersType
  <2>3. QED BY <1>3, <2>1, <2>2
<1>8. Ta \in [Address -> AddressSlot \union {NoSlot}]
  BY <1>7
<1> HIDE DEF A, Ta, moved
<1>9. /\ V.identity = s.identity /\ V.order = s.order \ {e}
      /\ \A x \in EntryId \ {d} : V.heap[x] = s.heap[x]
      /\ V.heap[d].info = info
      /\ V.heap[d].physical = CanonicalPhysicalIdentity(info)
      /\ V.heap[d].identityKey = s.heap[d].identityKey
  BY <1>1, <1>3, <1>5 DEF Regrouped, Typed, RegistryState, Points, DeviceEntry
<1>10. Typed(V) /\ \A x \in s.order : Points(V, x)
  <2>1. Yields(A, V)
    BY <1>3, <1>6, <1>7, <1>8, RegroupYields
  <2>2. \A x \in s.order : Points(s, x)
    BY DEF Typed, PointersType
  <2>3. QED BY <1>3, <2>1, <2>2 DEF Yields, Points
<1>11. KeyOf(info) = KeyOf(s.heap[d].info) /\ KeyOf(s.heap[d].info) = Key(s.heap[d].physical)
  BY FilledKey DEF Indexed, Canonical, KeyOf
<1> HIDE DEF V, info
<1>12. Key(V.heap[d].physical) = Key(s.heap[d].physical) /\ Canonical(V, d)
  BY <1>9, <1>11 DEF KeyOf, Canonical
<1>13. Indexed(V, s.order)
  BY <1>1, <1>9, <1>12, EnrichedIndexed
<1>14. Indexed(T, s.order \ {e}) /\ T.heap = V.heap /\ T.order = V.order
  BY <1>10, <1>13, RemovedIndexed, RemoveRows
<1>15. \A k \in IdentityKey : T.identity[k] \in {Nil, s.identity[k]}
  BY <1>9, <1>10, RemoveRows
<1> HIDE DEF T
<1>16. \A x \in s.order : Key(T.heap[x].physical) = Key(s.heap[x].physical)
  BY <1>1, <1>9, <1>12, <1>14
<1>17. QED BY <1>2, <1>9, <1>14, <1>15, <1>16 DEF KeepsTriples

\* mergeRemovedAliasEntryLocked (registry_alias.go:203-220).
LEMMA MergeRemovedIndexed ==
  ASSUME NEW s, Typed(s), Indexed(s, s.order), NEW d \in s.order, NEW e \in s.order, d # e
  PROVE  LET t == MergeRemovedAliasEntryLocked(s, d, e)
         IN  Indexed(t, t.order)
<1> DEFINE A == AbsorbIdentityLocked(s, d, e)
           U == RemoveIdentityBindingsLocked(A, e)
           ph == CanonicalPhysicalIdentity(U.heap[d].info)
           Ne == [U.heap[d] EXCEPT !.physical = ph]
           V == [U EXCEPT !.heap[d] = Ne]
           k == MergedAuthority(U, d, e, ph)
           W == PublishCurrentIdentityBindingLocked(V, d, k)
           T == [W EXCEPT !.order = @ \ {e}]
           O == s.order \ {e}
<1>1. Points(s, d) /\ Points(s, e) /\ s.order \subseteq EntryId
  BY DEF Typed, PointersType, RegistryState
<1>2. Yields(s, A)
  BY <1>1, AbsorbYields
<1>3. /\ A.identity = s.identity /\ A.order = s.order
      /\ \A x \in EntryId \ {d} : A.heap[x] = s.heap[x]
      /\ A.heap[d].identityKey = s.heap[d].identityKey
  BY <1>1, AbsorbedIdentity
<1> HIDE DEF A
<1>4. Typed(A) /\ Points(A, d) /\ Points(A, e) /\ \A x \in s.order : Points(A, x)
  BY <1>1, <1>2 DEF Yields, Typed, PointersType, Points
<1>5. IndexedBut(A, s.order, d)
  BY <1>1, <1>3, IndexedIsIndexedBut, WriteIndexedBut
<1>6. IndexedBut(U, O, d)
  BY <1>4, <1>5, RemovedIndexedBut
<1>7. /\ U.heap = A.heap /\ U.order = s.order
      /\ \A x \in IdentityKey : U.identity[x] = IF s.identity[x] = e THEN Nil ELSE s.identity[x]
  BY <1>3, <1>4, RemoveRows
<1>8. Typed(U) /\ Points(U, d) /\ Points(U, e)
  BY <1>4, <1>7, RemoveYields DEF Yields, Points
<1>9. MergeRemovedAliasEntryLocked(s, d, e) = T
  BY <1>8 DEF MergeRemovedAliasEntryLocked, RebuildPhysical, WithPhysical, Typed,
              RegistryState, Points, A
<1> HIDE DEF U
<1>10. k \in IdentityKey \union {NoKey}
  BY <1>8 DEF MergedAuthority, Points, DeviceEntry
<1>11. k # NoKey => Key(ph) = k /\ U.identity[k] \in {Nil, d}
  <2> SUFFICES ASSUME k # NoKey PROVE Key(ph) = k /\ U.identity[k] \in {Nil, d}
    OBVIOUS
  <2>1. /\ U.heap[d].identityKey = s.heap[d].identityKey
        /\ U.heap[e].identityKey = s.heap[e].identityKey
    BY <1>1, <1>3, <1>7
  <2>2. Key(ph) = k /\ k \in {s.heap[d].identityKey, s.heap[e].identityKey}
    BY <2>1 DEF MergedAuthority
  <2>3. s.identity[k] \in {d, e}
    BY <2>2 DEF Indexed, OwnsItsRow
  <2>4. QED BY <1>7, <1>10, <2>2, <2>3
<1>12. ph \in PhysicalIdentity
  BY <1>8, CanonicalType DEF Points, DeviceEntry
<1>13. U.heap[d].info \in DeviceInfo /\ ph = CanonicalPhysicalIdentity(U.heap[d].info)
  BY <1>8 DEF Points, DeviceEntry
<1> HIDE DEF k, ph
<1>14. Ne \in DeviceEntry /\ Ne.physical = ph /\ Ne.info = U.heap[d].info
  BY <1>8, <1>12 DEF Points, DeviceEntry
<1> HIDE DEF Ne, O
<1>15. Typed(V) /\ Points(V, d)
  BY <1>8, <1>14, WriteEntryYields DEF Points, Yields
<1>16. /\ V.identity = U.identity /\ V.order = U.order /\ V.heap[d] = Ne
       /\ \A x \in EntryId \ {d} : V.heap[x] = U.heap[x]
  BY <1>8 DEF Typed, RegistryState, Points
<1> HIDE DEF V
<1>17. O \subseteq s.order /\ d \in O /\ d \in EntryId
  BY <1>1 DEF O
<1>18. IndexedBut(V, O, d)
  BY <1>6, <1>7, <1>8, <1>16, <1>17, WriteIndexedBut
<1>19. Canonical(V, d) /\ Key(V.heap[d].physical) = Key(ph)
  BY <1>13, <1>14, <1>16 DEF Canonical
<1>20. Indexed(W, O) /\ W.order = s.order
  BY <1>7, <1>10, <1>11, <1>15, <1>16, <1>17, <1>18, <1>19, PublishIndexed
<1>21. Typed(W)
  BY <1>10, <1>15, PublishYields DEF Yields
<1> HIDE DEF W
<1>22. T.order = O /\ T.identity = W.identity /\ T.heap = W.heap
  BY <1>20, <1>21 DEF O, Typed, RegistryState
<1> HIDE DEF T
<1>23. Indexed(T, O)
  BY <1>20, <1>22 DEF Indexed, Canonical, OwnsItsRow, Carries
<1>24. QED BY <1>9, <1>22, <1>23

-----------------------------------------------------------------------------
\* Helpers that know nothing of identity

\* The faces are copied (registry_scan.go:139-157).
LEMMA SyncSameIdentity ==
  ASSUME NEW s, Typed(s), NEW e, Points(s, e)
  PROVE  SameIdentity(s, SyncEntryFacesLocked(s, e))
BY DEF SyncEntryFacesLocked, SameIdentity, Typed, RegistryState, Points, DeviceEntry

\* A slot is written (registry_scan.go:10).
LEMMA SetSlotSameIdentity ==
  ASSUME NEW s, Typed(s), NEW a, NEW slot
  PROVE  SameIdentity(s, SetSlot(s, a, slot))
BY DEF SetSlot, SameIdentity, Typed, RegistryState

\* The slots of a group are confirmed (registry_registration.go:242-283).
LEMMA ConfirmSameIdentity ==
  ASSUME NEW s, Typed(s), NEW a, NEW e
  PROVE  SameIdentity(s, ConfirmTopologyIdentitySlotsLocked(s, a, e))
BY DEF ConfirmTopologyIdentitySlotsLocked, SameIdentity, Typed, RegistryState

\* An entry is written, but for what it knows (any helper that writes through a
\* *deviceEntry).
LEMMA WriteSameIdentity ==
  ASSUME NEW s, Typed(s), NEW e \in EntryId, NEW entry,
         entry.info = s.heap[e].info, entry.physical = s.heap[e].physical,
         entry.identityKey = s.heap[e].identityKey,
         NEW t, t.order = s.order, t.identity = s.identity,
         \A d \in EntryId \ {e} : t.heap[d] = s.heap[d], t.heap[e] = entry
  PROVE  SameIdentity(s, t)
BY DEF SameIdentity

\* Who is known as whom is who was known as whom (no single line of the code).
LEMMA SameIdentityKeepsTriples ==
  ASSUME NEW s, Typed(s), NEW t, SameIdentity(s, t)
  PROVE  KeepsTriples(s, t)
BY DEF SameIdentity, KeepsTriples, Typed, PointersType, Points

\* Helpers are called one after the other (no single line of the code).
LEMMA KeepsTriplesTransitive ==
  ASSUME NEW s, NEW t, NEW u, SameIdentity(s, t), Typed(s), KeepsTriples(t, u)
  PROVE  KeepsTriples(s, u)
BY DEF SameIdentity, KeepsTriples, Typed, PointersType, Points

-----------------------------------------------------------------------------
\* registerLocked

\* detachAddressLocked (registry_alias.go:360-395).
LEMMA DetachIndexed ==
  ASSUME NEW s, Typed(s), Sound(s), Indexed(s, s.order), NEW a \in Address,
         s.entries[a] # Nil, NEW heir \in Address
  PROVE  LET t == DetachAddressLocked(s, s.entries[a], a, heir)
         IN  Indexed(t, t.order) /\ KeepsTriples(s, t)
<1> DEFINE e == s.entries[a]
           U == [s EXCEPT !.entries[a] = Nil,
                          !.addressTable[a] = IF @ # NoSlot /\ @.Device = e
                                              THEN NoSlot ELSE @]
           V == ForgetTopologyAddressLocked(U, a)
           W == [V EXCEPT !.heap[e] = WithoutAddress(@, a, heir)]
           R == RemoveIdentityBindingsLocked(W, e)
           T1 == [R EXCEPT !.order = @ \ {e}]
           T2 == SyncEntryFacesLocked(W, e)
<1>1. /\ e \in s.order /\ a \in s.heap[e].addresses /\ Points(s, e)
  BY DEF Sound, Groups, Typed, PointersType
<1>2. DetachAddressLocked(s, e, a, heir) = CASE a \notin s.heap[e].addresses -> U
                                             [] s.heap[e].addresses = {a} -> T1
                                             [] OTHER -> T2
  BY DEF DetachAddressLocked
<1>3. Yields(s, U)
  BY UnslottedYields
<1>4. U.order = s.order /\ U.identity = s.identity /\ U.heap = s.heap
  BY <1>1 DEF Typed, RegistryState
<1> HIDE DEF U
<1>5. Yields(s, V)
  BY <1>3, ForgetTopologyYields, YieldsTransitive DEF Yields
<1>6. V.order = U.order /\ V.identity = U.identity /\ V.heap = U.heap
  BY <1>3 DEF ForgetTopologyAddressLocked, Yields, Typed, RegistryState
<1> HIDE DEF V
<1>7. Typed(V) /\ Points(V, e)
  BY <1>1, <1>5 DEF Yields, Points
<1> DEFINE Ne == WithoutAddress(V.heap[e], a, heir)
<1>8. /\ Ne \in DeviceEntry
      /\ Ne.info = V.heap[e].info /\ Ne.physical = V.heap[e].physical
      /\ Ne.identityKey = V.heap[e].identityKey
  BY <1>7, WithoutAddressType DEF Points, WithoutAddress, DeviceEntry
<1>9. W = [V EXCEPT !.heap[e] = Ne]
  BY <1>7 DEF Typed, RegistryState, Points
<1> HIDE DEF Ne
<1>10. Yields(V, W) /\ Points(W, e)
  BY <1>7, <1>8, <1>9, WriteEntryYields DEF Points
<1>11. /\ W.order = V.order /\ W.identity = V.identity /\ W.heap[e] = Ne
       /\ \A d \in EntryId \ {e} : W.heap[d] = V.heap[d]
  BY <1>7, <1>9 DEF Typed, RegistryState, Points
<1> HIDE DEF W
<1>12. SameIdentity(s, W)
  BY <1>1, <1>4, <1>6, <1>8, <1>11, WriteSameIdentity DEF Points
<1>13. Typed(W) /\ Yields(s, W)
  BY <1>5, <1>10, YieldsTransitive DEF Yields
<1>14. Indexed(W, s.order) /\ W.order = s.order
  BY <1>4, <1>6, <1>11, <1>12, SameIdentityKeeps
<1>15. \A x \in s.order : Points(W, x)
  BY <1>13, <1>14 DEF Typed, PointersType
<1>16. CASE s.heap[e].addresses = {a}
  <2>1. Indexed(R, s.order \ {e})
    BY <1>13, <1>14, <1>15, RemovedIndexed
  <2>2. /\ R.heap = W.heap /\ R.order = W.order
        /\ \A x \in IdentityKey : R.identity[x] = IF W.identity[x] = e THEN Nil
                                                  ELSE W.identity[x]
    BY <1>13, RemoveRows
  <2>3. Typed(R)
    BY <1>13, RemoveYields DEF Yields
  <2> HIDE DEF R
  <2>4. T1.order = s.order \ {e} /\ T1.identity = R.identity /\ T1.heap = R.heap
    BY <1>14, <2>2, <2>3 DEF Typed, RegistryState
  <2> HIDE DEF T1
  <2>5. Indexed(T1, T1.order)
    BY <2>1, <2>4 DEF Indexed, Canonical, OwnsItsRow, Carries
  <2>6. KeepsTriples(W, T1)
    BY <2>2, <2>4 DEF KeepsTriples
  <2>7. QED BY <1>1, <1>2, <1>12, <1>16, <2>5, <2>6, KeepsTriplesTransitive
<1>17. CASE s.heap[e].addresses # {a}
  <2>1. SameIdentity(W, T2) /\ T2.order = W.order
    BY <1>10, <1>13, SyncSameIdentity DEF SameIdentity
  <2> HIDE DEF T2
  <2>2. Indexed(T2, T2.order)
    BY <1>13, <1>14, <2>1, SameIdentityKeeps
  <2>3. SameIdentity(s, T2)
    BY <1>12, <1>13, <2>1, SameIdentityTransitive
  <2>4. QED BY <1>1, <1>2, <1>17, <2>2, <2>3, SameIdentityKeepsTriples
<1>18. QED BY <1>16, <1>17

\* The group the address belonged to merges or loses the address
\* (registry_registration.go:115-123).  Only an entry selected by its complete
\* triple takes over another.
LEMMA LeaveGroupIndexed ==
  ASSUME NEW s, Typed(s), Sound(s), Indexed(s, s.order), NEW a \in Address, NEW o,
         NEW i, NEW e, e # Nil => e \in s.order,
         i # Nil => e = i /\ Key(s.heap[i].physical) # NoKey, NEW heir \in Address
  PROVE  LET t == LeaveGroup(s, a, o, i, e, heir)
         IN  Indexed(t, t.order) /\ KeepsTriples(s, t)
<1> DEFINE d == s.entries[a]
           D == DetachAddressLocked(s, d, a, heir)
           M == MergeRegisteredAliasesLocked(s, e, d)
<1>1. d # Nil => d \in s.order
  BY DEF Sound, Groups
<1>2. LeaveGroup(s, a, o, i, e, heir) =
        CASE d \in {Nil, e} -> s
          [] d \notin {Nil, e} /\ i # Nil /\ MergesInto(s, o, e, d) -> M
          [] OTHER -> D
  BY DEF LeaveGroup
<1>3. CASE d \in {Nil, e}
  <2>1. KeepsTriples(s, s)
    BY DEF KeepsTriples
  <2>2. QED BY <1>2, <1>3, <2>1
<1>4. CASE d \notin {Nil, e} /\ i # Nil /\ MergesInto(s, o, e, d)
  <2>1. i # Nil /\ e # Nil
    BY <1>4, NullAssumption DEF Typed, PointersType, Points, Key
  <2>2. Indexed(M, M.order) /\ KeepsTriples(s, M)
    BY <1>1, <1>4, <2>1, MergeRegisteredIndexed
  <2>3. QED BY <1>2, <1>4, <2>2
<1>5. CASE d \notin {Nil, e} /\ ~ (i # Nil /\ MergesInto(s, o, e, d))
  <2>1. Indexed(D, D.order) /\ KeepsTriples(s, D)
    BY <1>5, DetachIndexed
  <2>2. QED BY <1>2, <1>5, <2>1
<1>6. QED BY <1>3, <1>4, <1>5

\* A new entry knows nothing; a selected one gains an address
\* (registry_registration.go:125-133).
LEMMA JoinEntryIndexed ==
  ASSUME NEW s, Typed(s), Indexed(s, s.order), NEW a \in Address, NEW e,
         e # Nil => e \in s.order, NEW fresh \in EntryId \ s.order
  PROVE  LET t == JoinEntry(s, a, e, fresh)
         IN  /\ Indexed(t, t.order)
             /\ t.order = s.order \union {EntryFor(e, fresh)}
             /\ t.identity = s.identity
             /\ \A d \in s.order : /\ t.heap[d].info = s.heap[d].info
                                   /\ t.heap[d].physical = s.heap[d].physical
<1> DEFINE t == JoinEntry(s, a, e, fresh)
<1>1. s.order \subseteq EntryId /\ Nil \notin s.order
  BY NullAssumption DEF Typed, PointersType, RegistryState
<1>2. CASE e = Nil
  <2>1. /\ t.identity = s.identity /\ t.order = s.order \union {fresh}
        /\ t.heap[fresh] = NewEntry(a)
        /\ \A d \in s.order : t.heap[d] = s.heap[d]
    BY <1>1, <1>2 DEF JoinEntry, Typed, RegistryState
  <2> HIDE DEF t
  <2>2. /\ t.heap[fresh].identityKey = NoKey
        /\ t.heap[fresh].info = NoInfo /\ t.heap[fresh].physical = NoInfo
    BY <2>1 DEF NewEntry
  <2>3. NoInfo = CanonicalPhysicalIdentity(NoInfo)
    BY NormAssumption DEF NoInfo, CanonicalPhysicalIdentity
  <2>4. Canonical(t, fresh) /\ OwnsItsRow(t, fresh)
    BY <2>2, <2>3 DEF Canonical, OwnsItsRow
  <2>5. \A d \in t.order : Canonical(t, d) /\ OwnsItsRow(t, d)
    BY <2>1, <2>4 DEF Indexed, Canonical, OwnsItsRow
  <2>6. \A k \in IdentityKey : t.identity[k] # Nil =>
           t.identity[k] \in t.order /\ Carries(t, t.identity[k], k)
    BY <2>1 DEF Indexed, Carries
  <2>7. QED BY <1>2, <2>1, <2>5, <2>6 DEF Indexed, EntryFor, t
<1>3. CASE e # Nil
  <2> DEFINE Ne == [s.heap[e] EXCEPT !.addresses = @ \union {a}]
  <2>1. e \in s.order /\ Points(s, e) /\ e \in EntryId
    BY <1>3 DEF Typed, PointersType, Points
  <2>2. /\ t.identity = s.identity /\ t.order = s.order
        /\ t.heap[e] = Ne
        /\ \A d \in EntryId \ {e} : t.heap[d] = s.heap[d]
    BY <1>3, <2>1 DEF JoinEntry, Typed, RegistryState
  <2>3. /\ Ne.info = s.heap[e].info /\ Ne.physical = s.heap[e].physical
        /\ Ne.identityKey = s.heap[e].identityKey
    BY <2>1 DEF Points, DeviceEntry
  <2> HIDE DEF t, Ne
  <2>4. SameIdentity(s, t)
    BY <2>1, <2>2, <2>3, WriteSameIdentity
  <2>5. Indexed(t, t.order)
    BY <2>2, <2>4, SameIdentityKeeps
  <2>6. \A d \in s.order : /\ t.heap[d].info = s.heap[d].info
                           /\ t.heap[d].physical = s.heap[d].physical
    BY <1>1, <2>2, <2>3
  <2>7. s.order = s.order \union {e}
    BY <2>1
  <2>8. QED BY <1>3, <2>2, <2>5, <2>6, <2>7 DEF EntryFor, t
<1>4. QED BY <1>2, <1>3

\* registerLocked from the stored info on (registry_registration.go:135-206).  A
\* complete triple that contradicts no other entry is free or the entry's own.
LEMMA StoreIndexed ==
  ASSUME NoBlankFields, NEW before, NEW s, Typed(s), Indexed(s, s.order),
         NEW a \in Address, NEW o \in Observation, NEW e \in s.order, NEW keepID,
         keepID /\ IncomingKey[o] # NoKey => Key(s.heap[e].physical) = IncomingKey[o],
         IncomingKey[o] # NoKey /\ ~ IdentityConflict(before, o)
            => s.identity[IncomingKey[o]] \in {Nil, e}
  PROVE  LET t == Store(before, s, a, o, e, keepID)
         IN  Indexed(t, t.order)
<1> DEFINE info == StoredInfo(o, s.heap[e], keepID)
           k == AuthorityKey(before, o, s.heap[e])
           Ne == Rebuilt(s.heap[e], info, Matched(s, info))
           U == [s EXCEPT !.heap[e] = Ne]
           V == PublishCurrentIdentityBindingLocked(U, e, k)
           T == [V EXCEPT !.entries[a] = e]
<1>1. Points(s, e) /\ e \in EntryId /\ s.order \subseteq EntryId
  BY DEF Typed, PointersType, Points, RegistryState
<1>2. info \in DeviceInfo /\ k \in IdentityKey \union {NoKey}
  BY <1>1, StoredInfoType, AuthorityKeyType, ObservationAssumption DEF Points
<1>3. Matched(s, info) \in SUBSET Provider
  BY DEF Matched, Typed, RegistryState
<1>4. Store(before, s, a, o, e, keepID) = T
  BY <1>1 DEF Store, StoreInfo, Points, Typed, RegistryState
<1>5. Canonical(s, e) /\ OwnsItsRow(s, e)
  BY DEF Indexed
<1>6. IncomingKey[o] = KeyOf(o)
  BY DEF IncomingKey
<1>7. k # NoKey => KeyOf(info) = k /\ s.identity[k] \in {Nil, e}
  <2>1. CASE IdentityConflict(before, o)
    <3>1. IncomingKey[o] # NoKey
      BY <2>1 DEF IdentityConflict, Contradicts, CurrentIdentityEntry
    <3>2. QED BY <2>1, <3>1 DEF AuthorityKey
  <2>2. CASE /\ ~ IdentityConflict(before, o)
             /\ IncomingKey[o] = NoKey /\ PreservesCurrentIdentityAuthority(o, s.heap[e])
    <3>1. k = s.heap[e].identityKey
      BY <2>2 DEF AuthorityKey
    <3>2. KeyOf(info) = k
      BY <1>5, <2>2, <3>1, PreservedTriple DEF Canonical
    <3>3. k # NoKey => s.identity[k] = e
      BY <1>5, <3>1 DEF OwnsItsRow
    <3>4. QED BY <3>2, <3>3
  <2>3. CASE /\ ~ IdentityConflict(before, o)
             /\ ~ (IncomingKey[o] = NoKey /\ PreservesCurrentIdentityAuthority(o, s.heap[e]))
    <3>1. k = IncomingKey[o]
      BY <2>3 DEF AuthorityKey
    <3>2. ASSUME IncomingKey[o] # NoKey PROVE KeyOf(info) = k
      <4>1. keepID => KeyOf(s.heap[e].info) = KeyOf(o)
        BY <1>5, <1>6, <3>2 DEF Canonical, KeyOf
      <4>2. QED BY <1>6, <3>1, <3>2, <4>1, StoredTriple
    <3>3. QED BY <2>3, <3>1, <3>2
  <2>4. QED BY <2>1, <2>2, <2>3
<1> HIDE DEF k, info
<1>8. Ne.info = info /\ Ne.physical = CanonicalPhysicalIdentity(info)
  BY <1>1 DEF Rebuilt, Points, DeviceEntry
<1>9. Ne \in DeviceEntry
  BY <1>1, <1>2, <1>3, RebuiltType DEF Points
<1> HIDE DEF Ne
<1>10. Typed(U) /\ Points(U, e)
  BY <1>1, <1>9, WriteEntryYields DEF Yields
<1>11. /\ U.identity = s.identity /\ U.order = s.order /\ U.heap[e] = Ne
       /\ \A x \in EntryId \ {e} : U.heap[x] = s.heap[x]
  BY <1>1 DEF Typed, RegistryState
<1> HIDE DEF U
<1>12. IndexedBut(U, s.order, e)
  BY <1>1, <1>11, IndexedIsIndexedBut, WriteIndexedBut
<1>13. Canonical(U, e) /\ Key(U.heap[e].physical) = KeyOf(info)
  BY <1>8, <1>11 DEF Canonical, KeyOf
<1>14. Indexed(V, s.order) /\ V.order = s.order
  BY <1>2, <1>7, <1>10, <1>11, <1>12, <1>13, PublishIndexed
<1>15. Typed(V)
  BY <1>2, <1>10, PublishYields DEF Yields
<1> HIDE DEF V
<1>16. T.order = V.order /\ T.identity = V.identity /\ T.heap = V.heap
  BY <1>15 DEF Typed, RegistryState
<1> HIDE DEF T
<1>17. Indexed(T, T.order)
  BY <1>14, <1>16 DEF Indexed, Canonical, OwnsItsRow, Carries
<1>18. QED BY <1>4, <1>17

\* The entry an observation with a complete triple selects
\* (registry_registration.go:75-113).
LEMMA SelectedTriple ==
  ASSUME NEW s, Typed(s), Indexed(s, s.order), NEW a, NEW o \in Observation
  PROVE  LET i == ExistingByIdentity(s, o)
             e == SelectEntry(s, a, o, i)
         IN  /\ i # Nil => /\ e = i /\ i \in s.order
                           /\ IncomingKey[o] # NoKey
                           /\ Key(s.heap[i].physical) = IncomingKey[o]
             /\ IncomingKey[o] # NoKey /\ ~ IdentityConflict(s, o)
                   => s.identity[IncomingKey[o]] = i
<1> DEFINE i == ExistingByIdentity(s, o)
           e == SelectEntry(s, a, o, i)
           k == IncomingKey[o]
           c == CurrentIdentityEntry(s, k)
<1>1. k \in IdentityKey \union {NoKey}
  BY IncomingKeyType
<1> HIDE DEF k
<1>2. c = IF k = NoKey THEN Nil ELSE s.identity[k]
  BY <1>1, NothingIsStale
<1>3. i = IF Contradicts(s, o, c) THEN Nil ELSE c
  BY DEF ExistingByIdentity, Admitted, k
<1>4. IdentityConflict(s, o) <=> Contradicts(s, o, c)
  BY DEF IdentityConflict, k
<1> HIDE DEF c
<1>5. i # Nil => ~ Contradicts(s, o, i) /\ i = c
  BY <1>3
<1>6. i # Nil => e = i
  <2> HIDE DEF i
  <2>1. QED BY <1>5 DEF SelectEntry, Retained
<1>7. i # Nil => k # NoKey /\ i \in s.order /\ Key(s.heap[i].physical) = k
  BY <1>1, <1>2, <1>5 DEF Indexed, Carries
<1>8. k # NoKey /\ ~ IdentityConflict(s, o) => s.identity[k] = i
  BY <1>2, <1>3, <1>4
<1> HIDE DEF i, e
<1>9. QED BY <1>6, <1>7, <1>8 DEF i, e, k

\* registerLocked (registry_registration.go:66-209).
LEMMA RegisterLockedIndexed ==
  ASSUME NoBlankFields, NEW s, Typed(s), Sound(s), Indexed(s, s.order), NEW a \in Address,
         NEW o \in Observation, NEW fresh \in EntryId \ s.order, NEW heir \in Address,
         GoodHeir(s, a, heir)
  PROVE  LET t == RegisterLocked(s, a, o, fresh, heir)
         IN  Indexed(t, t.order)
<1> DEFINE i == ExistingByIdentity(s, o)
           e == SelectEntry(s, a, o, i)
           r == EntryFor(e, fresh)
           U == DropStaleIdentity(s, IncomingKey[o])
           V == LeaveGroup(U, a, o, i, e, heir)
           W == JoinEntry(V, a, e, fresh)
           keepID == i \notin {Nil, s.entries[a]}
           X == Store(s, W, a, o, r, keepID)
<1>1. RegisterLocked(s, a, o, fresh, heir) = X
  BY DEF RegisterLocked, RegisterAdmitted, RegisterInto, EntryFor
<1>2. /\ i # Nil => /\ e = i /\ i \in s.order
                    /\ IncomingKey[o] # NoKey
                    /\ Key(s.heap[i].physical) = IncomingKey[o]
      /\ IncomingKey[o] # NoKey /\ ~ IdentityConflict(s, o)
            => s.identity[IncomingKey[o]] = i
  BY SelectedTriple
<1>3. (e # Nil => e \in s.order) /\ Nil \notin s.order
  BY <1>2, NullAssumption
  DEF SelectEntry, Retained, Sound, Groups, Typed, PointersType, Points
<1>4. /\ Yields(s, U) /\ Steady(s, U) /\ U.order = s.order /\ U.heap = s.heap
      /\ RowsWithin(U, s.order) /\ SameIdentity(s, U)
  BY IncomingKeyType, DropStaleYields, DropStaleSteady, NothingIsStale DEF Sound
<1> HIDE DEF U, i, e
<1>5. Typed(U) /\ U.entries = s.entries /\ U.identity = s.identity
  BY <1>4 DEF Yields, Steady, SameIdentity
<1>6. Sound(U) /\ GoodHeir(U, a, heir)
  BY <1>4, <1>5, SteadyKeeps DEF Sound, GoodHeir
<1>7. Indexed(U, U.order)
  BY <1>4, SameIdentityKeeps
<1>8. Indexed(V, V.order) /\ KeepsTriples(U, V)
  BY <1>2, <1>3, <1>4, <1>5, <1>6, <1>7, LeaveGroupIndexed
<1>9. /\ V.order \subseteq U.order
      /\ e # Nil => e \in V.order
  BY <1>2, <1>3, <1>4, <1>5, <1>6, LeaveGroupSound
<1>10. Typed(V)
  <2>1. e # Nil => Points(U, e)
    BY <1>3, <1>4, <1>5 DEF Typed, PointersType
  <2>2. i # Nil => e # Nil
    BY <1>2
  <2>3. QED BY <1>5, <2>1, <2>2, LeaveGroupYields DEF Yields
<1> HIDE DEF V
<1>11. fresh \in EntryId \ V.order
  BY <1>4, <1>9
<1>12. /\ Indexed(W, W.order)
       /\ W.order = V.order \union {r}
       /\ W.identity = V.identity
       /\ \A d \in V.order : W.heap[d].physical = V.heap[d].physical
  BY <1>8, <1>9, <1>10, <1>11, JoinEntryIndexed, SMTT(20)
<1>13. Typed(W)
  <2>1. e # Nil => Points(V, e)
    BY <1>9, <1>10 DEF Typed, PointersType
  <2>2. QED BY <1>10, <1>11, <2>1, JoinEntryYields DEF Yields
<1> HIDE DEF W
<1>14. i # Nil => r = i /\ Key(W.heap[r].physical) = IncomingKey[o]
  <2> SUFFICES ASSUME i # Nil PROVE r = i /\ Key(W.heap[r].physical) = IncomingKey[o]
    OBVIOUS
  <2>1. e = i /\ r = i /\ i \in U.order /\ i \in V.order
    BY <1>2, <1>4, <1>9 DEF EntryFor
  <2>2. Key(U.heap[i].physical) = IncomingKey[o] /\ IncomingKey[o] # NoKey
    BY <1>2, <1>4
  <2>3. Key(V.heap[i].physical) = Key(U.heap[i].physical)
    BY <1>8, <2>1, <2>2 DEF KeepsTriples
  <2>4. QED BY <1>12, <2>1, <2>2, <2>3
<1>15. IncomingKey[o] # NoKey /\ ~ IdentityConflict(s, o)
          => W.identity[IncomingKey[o]] \in {Nil, r}
  <2> SUFFICES ASSUME IncomingKey[o] # NoKey, ~ IdentityConflict(s, o)
               PROVE  W.identity[IncomingKey[o]] \in {Nil, r}
    OBVIOUS
  <2>1. IncomingKey[o] \in IdentityKey
    BY IncomingKeyType
  <2>2. V.identity[IncomingKey[o]] \in {Nil, i}
    BY <1>2, <1>5, <1>8, <2>1 DEF KeepsTriples
  <2>3. QED BY <1>12, <1>14, <2>2
<1>16. keepID /\ IncomingKey[o] # NoKey => Key(W.heap[r].physical) = IncomingKey[o]
  BY <1>14
<1>17. r \in W.order
  BY <1>12
<1> HIDE DEF r, keepID
<1>18. Indexed(X, X.order)
  BY <1>12, <1>13, <1>15, <1>16, <1>17, StoreIndexed
<1>19. QED BY <1>1, <1>18

-----------------------------------------------------------------------------
\* AliasAddresses

\* The group the address is taken from merges or survives (registry_alias.go:143-162).
LEMMA LeaveSecondaryIndexed ==
  ASSUME NEW s, Typed(s), Sound(s), Indexed(s, s.order), NEW d \in s.order,
         NEW a \in Address, NEW heir \in Address
  PROVE  LET t == LeaveSecondary(s, d, a, s.entries[a], heir)
         IN  Indexed(t, t.order)
<1> DEFINE e == s.entries[a]
<1>1. CASE e \in {Nil, d}
  BY <1>1 DEF LeaveSecondary
<1>2. CASE e \notin {Nil, d}
  <2> DEFINE Ne == WithoutAddress(s.heap[e], a, heir)
             U == [s EXCEPT !.heap[e] = Ne]
             M == MergeRemovedAliasEntryLocked(U, d, e)
             Y == SyncEntryFacesLocked(U, e)
  <2>1. e \in s.order /\ Points(s, e) /\ e \in EntryId
    BY <1>2 DEF Sound, Groups, Typed, PointersType, Points
  <2>2. /\ Ne \in DeviceEntry
        /\ Ne.info = s.heap[e].info /\ Ne.physical = s.heap[e].physical
        /\ Ne.identityKey = s.heap[e].identityKey
    BY <2>1, WithoutAddressType DEF Points, WithoutAddress, DeviceEntry
  <2>3. Typed(U) /\ Points(U, e)
    BY <2>1, <2>2, WriteEntryYields DEF Yields
  <2>4. LeaveSecondary(s, d, a, e, heir) = IF s.heap[e].addresses = {a} THEN M ELSE Y
    BY <1>2, <2>1 DEF LeaveSecondary, Points, Typed, RegistryState
  <2>5. /\ U.order = s.order /\ U.identity = s.identity
        /\ U.heap[e] = Ne /\ \A x \in EntryId \ {e} : U.heap[x] = s.heap[x]
    BY <2>1 DEF Typed, RegistryState
  <2> HIDE DEF U, Ne, e
  <2>6. SameIdentity(s, U)
    BY <2>1, <2>2, <2>5, WriteSameIdentity
  <2>7. Indexed(U, U.order)
    BY <2>5, <2>6, SameIdentityKeeps
  <2>8. Indexed(M, M.order)
    BY <1>2, <2>1, <2>3, <2>5, <2>7, MergeRemovedIndexed
  <2>9. Indexed(Y, Y.order)
    <3>1. SameIdentity(U, Y) /\ Y.order = U.order
      BY <2>3, SyncSameIdentity DEF SameIdentity
    <3> HIDE DEF Y
    <3>2. QED BY <2>3, <2>7, <3>1, SameIdentityKeeps
  <2>10. QED BY <2>4, <2>8, <2>9 DEF e
<1>3. QED BY <1>1, <1>2

\* The address joins the canonical group (registry_alias.go:163-168).
LEMMA JoinGroupSameIdentity ==
  ASSUME NEW s, Typed(s), NEW d, Points(s, d), NEW a \in Address,
         s.addressTable[a] # NoSlot
  PROVE  SameIdentity(s, JoinGroup(s, d, a))
<1> DEFINE Sl == Attached(s.addressTable[a], d)
           Ne == [s.heap[d] EXCEPT !.addresses = @ \union {a}]
           T == [s EXCEPT !.addressTable = [@ EXCEPT ![a] = Sl],
                          !.heap = [@ EXCEPT ![d] = Ne],
                          !.entries = [@ EXCEPT ![a] = d]]
<1>1. Sl \in AddressSlot /\ Sl.Device = d
  BY AttachedType DEF Typed, RegistryState, Points
<1>2. /\ Ne \in DeviceEntry
      /\ Ne.info = s.heap[d].info /\ Ne.physical = s.heap[d].physical
      /\ Ne.identityKey = s.heap[d].identityKey
  BY DEF Points, DeviceEntry
<1>3. JoinGroup(s, d, a) = SyncEntryFacesLocked(T, d)
  BY DEF JoinGroup, Typed, RegistryState, Points
<1> HIDE DEF Sl, Ne
<1>4. T \in RegistryState
  BY <1>1, <1>2 DEF Typed, RegistryState, Points
<1>5. \A x \in EntryId : Points(s, x) => Points(T, x)
  BY <1>2 DEF Typed, RegistryState, Points
<1>6. PointersType(T)
  BY <1>1, <1>5 DEF Typed, RegistryState, PointersType, Points
<1>7. /\ T.order = s.order /\ T.identity = s.identity /\ T.heap[d] = Ne
      /\ \A x \in EntryId \ {d} : T.heap[x] = s.heap[x]
  BY DEF Typed, RegistryState, Points
<1>8. Points(T, d) /\ Typed(T)
  BY <1>4, <1>5, <1>6 DEF Points, Typed
<1> HIDE DEF T
<1>9. SameIdentity(s, T)
  BY <1>2, <1>7, WriteSameIdentity DEF Points
<1>10. SameIdentity(T, SyncEntryFacesLocked(T, d))
  BY <1>8, SyncSameIdentity
<1>11. QED BY <1>3, <1>5, <1>9, <1>10 DEF SameIdentity

\* An address moves to the canonical group (registry_alias.go:141-168).
LEMMA MoveToGroupIndexed ==
  ASSUME NEW s, Typed(s), Sound(s), Indexed(s, s.order), NEW d \in s.order,
         NEW a \in Address, NEW heir \in Address, GoodHeir(s, a, heir),
         s.addressTable[a] # NoSlot
  PROVE  LET t == MoveToGroup(s, d, a, heir)
         IN  Indexed(t, t.order)
<1> DEFINE e == s.entries[a]
           U == LeaveSecondary(s, d, a, e, heir)
           T == JoinGroup(U, d, a)
<1>1. MoveToGroup(s, d, a, heir) = T
  BY DEF MoveToGroup, Sound, Slots
<1>2. Indexed(U, U.order)
  BY LeaveSecondaryIndexed
<1>3. d \in U.order /\ U.addressTable = s.addressTable
  BY LeaveSecondarySound
<1>4. Typed(U)
  <2>1. Points(s, d) /\ (e # Nil => Points(s, e))
    BY DEF Typed, PointersType
  <2>2. QED BY <2>1, LeaveSecondaryYields DEF Yields
<1> HIDE DEF U
<1>5. SameIdentity(U, T) /\ T.order = U.order
  BY <1>3, <1>4, JoinGroupSameIdentity DEF Typed, PointersType, SameIdentity
<1> HIDE DEF T
<1>6. QED BY <1>1, <1>2, <1>4, <1>5, SameIdentityKeeps

\* The group a and b end up in (registry_alias.go:140-189).
LEMMA GroupedIndexed ==
  ASSUME NEW s, Typed(s), Sound(s), Indexed(s, s.order), NEW a \in Address,
         NEW b \in Address, NEW heir \in Address, GoodHeir(s, b, heir),
         s.addressTable[a] # NoSlot, s.addressTable[b] # NoSlot
  PROVE  LET t == Grouped(s, a, b, heir)
         IN  Indexed(t, t.order)
<1> DEFINE da == s.entries[a]
           db == s.entries[b]
<1>1. s.addressTable[a].Device = da /\ s.addressTable[b].Device = db
  BY DEF Sound, Slots
<1>2. Grouped(s, a, b, heir) = CASE da # Nil -> MoveToGroup(s, da, b, heir)
                                 [] da = Nil /\ db # Nil -> MoveToGroup(s, db, a, heir)
                                 [] OTHER -> s
  BY <1>1 DEF Grouped
<1>3. (da # Nil => da \in s.order) /\ (db # Nil => db \in s.order)
  BY DEF Sound, Groups
<1>4. da = Nil => GoodHeir(s, a, heir)
  BY NullAssumption DEF GoodHeir, Typed, PointersType, Points
<1> HIDE DEF da, db
<1>5. CASE da # Nil
  BY <1>2, <1>3, <1>5, MoveToGroupIndexed
<1>6. CASE da = Nil /\ db # Nil
  BY <1>2, <1>3, <1>4, <1>6, MoveToGroupIndexed
<1>7. CASE da = Nil /\ db = Nil
  BY <1>2, <1>7
<1>8. QED BY <1>5, <1>6, <1>7

\* AliasAddresses up to the generation (registry_alias.go:137-193).
LEMMA AliasedIndexed ==
  ASSUME NEW s, Typed(s), Sound(s), Indexed(s, s.order), NEW a \in Address,
         NEW b \in Address, NEW heir \in Address, GoodHeir(s, b, heir)
  PROVE  LET t == Aliased(s, a, b, heir)
         IN  Indexed(t, t.order)
<1> DEFINE U == Ensured(s, {a, b})
           V == Grouped(U, a, b, heir)
           T == RecordIfJoined(V, a, b)
<1>1. Aliased(s, a, b, heir) = T
  BY DEF Aliased
<1>2. Typed(U) /\ U.addressTable[a] # NoSlot /\ U.addressTable[b] # NoSlot
  BY EnsuredYields DEF Yields
<1>3. Sound(U) /\ SameGroups(s, U) /\ U.heap = s.heap
  BY EnsuredSound
<1>4. SameIdentity(s, U)
  BY DEF Ensured, SameIdentity, Typed, RegistryState
<1> HIDE DEF U
<1>5. GoodHeir(U, b, heir)
  BY <1>3 DEF GoodHeir, SameGroups
<1>6. Indexed(U, U.order)
  BY <1>3, <1>4, SameIdentityKeeps DEF SameGroups
<1>7. Indexed(V, V.order)
  BY <1>2, <1>3, <1>5, <1>6, GroupedIndexed
<1>8. Typed(V)
  BY <1>2, GroupedYields DEF Yields
<1> HIDE DEF V
<1>9. SameIdentity(V, T) /\ T.order = V.order
  BY <1>8 DEF RecordIfJoined, RecordTopologyAliasLocked, SameIdentity, Typed, RegistryState
<1> HIDE DEF T
<1>10. QED BY <1>1, <1>7, <1>8, <1>9, SameIdentityKeeps

-----------------------------------------------------------------------------
\* The operations

\* The books decide whether the index is current (no single line of the code).
LEMMA SameBooksIndexed ==
  ASSUME NEW s, Indexed(s, s.order), NEW t, SameBooks(s, t)
  PROVE  Indexed(t, t.order)
BY DEF SameBooks, Indexed, Canonical, OwnsItsRow, Carries

\* A registration that ends by copying faces (registry_registration.go:15-22,
\* 233-239, registry_scan.go:106-112).
LEMMA SyncedIndexed ==
  ASSUME NEW s, Typed(s), Indexed(s, s.order), NEW t, SameIdentity(s, t), Yields(s, t),
         NEW e, Points(t, e), NEW u, SameBooks(SyncEntryFacesLocked(t, e), u)
  PROVE  Indexed(u, u.order)
<1> DEFINE T == SyncEntryFacesLocked(t, e)
<1>1. Indexed(t, t.order) /\ Typed(t)
  BY SameIdentityKeeps DEF SameIdentity, Yields
<1>2. SameIdentity(t, T) /\ T.order = t.order
  BY <1>1, SyncSameIdentity DEF SameIdentity
<1> HIDE DEF T
<1>3. Indexed(T, T.order)
  BY <1>1, <1>2, SameIdentityKeeps
<1>4. QED BY <1>3, SameBooksIndexed DEF T

\* The slots of a directly observed group (registry_registration.go:17-20).
LEMMA ConfirmFromSameIdentity ==
  ASSUME NEW s, Typed(s), NEW a \in Address, NEW e, Points(s, e)
  PROVE  SameIdentity(s, ConfirmFrom(s, a, e))
<1> DEFINE U == ObserveAddressSlotLocked(s, a, e, IdentityConfirmed)
           V == ConfirmTopologyIdentitySlotsLocked(U, a, e)
<1>1. Yields(s, U)
  BY ObserveMarks, StampConstants DEF Marks
<1>2. SameIdentity(s, U)
  BY SetSlotSameIdentity DEF ObserveAddressSlotLocked
<1> HIDE DEF U
<1>3. SameIdentity(U, V)
  BY <1>1, ConfirmSameIdentity DEF Yields
<1> HIDE DEF V
<1>4. SameIdentity(s, V)
  BY <1>1, <1>2, <1>3, SameIdentityTransitive
<1>5. QED BY <1>4 DEF ConfirmFrom, U, V

\* Register (registry_registration.go:5).
LEMMA RegisterIndexed ==
  ASSUME NoBlankFields, Typed(registry), Sound(registry), Indexed(registry, registry.order),
         NEW a \in Address, NEW o \in Observation, Register(a, o)
  PROVE  Indexed(registry', registry'.order)
<1>1. PICK fresh \in Allocated(registry), heir \in Heirs(registry, a) :
         registry' = RegisteredActively(RegisterLocked(registry, a, o, fresh, heir), a, o)
  BY DEF Register
<1>2. fresh \in EntryId \ registry.order /\ heir \in Address /\ GoodHeir(registry, a, heir)
  BY AllocatedIsFresh, HeirsType, HeirsAreGood DEF Register
<1> DEFINE U == RegisterLocked(registry, a, o, fresh, heir)
           e == U.entries[a]
           V == IF IncomingKey[o] # NoKey THEN ConfirmFrom(U, a, e)
                                          ELSE ObserveAddressSlotLocked(U, a, e, Candidate)
           T == SyncEntryFacesLocked(V, e)
<1>3. Typed(U) /\ Points(U, e)
  BY <1>2, RegisterLockedYields DEF Yields
<1>4. Indexed(U, U.order)
  BY <1>2, RegisterLockedIndexed
<1>5. registry' = RecordDirectQualifiedIdentityWitnessLocked(
                     ReconcileQualifiedIdentityWitnessesLocked(Advance(T)), a, o, e)
  BY <1>1 DEF RegisteredActively, ActivelyObserved
<1> HIDE DEF U, e
<1>6. SameIdentity(U, V) /\ Yields(U, V)
  <2>1. CASE IncomingKey[o] # NoKey
    BY <1>3, <2>1, ConfirmFromSameIdentity, ConfirmFromMarks DEF Marks
  <2>2. CASE IncomingKey[o] = NoKey
    <3>1. SameIdentity(U, ObserveAddressSlotLocked(U, a, e, Candidate))
      BY <1>3, SetSlotSameIdentity DEF ObserveAddressSlotLocked
    <3>2. Yields(U, ObserveAddressSlotLocked(U, a, e, Candidate))
      BY <1>3, ObserveMarks, StampConstants DEF Marks
    <3>3. QED BY <2>2, <3>1, <3>2
  <2>3. QED BY <2>1, <2>2
<1> HIDE DEF V
<1>7. Points(V, e) /\ Typed(V)
  BY <1>3, <1>6 DEF Yields, Points
<1>8. Typed(T)
  BY <1>7, SyncYields DEF Yields
<1>9. SameBooks(T, registry')
  BY <1>5, <1>8, EndingsKeepBooks
<1>10. QED BY <1>3, <1>4, <1>6, <1>7, <1>9, SyncedIndexed

\* RegisterStaticSeed and RegisterPassiveObserved past registerLocked
\* (registry_registration.go:233-239, registry_scan.go:106-112).
LEMMA StampedRegistrationIndexed ==
  ASSUME NoBlankFields, NEW s, Typed(s), Sound(s), Indexed(s, s.order), NEW a \in Address,
         NEW o \in Observation, EntryId # s.order, NEW fresh \in Allocated(s),
         NEW heir \in Heirs(s, a), heir \in Address,
         NEW source \in DiscoverySource, NEW floor \in VerificationState, NEW role \in SlotRole
  PROVE  LET u == RegisterLocked(s, a, o, fresh, heir)
             t == StampedRegistration(u, a, u.entries[a],
                                      Stamp(SlotFor(u, a), source, floor, role))
         IN  Indexed(t, t.order)
<1> DEFINE U == RegisterLocked(s, a, o, fresh, heir)
           e == U.entries[a]
           slot == Stamp(SlotFor(U, a), source, floor, role)
           V == SetSlot(U, a, Attached(slot, e))
           T == SyncEntryFacesLocked(V, e)
           W == ReconcileQualifiedIdentityWitnessesLocked(Advance(T))
<1>1. fresh \in EntryId \ s.order /\ GoodHeir(s, a, heir)
  BY AllocatedIsFresh, HeirsAreGood
<1>2. Typed(U) /\ Points(U, e)
  BY <1>1, RegisterLockedYields DEF Yields
<1>3. Indexed(U, U.order)
  BY <1>1, RegisterLockedIndexed
<1>4. StampedRegistration(U, a, e, slot) = W
  BY DEF StampedRegistration
<1> HIDE DEF U, e
<1>5. Attached(slot, e) \in AddressSlot /\ Attached(slot, e).Device = e
  BY <1>2, SlotForType, StampType, AttachedType DEF Points
<1> HIDE DEF slot
<1>6. Yields(U, V) /\ SameIdentity(U, V)
  BY <1>2, <1>5, SetSlotYields, SetSlotSameIdentity
<1> HIDE DEF V
<1>7. Points(V, e) /\ Typed(V)
  BY <1>2, <1>6 DEF Yields, Points
<1>8. Typed(T)
  BY <1>7, SyncYields DEF Yields
<1>9. SameBooks(T, W)
  BY <1>8, EndingsKeepBooks
<1> HIDE DEF W
<1>10. Indexed(W, W.order)
  BY <1>2, <1>3, <1>6, <1>7, <1>9, SyncedIndexed
<1>11. QED BY <1>4, <1>10 DEF U, e, slot

\* RegisterStaticSeed (registry_registration.go:225).
LEMMA RegisterStaticSeedIndexed ==
  ASSUME NoBlankFields, Typed(registry), Sound(registry), Indexed(registry, registry.order),
         NEW a \in Address, NEW o \in Observation, NEW role \in ObservedRole,
         RegisterStaticSeed(a, o, role)
  PROVE  Indexed(registry', registry'.order)
<1>1. PICK fresh \in Allocated(registry), heir \in Heirs(registry, a) :
         registry' = RegisteredAsSeed(RegisterLocked(registry, a, o, fresh, heir), a, role)
  BY DEF RegisterStaticSeed
<1>2. heir \in Address /\ role \in SlotRole /\ EntryId # registry.order
  BY HeirsType, ObservationAssumption DEF RegisterStaticSeed
<1>3. QED
  BY <1>1, <1>2, StampedRegistrationIndexed, StampConstants
  DEF RegisteredAsSeed, MarkSlotStaticSeedLocked

\* RegisterPassiveObserved (registry_scan.go:98).
LEMMA RegisterPassiveObservedIndexed ==
  ASSUME NoBlankFields, Typed(registry), Sound(registry), Indexed(registry, registry.order),
         NEW a \in Address, NEW o \in Observation, NEW role \in ObservedRole,
         RegisterPassiveObserved(a, o, role)
  PROVE  Indexed(registry', registry'.order)
<1>1. PICK fresh \in Allocated(registry), heir \in Heirs(registry, a) :
         registry' = RegisteredPassively(RegisterLocked(registry, a, o, fresh, heir), a, role)
  BY DEF RegisterPassiveObserved
<1>2. heir \in Address /\ role \in SlotRole /\ EntryId # registry.order
  BY HeirsType, ObservationAssumption DEF RegisterPassiveObserved
<1>3. QED
  BY <1>1, <1>2, StampedRegistrationIndexed, StampConstants
  DEF RegisteredPassively, MarkSlotPassiveObservedLocked

\* confirmScanIdentity (registry_registration.go:28).
LEMMA ConfirmScanIdentityIndexed ==
  ASSUME Typed(registry), Sound(registry), Indexed(registry, registry.order),
         NEW a \in Address, ConfirmScanIdentity(a)
  PROVE  Indexed(registry', registry'.order)
<1> DEFINE e == registry.entries[a]
           V == ConfirmFrom(registry, a, e)
           T == SyncEntryFacesLocked(V, e)
<1>1. Points(registry, e)
  BY DEF ConfirmScanIdentity, Typed, PointersType
<1>2. registry' = Advance(T)
  BY DEF ConfirmScanIdentity
<1> HIDE DEF e
<1>3. SameIdentity(registry, V) /\ Yields(registry, V) /\ Points(V, e)
  BY <1>1, ConfirmFromSameIdentity, ConfirmFromMarks DEF Marks
<1> HIDE DEF V
<1>4. Typed(T)
  BY <1>3, SyncYields DEF Yields
<1>5. SameBooks(T, registry')
  BY <1>2, <1>4, EndingsKeepBooks
<1>6. QED BY <1>3, <1>5, SyncedIndexed

\* A slot is marked, and nothing else (registry_scan.go:35-50,
\* registry_registration.go:303-316).
LEMMA MarkingIndexed ==
  ASSUME NEW s, Typed(s), Indexed(s, s.order), NEW a \in Address,
         NEW source \in DiscoverySource, NEW floor \in VerificationState, NEW role \in SlotRole
  PROVE  LET t == Advance(SyncIfAttached(
                      SetSlot(s, a, Stamp(SlotFor(s, a), source, floor, role)), a))
         IN  Indexed(t, t.order)
<1> DEFINE slot == Stamp(SlotFor(s, a), source, floor, role)
           U == SetSlot(s, a, slot)
           T == SyncIfAttached(U, a)
<1>1. slot \in AddressSlot /\ (slot.Device # Nil => Points(s, slot.Device))
  BY SlotForType, StampType
<1> HIDE DEF slot
<1>2. Yields(s, U) /\ SameIdentity(s, U) /\ U.addressTable[a] = slot
  BY <1>1, SetSlotMarks, SetSlotSameIdentity DEF Marks
<1>3. Typed(U) /\ U.addressTable[a] # NoSlot
  BY <1>1, <1>2, NullAssumption DEF Yields
<1> HIDE DEF U
<1>4. SameIdentity(U, T)
  <2>1. U.addressTable[a].Device # Nil => Points(U, U.addressTable[a].Device)
    BY <1>3 DEF Typed, PointersType
  <2>2. SameIdentity(U, U)
    BY DEF SameIdentity
  <2>3. QED BY <1>3, <2>1, <2>2, SyncSameIdentity DEF SyncIfAttached
<1>5. Typed(T)
  BY <1>3, SyncIfAttachedMarks DEF Marks, Yields
<1> HIDE DEF T
<1>6. SameIdentity(s, T)
  BY <1>2, <1>4, SameIdentityTransitive
<1>7. Indexed(T, T.order)
  BY <1>6, SameIdentityKeeps DEF SameIdentity
<1>8. SameBooks(T, Advance(T))
  BY <1>5, EndingsKeepBooks
<1>9. Indexed(Advance(T), Advance(T).order)
  BY <1>7, <1>8, SameBooksIndexed
<1>10. QED BY <1>9 DEF T, U, slot

\* MarkSlotStaticSeed (registry_registration.go:303).
LEMMA MarkSlotStaticSeedIndexed ==
  ASSUME Typed(registry), Indexed(registry, registry.order), NEW a \in Address,
         NEW role \in ObservedRole, MarkSlotStaticSeed(a, role)
  PROVE  Indexed(registry', registry'.order)
<1>1. role \in SlotRole
  BY ObservationAssumption
<1>2. QED
  BY <1>1, MarkingIndexed, StampConstants DEF MarkSlotStaticSeed, MarkSlotStaticSeedLocked

\* MarkSlotPassiveObserved up to its callers (registry_scan.go:35-50).
LEMMA PassiveMarkIndexed ==
  ASSUME NEW s, Typed(s), Indexed(s, s.order), NEW a \in Address, NEW role \in SlotRole
  PROVE  LET t == Advance(PassivelyMarked(s, a, role))
         IN  Indexed(t, t.order)
BY MarkingIndexed, StampConstants DEF PassivelyMarked, MarkSlotPassiveObservedLocked

\* MarkSlotPassiveObserved (registry_scan.go:35).
LEMMA MarkSlotPassiveObservedIndexed ==
  ASSUME Typed(registry), Indexed(registry, registry.order), NEW a \in Address,
         NEW role \in ObservedRole, MarkSlotPassiveObserved(a, role)
  PROVE  Indexed(registry', registry'.order)
BY PassiveMarkIndexed, ObservationAssumption DEF MarkSlotPassiveObserved

\* AdmitPassiveCompanion (admit_passive_companion.go:18).
LEMMA AdmitPassiveCompanionIndexed ==
  ASSUME Typed(registry), Indexed(registry, registry.order), NEW source \in Address,
         AdmitPassiveCompanion(source)
  PROVE  Indexed(registry', registry'.order)
<1>1. CompanionOf[source] \in Address
  BY AddressAssumption DEF AdmitPassiveCompanion
<1>2. QED BY <1>1, PassiveMarkIndexed, StampConstants DEF AdmitPassiveCompanion

\* AliasAddresses (registry_alias.go:133).
LEMMA AliasAddressesIndexed ==
  ASSUME Typed(registry), Sound(registry), Indexed(registry, registry.order),
         NEW a \in Address, NEW b \in Address, AliasAddresses(a, b)
  PROVE  Indexed(registry', registry'.order)
<1>1. PICK heir \in Heirs(registry, b) :
         registry' = ReconcileQualifiedIdentityWitnessesLocked(
                         Advance(Aliased(registry, a, b, heir)))
  BY DEF AliasAddresses
<1> DEFINE T == Aliased(registry, a, b, heir)
<1>2. heir \in Address /\ GoodHeir(registry, b, heir)
  BY HeirsType, HeirsAreGood
<1>3. Indexed(T, T.order)
  BY <1>2, AliasedIndexed
<1>4. Typed(T)
  BY <1>2, AliasedYields DEF Yields
<1> HIDE DEF T
<1>5. SameBooks(T, registry')
  BY <1>1, <1>4, EndingsKeepBooks DEF T
<1>6. QED BY <1>3, <1>5, SameBooksIndexed

\* RegisterProvider (registry.go:104).
LEMMA RegisterProviderIndexed ==
  ASSUME Typed(registry), Indexed(registry, registry.order), NEW p \in Provider,
         RegisterProvider(p)
  PROVE  Indexed(registry', registry'.order)
<1>1. SameBooks(registry, registry')
  BY DEF RegisterProvider, Advance, SameBooks, Typed, RegistryState
<1>2. QED BY <1>1, SameBooksIndexed

\* Every operation (the exported methods of DeviceRegistry).
LEMMA EveryOperationIndexed ==
  ASSUME NoBlankFields, Typed(registry), Sound(registry), Indexed(registry, registry.order),
         Next
  PROVE  Indexed(registry', registry'.order)
BY RegisterIndexed, RegisterStaticSeedIndexed, RegisterPassiveObservedIndexed,
   ConfirmScanIdentityIndexed, MarkSlotStaticSeedIndexed, MarkSlotPassiveObservedIndexed,
   AdmitPassiveCompanionIndexed, AliasAddressesIndexed, RegisterProviderIndexed
DEF Next

-----------------------------------------------------------------------------
\* The theorem

\* The inductive invariant: sound groups, and an index that agrees with what the
\* live entries know.
IndexInv == PartitionInv /\ Indexed(registry, registry.order)

\* An empty registry has an empty index (registry.go:93-102).
LEMMA InitIndexed ==
  ASSUME Init
  PROVE  Indexed(registry, registry.order)
BY DEF Init, Indexed

\* No operation breaks it (the exported methods of DeviceRegistry).
LEMMA IndexInvIsKept ==
  ASSUME NoBlankFields
  PROVE  IndexInv /\ [Next]_registry => IndexInv'
<1> SUFFICES ASSUME IndexInv, [Next]_registry PROVE IndexInv'
  OBVIOUS
<1>1. PartitionInv'
  BY PartitionInvIsKept DEF IndexInv
<1>2. Indexed(registry', registry'.order)
  <2>1. CASE Next
    BY <2>1, EveryOperationIndexed DEF IndexInv, PartitionInv, IdentityInv
  <2>2. CASE UNCHANGED registry
    BY <2>2 DEF IndexInv
  <2>3. QED BY <2>1, <2>2
<1>3. QED BY <1>1, <1>2 DEF IndexInv, Indexed, Canonical, OwnsItsRow, Carries

\* Every row of the index selects a live entry that has published this triple and
\* still has it, and every published triple has its row: no lookup by identity
\* finds a merged, released or renamed device (registry_alias.go:13-86,
\* registry_registration.go:159-206).  The code promises it for observations
\* without fields that are blank and yet not empty.
THEOREM IndexIsCurrent ==
  ASSUME NoBlankFields
  PROVE  Spec => []IdentityIndexIsCurrent
<1>1. Init => IndexInv
  BY InitType, InitSound, InitIndexed DEF IndexInv, PartitionInv
<1>2. IndexInv /\ [Next]_registry => IndexInv'
  BY IndexInvIsKept
<1>3. IndexInv => IdentityIndexIsCurrent
  <2>1. PartitionInv => Nil \notin registry.order
    BY NilIsNotLive DEF PartitionInv, IdentityInv
  <2>2. QED
    BY <2>1, IdentityKeysAreSome
    DEF IndexInv, Indexed, Carries, OwnsItsRow, IdentityIndexIsCurrent,
        IsCurrentQualifiedIdentityKey, Live, Entry
<1>4. QED BY <1>1, <1>2, <1>3, PTL DEF Spec

-----------------------------------------------------------------------------
\* What a reader of all devices sees

\* There are finitely many addresses: they are bytes (registry.go:80-82).
LEMMA AddressesAreFinite ==
  ASSUME NEW S, S \subseteq Address
  PROVE  IsFiniteSet(S) /\ S \subseteq Int
<1>1. 0 \in Int /\ 255 \in Int
  OBVIOUS
<1>2. IsFiniteSet(0 .. 255)
  BY <1>1, FS_Interval
<1>3. S \subseteq 0 .. 255
  BY ViewAssumption
<1>4. IsFiniteSet(S)
  BY <1>2, <1>3, FS_Subset
<1>5. QED BY <1>3, <1>4

\* The addresses of a view are those of the device, each once, the primary first
\* (service_projection.go:133-162).
LEMMA ProjectedAddresses ==
  ASSUME NEW S, S \subseteq Address, NEW primary \in S
  PROVE  LET q == NormalizeProjectedAddresses(primary, S)
         IN  /\ q \in Seq(Address)
             /\ Head(q) = primary
             /\ Range(q) = S
             /\ Distinct(q)
<1> DEFINE others == S \ {primary}
           n == Cardinality(others)
           r == InOrder(others)
           q == NormalizeProjectedAddresses(primary, S)
<1>2. IsFiniteSet(others) /\ others \subseteq Int
  BY AddressesAreFinite
<1>3. n \in Nat /\ r \in [1 .. n -> others] /\ Distinct(r) /\ Elements(r) = others
  BY <1>2, InOrderLists
<1>4. q = <<primary>> \o r
  BY DEF NormalizeProjectedAddresses
<1> HIDE DEF others, n, r, q
<1>5. r \in Seq(others)
  BY <1>3
<1>6. others = S \ {primary}
  BY DEF others
<1>7. /\ q \in Seq(Address) /\ DOMAIN q = 1 .. n + 1
      /\ q[1] = primary /\ \A i \in 2 .. n + 1 : q[i] = r[i - 1]
  <2>1. r \in Seq(Address) /\ Len(r) = n /\ primary \in Address
    BY <1>3, <1>5, <1>6
  <2>2. q \in Seq(Address) /\ Len(q) = n + 1
    BY <1>3, <1>4, <2>1
  <2>3. q[1] = primary /\ \A i \in 2 .. n + 1 : q[i] = r[i - 1]
    BY <1>3, <1>4, <2>1
  <2>4. QED BY <2>2, <2>3
<1>8. Head(q) = primary
  BY <1>3, <1>7
<1>9. Range(q) = S
  <2>1. ASSUME NEW x \in Range(q)
        PROVE  x \in S
    <3>1. PICK i \in 1 .. n + 1 : x = q[i]
      BY <1>7 DEF Range
    <3>2. i = 1 \/ (i - 1 \in 1 .. n /\ i \in 2 .. n + 1)
      BY <1>3
    <3>3. QED BY <1>3, <1>6, <1>7, <3>1, <3>2
  <2>2. ASSUME NEW x \in S
        PROVE  x \in Range(q)
    <3>1. CASE x = primary
      BY <1>3, <1>7, <3>1 DEF Range
    <3>2. CASE x # primary
      <4>1. PICK i \in 1 .. n : x = r[i]
        BY <1>3, <1>6, <3>2 DEF Elements
      <4>2. i + 1 \in 2 .. n + 1 /\ i + 1 \in DOMAIN q /\ (i + 1) - 1 = i
        BY <1>3, <1>7
      <4>3. q[i + 1] = x
        BY <1>7, <4>1, <4>2
      <4>4. QED BY <4>2, <4>3 DEF Range
    <3>3. QED BY <3>1, <3>2
  <2>3. QED BY <2>1, <2>2
<1>10. Distinct(q)
  <2> SUFFICES ASSUME NEW i \in DOMAIN q, NEW j \in DOMAIN q, q[i] = q[j]
               PROVE  i = j
    BY DEF Distinct
  <2>1. \A k \in DOMAIN q : k = 1 \/ (k \in 2 .. n + 1 /\ k - 1 \in 1 .. n /\ k \in Int)
    BY <1>3, <1>7
  <2>2. \A k \in DOMAIN q : k # 1 => q[k] # primary
    BY <1>3, <1>6, <1>7, <2>1
  <2>3. CASE i = 1 \/ j = 1
    BY <1>7, <2>2, <2>3
  <2>4. CASE i # 1 /\ j # 1
    <3>1. r[i - 1] = r[j - 1] /\ i - 1 \in 1 .. n /\ j - 1 \in 1 .. n
      BY <1>7, <2>1, <2>4
    <3>2. i - 1 = j - 1
      BY <1>3, <3>1 DEF Distinct
    <3>3. QED BY <2>1, <2>4, <3>2
  <2>5. QED BY <2>3, <2>4
<1>11. QED BY <1>7, <1>8, <1>9, <1>10 DEF q

\* A method that is projected keeps what it says of itself
\* (service_projection.go:94-131, method_metadata.go:48-90).
LEMMA ProjectedMethodsAreSafe ==
  ASSUME NEW P, P \subseteq Provider, Nil \notin {ProjectPlane(x) : x \in P},
         NEW plane \in {ProjectPlane(x) : x \in P}, NEW m \in plane.Methods,
         m.Metadata.Danger = "safe"
  PROVE  \/ m.Metadata.Mutability = "read_only"
         \/ \E d \in Methods[plane.Name] : d.Name = m.Name /\ d.danger = "safe"
<1>1. PICK x \in P : plane = ProjectPlane(x)
  OBVIOUS
<1>2. /\ Nil \notin {ProjectMethod(d) : d \in Methods[x]}
      /\ plane = [Name |-> x, Methods |-> {ProjectMethod(d) : d \in Methods[x]}]
  BY <1>1 DEF ProjectPlane
<1>3. PICK d \in Methods[x] : m = ProjectMethod(d)
  BY <1>2
<1>4. m # Nil
  BY <1>2, <1>3
<1>5. m = [Name |-> d.Name, ReadOnly |-> d.ReadOnly, Template |-> d.Template,
           Metadata |-> ResolveMethodMetadata(d)]
  BY <1>3, <1>4 DEF ProjectMethod
<1>6. MethodDangerOf(d) = "safe"
  BY <1>5 DEF ResolveMethodMetadata
<1>7. d.danger = "safe" \/ MethodMutabilityOf(d) = "read_only"
  BY <1>6 DEF MethodDangerOf
<1>8. QED BY <1>2, <1>5, <1>7 DEF ResolveMethodMetadata

\* What a view is made of: addresses with the primary among them, what is known of
\* the device, and planes of known providers (registry_scan.go:159-169).
Readable(entry) ==
  /\ entry.addresses \subseteq Address /\ entry.primaryAddress \in entry.addresses
  /\ entry.info \in DeviceInfo /\ entry.planes \subseteq Provider

\* The view of an entry, unless a plane of it cannot be projected
\* (service_projection.go:69-91).
LEMMA ViewOfEntry ==
  ASSUME NEW e, Readable(registry.heap[e])
  PROVE  LET entry  == registry.heap[e]
             planes == {ProjectPlane(x) : x \in entry.planes}
             v      == ProjectDeviceEntry(e)
         IN  /\ v = Nil <=> Nil \in planes
             /\ v # Nil => /\ v \in View
                           /\ v.Address = entry.primaryAddress
                           /\ v.info = entry.info /\ v.Planes = planes
                           /\ Head(v.Addresses) = entry.primaryAddress
                           /\ Range(v.Addresses) = entry.addresses
                           /\ Distinct(v.Addresses)
<1> DEFINE entry  == registry.heap[e]
           planes == {ProjectPlane(x) : x \in entry.planes}
           v      == ProjectDeviceEntry(e)
           list   == NormalizeProjectedAddresses(DisplayAddress(e), entry.addresses)
<1>1. /\ entry.addresses \subseteq Address /\ entry.planes \subseteq Provider
      /\ entry.info \in DeviceInfo /\ entry.primaryAddress \in entry.addresses
      /\ DisplayAddress(e) = entry.primaryAddress
  BY DEF Readable, DisplayAddress
<1>2. /\ list \in Seq(Address) /\ Head(list) = DisplayAddress(e)
      /\ Range(list) = entry.addresses /\ Distinct(list)
  BY <1>1, ProjectedAddresses
<1>3. v = IF Nil \in planes THEN Nil
          ELSE [Address |-> DisplayAddress(e), Addresses |-> list,
                info |-> entry.info, Planes |-> planes]
  BY DEF ProjectDeviceEntry
<1>4. planes \subseteq {ProjectPlane(x) : x \in Provider}
  BY <1>1
<1> HIDE DEF entry, planes, v, list
<1>5. Nil \notin planes => v \in View
  BY <1>1, <1>2, <1>3, <1>4 DEF View
<1>6. v = Nil <=> Nil \in planes
  BY <1>3, <1>5, ViewAssumption
<1>7. QED BY <1>1, <1>2, <1>3, <1>5, <1>6 DEF entry, planes, v, list

\* A live entry can be read, and has the addresses that resolve to it
\* (registry.go:80-82).
LEMMA LiveEntriesAreReadable ==
  ASSUME Typed(registry), Sound(registry), NEW e \in registry.order
  PROVE  /\ Readable(registry.heap[e])
         /\ registry.heap[e].addresses = {a \in Address : registry.entries[a] = e}
<1>1. registry.heap[e] \in DeviceEntry
  BY DEF Typed, PointersType, Points
<1>2. /\ registry.heap[e].primaryAddress \in registry.heap[e].addresses
      /\ \A a \in registry.heap[e].addresses : registry.entries[a] = e
      /\ \A a \in Address : registry.entries[a] = e => a \in registry.heap[e].addresses
  BY NilIsNotLive DEF Sound, Groups
<1>3. QED BY <1>1, <1>2 DEF Readable, DeviceEntry

\* An address that resolves has an attached slot, and only such a one has
\* (registry_snapshot.go:80-97).
LEMMA RegisteredIsSlotted ==
  ASSUME Typed(registry), Sound(registry), NEW a \in Address
  PROVE  registry.entries[a] # Nil
            <=> LookupSlotSnapshot(a) # Nil /\ LookupSlotSnapshot(a).DeviceAttached
<1> DEFINE slot == registry.addressTable[a]
<1>1. /\ registry.entries[a] # Nil => slot # NoSlot
      /\ slot # NoSlot => slot.Device = registry.entries[a] /\ slot \in AddressSlot
  BY DEF Sound, Slots, Typed, RegistryState
<1>2. slot # NoSlot => LookupSlotSnapshot(a)
                         = [Addr |-> a, face |-> FaceOf(slot), DeviceAttached |-> slot.Device # Nil]
  BY DEF LookupSlotSnapshot
<1>3. slot # NoSlot => FaceOf(slot) \in BusFace
  BY <1>1 DEF FaceOf, BusFace, AddressSlot
<1>4. ASSUME slot # NoSlot
      PROVE  LookupSlotSnapshot(a) # Nil
  <2> DEFINE attached == slot.Device # Nil
             snapshot == [Addr |-> a, face |-> FaceOf(slot), DeviceAttached |-> attached]
  <2>1. attached \in BOOLEAN
    OBVIOUS
  <2>2. LookupSlotSnapshot(a) = snapshot
    BY <1>2, <1>4
  <2> HIDE DEF attached
  <2>3. snapshot \in [Addr: Address, face: BusFace, DeviceAttached: BOOLEAN]
    BY <1>3, <1>4, <2>1
  <2> HIDE DEF snapshot
  <2>4. QED BY <2>2, <2>3, ViewAssumption
<1>5. slot = NoSlot => LookupSlotSnapshot(a) = Nil
  BY DEF LookupSlotSnapshot
<1>6. CASE slot = NoSlot
  <2>1. LookupSlotSnapshot(a) = Nil
    BY <1>5, <1>6
  <2>2. registry.entries[a] = Nil
    BY <1>1, <1>6
  <2>3. QED BY <2>1, <2>2
<1>7. CASE slot # NoSlot
  <2> DEFINE attached == slot.Device # Nil
             snapshot == [Addr |-> a, face |-> FaceOf(slot), DeviceAttached |-> attached]
  <2>1. LookupSlotSnapshot(a) = snapshot
    BY <1>2, <1>7
  <2>2. attached <=> registry.entries[a] # Nil
    BY <1>1, <1>7
  <2> HIDE DEF attached
  <2>3. snapshot.DeviceAttached = attached
    OBVIOUS
  <2> HIDE DEF snapshot
  <2>4. LookupSlotSnapshot(a).DeviceAttached <=> registry.entries[a] # Nil
    BY <2>1, <2>2, <2>3, Zenon
  <2>5. QED BY <1>4, <1>7, <2>4
<1>8. QED BY <1>6, <1>7

-----------------------------------------------------------------------------
\* The inductive invariant of a reader

\* What was copied of e when its order was: the addresses that were e's.
CopiedAddresses(e) == {a \in Address : reader.owner[a] = e}

\* The fields a list in progress has (service_projection.go:51-60).
ReaderFields ==
  DOMAIN reader = {"left", "views", "failed", "generation", "owner", "stale"}

\* An entry that waits to be read, and was not written, is as it was copied.
WaitsAsCopied(e) ==
  /\ Readable(registry.heap[e])
  /\ registry.heap[e].addresses = CopiedAddresses(e)
WaitingAsCopied == \A e \in reader.left \ reader.stale : WaitsAsCopied(e)

\* A view that is known tells of its entry as it was copied.
SeenAsCopied(e, view) ==
  /\ Range(view.Addresses) = CopiedAddresses(e)
  /\ Head(view.Addresses) = view.Address
  /\ Distinct(view.Addresses)
  /\ \A p \in view.Planes : \A m \in p.Methods :
        m.Metadata.Danger = "safe" =>
           \/ m.Metadata.Mutability = "read_only"
           \/ \E d \in Methods[p.Name] : d.Name = m.Name /\ d.danger = "safe"
ReadAsCopied ==
  \A e \in DOMAIN reader.views : reader.views[e] = Torn \/ SeenAsCopied(e, reader.views[e])

\* Some entry cannot be projected.
Unprojectable == \E e \in registry.order : ProjectDeviceEntry(e) = Nil

\* While the generation has not advanced, the order is the one copied, no entry was
\* written and each view is what would be read now.
CurrentSoFar ==
  /\ reader.stale = {}
  /\ reader.failed => Unprojectable
  /\ ~ reader.failed =>
        /\ reader.left \union DOMAIN reader.views = registry.order
        /\ \A e \in DOMAIN reader.views : /\ reader.views[e] = ProjectDeviceEntry(e)
                                          /\ reader.views[e] # Nil

GenerationCompares ==
  /\ reader.generation \in Nat
  /\ reader.generation <= registry.observationGeneration
  /\ reader.failed => reader.left = {}
  /\ reader.generation = registry.observationGeneration => CurrentSoFar

ReaderInv ==
  PartitionInv /\ ReaderFields /\ WaitingAsCopied /\ ReadAsCopied /\ GenerationCompares

\* A copy of the order is current (registry_alias.go:345-348).
LEMMA CopyIsCurrent ==
  ASSUME Typed(registry), Sound(registry), reader = CopiedOrder
  PROVE  ReaderFields /\ WaitingAsCopied /\ ReadAsCopied /\ GenerationCompares
<1>1. /\ ReaderFields
      /\ reader.left = registry.order /\ DOMAIN reader.views = {} /\ reader.failed = FALSE
      /\ reader.generation = registry.observationGeneration
      /\ reader.owner = registry.entries /\ reader.stale = {}
  BY DEF CopiedOrder, ReaderFields
<1>2. registry.observationGeneration \in Nat
  BY DEF Typed, RegistryState
<1>3. WaitingAsCopied
  BY <1>1, LiveEntriesAreReadable DEF WaitingAsCopied, WaitsAsCopied, CopiedAddresses
<1>4. QED BY <1>1, <1>2, <1>3 DEF ReadAsCopied, GenerationCompares, CurrentSoFar

\* An entry that was not written is seen as it was copied
\* (service_projection.go:69-91, 133-162).
LEMMA UnwrittenIsSeen ==
  ASSUME NEW e, WaitsAsCopied(e), ProjectDeviceEntry(e) # Nil
  PROVE  SeenAsCopied(e, ProjectDeviceEntry(e))
<1> DEFINE v == ProjectDeviceEntry(e)
           P == registry.heap[e].planes
<1>1. /\ v.Address = registry.heap[e].primaryAddress
      /\ v.Planes = {ProjectPlane(x) : x \in P} /\ Nil \notin {ProjectPlane(x) : x \in P}
      /\ Head(v.Addresses) = registry.heap[e].primaryAddress
      /\ Range(v.Addresses) = registry.heap[e].addresses
      /\ Distinct(v.Addresses)
  BY ViewOfEntry DEF WaitsAsCopied
<1>2. P \subseteq Provider
  BY DEF WaitsAsCopied, Readable
<1> HIDE DEF v, P
<1>3. ASSUME NEW p \in v.Planes, NEW m \in p.Methods, m.Metadata.Danger = "safe"
      PROVE  \/ m.Metadata.Mutability = "read_only"
             \/ \E d \in Methods[p.Name] : d.Name = m.Name /\ d.danger = "safe"
  BY <1>1, <1>2, <1>3, ProjectedMethodsAreSafe
<1>4. QED BY <1>1, <1>3 DEF SeenAsCopied, WaitsAsCopied, v

\* Reading an entry (registry_alias.go:350-357, service_projection.go:53-59).
LEMMA ReadEntryKeeps ==
  ASSUME ReaderInv, NEW e \in EntryId, ReadEntry(e)
  PROVE  ReaderInv'
<1>1. PICK view \in Projected(e) \ {Nil} :
        reader' = [reader EXCEPT
            !.left  = Rest(e),
            !.views = [d \in DOMAIN @ \union {e} |-> IF d = e THEN view ELSE @[d]]]
  BY DEF ReadEntry
<1>2. /\ e \in reader.left /\ registry' = registry
      /\ ReaderFields /\ WaitingAsCopied /\ ReadAsCopied /\ GenerationCompares
  BY DEF ReadEntry, ReaderInv
<1>3. /\ ReaderFields' /\ reader'.left = reader.left \ {e}
      /\ reader'.views = [d \in DOMAIN reader.views \union {e} |->
                             IF d = e THEN view ELSE reader.views[d]]
      /\ reader'.failed = reader.failed /\ reader'.generation = reader.generation
      /\ reader'.owner = reader.owner /\ reader'.stale = reader.stale
  BY <1>1, <1>2 DEF ReaderFields, Rest
<1>4. PartitionInv'
  BY <1>2 DEF ReaderInv, PartitionInv, IdentityInv, Typed, Sound
<1>5. WaitingAsCopied'
  BY <1>2, <1>3 DEF WaitingAsCopied, WaitsAsCopied, CopiedAddresses
<1>6. \/ e \in reader.stale /\ view = Torn
      \/ e \notin reader.stale /\ view = ProjectDeviceEntry(e) /\ view # Nil
  BY <1>1 DEF Projected
<1>7. view = Torn \/ SeenAsCopied(e, view)
  BY <1>2, <1>6, UnwrittenIsSeen DEF WaitingAsCopied
<1>8. ReadAsCopied'
  <2>1. \A d, v : SeenAsCopied(d, v)' <=> SeenAsCopied(d, v)
    BY <1>3 DEF SeenAsCopied, CopiedAddresses
  <2>2. \A d \in DOMAIN reader'.views :
           reader'.views[d] = Torn \/ SeenAsCopied(d, reader'.views[d])
    BY <1>2, <1>3, <1>7 DEF ReadAsCopied
  <2>3. QED BY <1>3, <2>2 DEF ReadAsCopied, SeenAsCopied, CopiedAddresses
<1>9. GenerationCompares'
  <2>1. ~ reader.failed
    BY <1>2 DEF GenerationCompares
  <2>2. ASSUME reader.generation = registry.observationGeneration
        PROVE  CurrentSoFar'
    <3>1. CurrentSoFar
      BY <1>2, <2>2 DEF GenerationCompares
    <3>2. view = ProjectDeviceEntry(e) /\ view # Nil
      BY <1>6, <3>1 DEF CurrentSoFar
    <3>3. \A d : ProjectDeviceEntry(d)' = ProjectDeviceEntry(d)
      BY <1>2 DEF ProjectDeviceEntry, DisplayAddress
    <3>4. reader'.left \union DOMAIN reader'.views = registry'.order
      BY <1>2, <1>3, <2>1, <3>1 DEF CurrentSoFar
    <3>5. \A d \in DOMAIN reader'.views : /\ reader'.views[d] = ProjectDeviceEntry(d)
                                          /\ reader'.views[d] # Nil
      BY <1>3, <2>1, <3>1, <3>2 DEF CurrentSoFar
    <3>6. QED BY <1>3, <2>1, <3>1, <3>3, <3>4, <3>5 DEF CurrentSoFar
  <2>3. QED BY <1>2, <1>3, <2>1, <2>2 DEF GenerationCompares
<1>10. QED BY <1>3, <1>4, <1>5, <1>8, <1>9 DEF ReaderInv

\* Giving up (service_projection.go:54-64).
LEMMA GiveUpKeeps ==
  ASSUME ReaderInv, NEW e \in EntryId, GiveUp(e)
  PROVE  ReaderInv'
<1>1. /\ e \in reader.left /\ registry' = registry
      /\ ReaderFields /\ WaitingAsCopied /\ ReadAsCopied /\ GenerationCompares
      /\ Nil \in Projected(e)
  BY DEF GiveUp, ReaderInv
<1>2. /\ ReaderFields' /\ reader'.left = {} /\ DOMAIN reader'.views = {}
      /\ reader'.failed = TRUE /\ reader'.generation = reader.generation
      /\ reader'.stale = reader.stale
  BY <1>1 DEF GiveUp, ReaderFields
<1>3. PartitionInv'
  BY <1>1 DEF ReaderInv, PartitionInv, IdentityInv, Typed, Sound
<1>4. WaitingAsCopied' /\ ReadAsCopied'
  BY <1>2 DEF WaitingAsCopied, ReadAsCopied
<1>5. ASSUME reader.generation = registry.observationGeneration
      PROVE  CurrentSoFar'
  <2>1. CurrentSoFar /\ ~ reader.failed
    BY <1>1, <1>5 DEF GenerationCompares
  <2>2. e \in registry.order /\ ProjectDeviceEntry(e) = Nil
    BY <1>1, <2>1 DEF CurrentSoFar, Projected
  <2>3. Unprojectable'
    BY <1>1, <2>2 DEF Unprojectable, ProjectDeviceEntry, DisplayAddress
  <2>4. QED BY <1>2, <2>1, <2>3 DEF CurrentSoFar
<1>6. GenerationCompares'
  BY <1>1, <1>2, <1>5 DEF GenerationCompares
<1>7. QED BY <1>2, <1>3, <1>4, <1>6 DEF ReaderInv

\* The writers are those of the registry (the exported methods of DeviceRegistry).
LEMMA WritesAreOperations ==
  ASSUME Write
  PROVE  Next /\ \E rewritten : Disturbs(rewritten)
BY DEF Write, Registration, OtherOperation, Next

\* A write, which advances the generation (registry.go:111-114).
LEMMA WriteKeeps ==
  ASSUME ReaderInv, Write
  PROVE  ReaderInv'
<1>1. /\ PartitionInv
      /\ ReaderFields /\ WaitingAsCopied /\ ReadAsCopied /\ GenerationCompares
  BY DEF ReaderInv
<1>2. PICK rewritten : Disturbs(rewritten)
  BY WritesAreOperations
<1>3. /\ ReaderFields' /\ reader'.left = reader.left /\ reader'.views = reader.views
      /\ reader'.failed = reader.failed /\ reader'.generation = reader.generation
      /\ reader'.owner = reader.owner
      /\ reader'.stale = reader.stale \union
            {e \in reader.left : \/ e \in rewritten
                                 \/ Fields(registry'.heap[e]) # Fields(registry.heap[e])}
  BY <1>1, <1>2 DEF Disturbs, ReaderFields
<1>4. PartitionInv'
  BY <1>1, PartitionInvIsKept, WritesAreOperations
<1>5. /\ registry'.observationGeneration = registry.observationGeneration + 1
      /\ registry.observationGeneration \in Nat
  BY <1>1, EveryOperationFollows, WritesAreOperations
  DEF PartitionInv, IdentityInv, Follows, Typed, RegistryState
<1>6. WaitingAsCopied'
  <2>1. ASSUME NEW e \in reader'.left \ reader'.stale
        PROVE  /\ Readable(registry'.heap[e])
               /\ registry'.heap[e].addresses = CopiedAddresses(e)
    <3>1. /\ e \in reader.left \ reader.stale
          /\ Fields(registry'.heap[e]) = Fields(registry.heap[e])
      BY <1>3, <2>1
    <3>2. WaitsAsCopied(e)
      BY <1>1, <3>1 DEF WaitingAsCopied
    <3>3. /\ registry'.heap[e].primaryAddress = registry.heap[e].primaryAddress
          /\ registry'.heap[e].addresses = registry.heap[e].addresses
          /\ registry'.heap[e].info = registry.heap[e].info
          /\ registry'.heap[e].planes = registry.heap[e].planes
      BY <3>1 DEF Fields
    <3>4. QED BY <3>2, <3>3 DEF WaitsAsCopied, Readable
  <2>2. QED BY <1>3, <2>1 DEF WaitingAsCopied, WaitsAsCopied, CopiedAddresses
<1>7. ReadAsCopied'
  BY <1>1, <1>3 DEF ReadAsCopied, SeenAsCopied, CopiedAddresses
<1>8. GenerationCompares'
  <2>1. reader'.generation \in Nat /\ reader'.generation < registry'.observationGeneration
    BY <1>1, <1>3, <1>5 DEF GenerationCompares
  <2>2. reader'.failed => reader'.left = {}
    BY <1>1, <1>3 DEF GenerationCompares
  <2>3. registry'.observationGeneration \in Nat
    BY <1>5
  <2>4. QED BY <2>1, <2>2, <2>3 DEF GenerationCompares
<1>9. QED BY <1>3, <1>4, <1>6, <1>7, <1>8 DEF ReaderInv

\* Every step of a reader and of the writers around it (the lines above).
LEMMA ReaderInvIsKept == ReaderInv /\ [ReaderNext]_<<registry, reader>> => ReaderInv'
<1> SUFFICES ASSUME ReaderInv, [ReaderNext]_<<registry, reader>> PROVE ReaderInv'
  OBVIOUS
<1>1. CASE BeginIterate
  <2>1. registry' = registry /\ reader' = CopiedOrder /\ PartitionInv
    BY <1>1 DEF BeginIterate, ReaderInv
  <2>2. PartitionInv' /\ (Typed(registry) /\ Sound(registry))'
    BY <2>1 DEF PartitionInv, IdentityInv, Typed, Sound
  <2>3. (reader = CopiedOrder)'
    BY <2>1 DEF CopiedOrder
  <2>4. (Typed(registry) /\ Sound(registry) /\ reader = CopiedOrder
            => ReaderFields /\ WaitingAsCopied /\ ReadAsCopied /\ GenerationCompares)'
    BY CopyIsCurrent, PTL
  <2>5. QED BY <2>2, <2>3, <2>4 DEF ReaderInv
<1>2. CASE \E e \in EntryId : ReadEntry(e) \/ GiveUp(e)
  BY <1>2, ReadEntryKeeps, GiveUpKeeps
<1>3. CASE Write
  BY <1>3, WriteKeeps
<1>4. CASE UNCHANGED <<registry, reader>>
  BY <1>4 DEF ReaderInv, PartitionInv, IdentityInv, Typed, Sound, ReaderFields,
       WaitingAsCopied, WaitsAsCopied, CopiedAddresses, ReadAsCopied, SeenAsCopied,
       GenerationCompares, CurrentSoFar, Unprojectable, ProjectDeviceEntry, DisplayAddress
<1>5. QED BY <1>1, <1>2, <1>3, <1>4 DEF ReaderNext

-----------------------------------------------------------------------------
\* The theorems

\* A plane that cannot be projected shows in a snapshot
\* (service_projection.go:76-84, registry_snapshot.go:288-334).
LEMMA UnprojectableShows ==
  ASSUME Typed(registry), Sound(registry), Unprojectable
  PROVE  \E s \in IterateSnapshots, p \in Provider :
            SnapshotPlane(p) \in s.Planes /\ ProjectPlane(p) = Nil
<1>1. PICK e \in registry.order : ProjectDeviceEntry(e) = Nil
  BY DEF Unprojectable
<1>2. Readable(registry.heap[e])
  BY LiveEntriesAreReadable
<1>3. PICK p \in registry.heap[e].planes : ProjectPlane(p) = Nil
  BY <1>1, <1>2, ViewOfEntry
<1>4. SnapshotPlane(p) \in SnapshotEntry(e).Planes /\ SnapshotEntry(e) \in IterateSnapshots
  BY <1>3 DEF SnapshotEntry, IterateSnapshots
<1>5. QED BY <1>2, <1>3, <1>4 DEF Readable

\* A complete list over which the generation did not advance has each registered
\* address in the view of its device (registry.go:111-131).
LEMMA CompleteListIsCurrent ==
  ASSUME Typed(registry), Sound(registry), CurrentSoFar, reader.left = {}, ~ reader.failed,
         NEW a \in Address
  PROVE  LET snapshot == LookupEntrySnapshot(a)
             slot     == LookupSlotSnapshot(a)
         IN  IF registry.entries[a] = Nil
             THEN ViewsOf(a) = {} /\ (slot # Nil => ~ slot.DeviceAttached)
             ELSE /\ snapshot \in IterateSnapshots
                  /\ slot # Nil /\ slot.DeviceAttached
                  /\ slot.face = snapshot.Faces[a]
                  /\ \E e \in EntryId : /\ ViewsOf(a) = {e}
                                        /\ reader.views[e].Address = snapshot.PrimaryAddress
                                        /\ reader.views[e].info = snapshot.info
<1> DEFINE L == registry.order
           d == registry.entries[a]
<1>1. /\ DOMAIN reader.views = L
      /\ \A e \in L : reader.views[e] = ProjectDeviceEntry(e) /\ reader.views[e] # Nil
  BY DEF CurrentSoFar
<1>2. \A e \in L : /\ Readable(registry.heap[e])
                   /\ registry.heap[e].addresses = {x \in Address : registry.entries[x] = e}
  BY LiveEntriesAreReadable
<1>3. \A e \in L : /\ reader.views[e] # Torn
                   /\ reader.views[e].Address = registry.heap[e].primaryAddress
                   /\ reader.views[e].info = registry.heap[e].info
                   /\ Range(reader.views[e].Addresses) = registry.heap[e].addresses
  BY <1>1, <1>2, ViewOfEntry, TornAssumption
<1>4. ViewsOf(a) = {e \in L : registry.entries[a] = e}
  BY <1>1, <1>2, <1>3 DEF ViewsOf
<1>5. d # Nil => d \in L /\ L \subseteq EntryId
  BY DEF Sound, Groups, Typed, RegistryState
<1>6. Nil \notin L
  BY NilIsNotLive
<1>7. d # Nil <=> LookupSlotSnapshot(a) # Nil /\ LookupSlotSnapshot(a).DeviceAttached
  BY RegisteredIsSlotted
<1> HIDE DEF L, d
<1>8. CASE d = Nil
  BY <1>4, <1>6, <1>7, <1>8 DEF d
<1>9. CASE d # Nil
  <2>1. LookupEntrySnapshot(a) = SnapshotEntry(d) /\ SnapshotEntry(d) \in IterateSnapshots
    BY <1>5, <1>9 DEF LookupEntrySnapshot, IterateSnapshots, L, d
  <2>2. ViewsOf(a) = {d} /\ d \in EntryId
    BY <1>4, <1>5, <1>9 DEF d
  <2>3. registry.addressTable[a] # NoSlot
    BY <1>9 DEF d, Sound, Slots
  <2>4. LookupSlotSnapshot(a).face = FaceOf(registry.addressTable[a])
    BY <2>3 DEF LookupSlotSnapshot
  <2>5. registry.heap[d].Faces = [x \in registry.heap[d].addresses |->
                                     FaceOf(registry.addressTable[x])]
    BY <1>5, <1>9 DEF L, Sound, Mirrors, MirrorsSlots
  <2>6. a \in registry.heap[d].addresses
    BY <1>2, <1>5, <1>9 DEF d
  <2>7. /\ SnapshotEntry(d).PrimaryAddress = registry.heap[d].primaryAddress
        /\ SnapshotEntry(d).info = registry.heap[d].info
        /\ SnapshotEntry(d).Faces[a] = FaceOf(registry.addressTable[a])
    BY <2>5, <2>6 DEF SnapshotEntry, DisplayAddress
  <2>8. /\ reader.views[d].Address = registry.heap[d].primaryAddress
        /\ reader.views[d].info = registry.heap[d].info
    BY <1>3, <1>5, <1>9
  <2>9. QED BY <1>7, <1>9, <2>1, <2>2, <2>4, <2>7, <2>8 DEF d
<1>10. QED BY <1>8, <1>9

\* A reader is nothing the registry can see: what holds of every behaviour of the
\* registry holds while lists are read (registry_alias.go:344-348).
THEOREM ReadersDoNotInterfere == ReaderSpec => Spec
<1>1. ReaderInit => Init
  BY DEF ReaderInit
<1>2. [ReaderNext]_<<registry, reader>> => [Next]_registry
  <2>1. Write => Next
    BY WritesAreOperations
  <2>2. \A e : ReadEntry(e) \/ GiveUp(e) => registry' = registry
    BY DEF ReadEntry, GiveUp
  <2>3. QED BY <2>1, <2>2 DEF ReaderNext, BeginIterate
<1>3. QED BY <1>1, <1>2, PTL DEF ReaderSpec, Spec

\* However a caller's list of all devices is interleaved with writers: an entry that
\* nobody had written when it was read is seen as it was when the order was copied;
\* and a complete list over which the generation has not advanced has each
\* registered address in exactly one view, that of its device (registry_alias.go:344-358,
\* service_projection.go:46-91, registry.go:111-131).
THEOREM ListsAreSound == ReaderSpec => []ListsTellOfOneRegistry
<1>1. ReaderInit => ReaderInv
  <2>1. SUFFICES ASSUME ReaderInit PROVE ReaderInv
    OBVIOUS
  <2>2. PartitionInv
    BY <2>1, InitType, InitSound DEF ReaderInit, PartitionInv
  <2>3. QED BY <2>1, <2>2, CopyIsCurrent DEF ReaderInit, ReaderInv, PartitionInv, IdentityInv
<1>2. ReaderInv /\ [ReaderNext]_<<registry, reader>> => ReaderInv'
  BY ReaderInvIsKept
<1>3. ReaderInv => ListsTellOfOneRegistry
  <2> SUFFICES ASSUME ReaderInv PROVE ListsTellOfOneRegistry
    OBVIOUS
  <2>1. Typed(registry) /\ Sound(registry)
    BY DEF ReaderInv, PartitionInv, IdentityInv
  <2>2. UnwrittenEntriesAreSeenAsCopied
    BY DEF ReaderInv, ReadAsCopied, SeenAsCopied, CopiedAddresses, Distinct, IsInjective,
           UnwrittenEntriesAreSeenAsCopied
  <2>3. UnwrittenListsAreCurrent
    <3> SUFFICES ASSUME reader.left = {}, reader.generation = registry.observationGeneration
                 PROVE  UnwrittenListsAreCurrent
      BY DEF UnwrittenListsAreCurrent
    <3>1. CurrentSoFar
      BY DEF ReaderInv, GenerationCompares
    <3>2. CASE reader.failed
      BY <2>1, <3>1, <3>2, UnprojectableShows DEF CurrentSoFar, UnwrittenListsAreCurrent
    <3>3. CASE ~ reader.failed
      BY <2>1, <3>1, <3>3, CompleteListIsCurrent DEF UnwrittenListsAreCurrent
    <3>4. QED BY <3>2, <3>3
  <2>4. QED BY <2>2, <2>3 DEF ListsTellOfOneRegistry
<1>4. QED BY <1>1, <1>2, <1>3, PTL DEF ReaderSpec
=============================================================================
