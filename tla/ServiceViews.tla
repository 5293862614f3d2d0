---------------------------- MODULE ServiceViews ----------------------------
(***************************************************************************)
(* What a reader of the device registry is told: lookups and snapshots,    *)
(* taken under the read lock (registry_snapshot.go), and the view of one   *)
(* device for the service layer (service_projection.go) with the safety    *)
(* metadata of its methods (method_metadata.go).  Each operator is what is *)
(* read in the present state.  A lookup holds the lock throughout and is   *)
(* read in one state; a list of all devices is not, and ServiceReader says *)
(* what becomes of it.  A lookup without result and a failed projection    *)
(* give Nil.  An entry's primary address and its info.Address agree, so    *)
(* that the fallback from one to the other is not told apart; names are    *)
(* compared as they are, without folding their case.                       *)
(***************************************************************************)
EXTENDS Registry, ByteLists, Sequences, Functions

CONSTANT
    Methods    \* by provider: the methods of the plane it creates

(* What a method declares of itself: "" where it does not implement the    *)
(* optional interface.  Template is Nil or [Primary, Secondary].           *)
Mutabilities == {"unknown", "read_only", "mutating"}

MethodMutabilityOf(method) ==
    CASE method.mutability \in Mutabilities -> method.mutability
      [] method.ReadOnly                    -> "read_only"
      [] OTHER                              -> "mutating"

MethodDangerOf(method) ==
    CASE method.danger \in {"safe", "dangerous"}         -> method.danger
      [] MethodMutabilityOf(method) = "read_only"        -> "safe"
      [] OTHER                                           -> "dangerous"

MethodRoutableOf(method) == method.routable # "no"

ResolveMethodMetadata(method) ==
    [Mutability |-> MethodMutabilityOf(method), Danger |-> MethodDangerOf(method),
     Routable |-> MethodRoutableOf(method)]

----------------------------------------------------------------------------
(* Lookups and snapshots.                                                  *)

DisplayAddress(e) == registry.heap[e].primaryAddress

LookupSlot(a) == IF registry.addressTable[a] = NoSlot THEN Nil ELSE registry.addressTable[a]

LookupSlotSnapshot(a) ==
    LET slot == registry.addressTable[a]
    IN  IF slot = NoSlot THEN Nil
        ELSE [Addr |-> a, face |-> FaceOf(slot), DeviceAttached |-> slot.Device # Nil]

(* The planes a snapshot keeps are copies with their methods.              *)
SnapshotPlane(p) == [name |-> p, methods |-> Methods[p]]

SnapshotEntry(e) ==
    LET entry == registry.heap[e]
    IN  [PrimaryAddress |-> DisplayAddress(e), Addresses |-> entry.addresses,
         Faces |-> entry.Faces, info |-> entry.info,
         Planes |-> {SnapshotPlane(p) : p \in entry.planes},
         Projections |-> entry.projections]

LookupEntrySnapshot(a) ==
    IF registry.entries[a] = Nil THEN Nil ELSE SnapshotEntry(registry.entries[a])

IterateSnapshots == {SnapshotEntry(e) : e \in registry.order}

----------------------------------------------------------------------------
(* The view of a device.                                                   *)

ProjectMethod(method) ==
    IF method.Template = Nil THEN Nil
    ELSE [Name |-> method.Name, ReadOnly |-> method.ReadOnly, Template |-> method.Template,
          Metadata |-> ResolveMethodMetadata(method)]

ProjectPlane(p) ==
    IF Nil \in {ProjectMethod(m) : m \in Methods[p]} THEN Nil
    ELSE [Name |-> p, Methods |-> {ProjectMethod(m) : m \in Methods[p]}]

NormalizeProjectedAddresses(primary, aliases) ==
    <<primary>> \o InOrder(aliases \ {primary})

ProjectDeviceEntry(e) ==
    LET entry  == registry.heap[e]
        planes == {ProjectPlane(p) : p \in entry.planes}
    IN  IF Nil \in planes THEN Nil
        ELSE [Address   |-> DisplayAddress(e),
              Addresses |-> NormalizeProjectedAddresses(DisplayAddress(e), entry.addresses),
              info      |-> entry.info,
              Planes    |-> planes]

(* An address is a byte, and an absent result is neither a view nor the    *)
(* snapshot of a slot.                                                     *)
View ==
    [Address: Address, Addresses: Seq(Address), info: DeviceInfo,
     Planes: SUBSET {ProjectPlane(p) : p \in Provider}]

ASSUME ViewAssumption ==
    /\ Address \subseteq 0 .. 255
    /\ Nil \notin View
    /\ Nil \notin [Addr: Address, face: BusFace, DeviceAttached: BOOLEAN]
=============================================================================
