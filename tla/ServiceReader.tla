---------------------------- MODULE ServiceReader ----------------------------
(***************************************************************************)
(* A caller that lists all devices for the service layer while others      *)
(* write to the registry: ProjectRegistryDevices over Iterate.  Iterate    *)
(* copies the order of the entries under the read lock and releases it;    *)
(* then each entry is read through its live pointer, field by field and    *)
(* without a lock, and writers may act between any two reads, of two       *)
(* entries or of one.  Callers neither change the registry nor see each    *)
(* other, so that one is enough.                                           *)
(*                                                                         *)
(* The caller is outside the repository.  It does what the comment of      *)
(* WithObservationGeneration says (registry.go:111-131): it takes the      *)
(* observation generation before it lists the devices and compares it      *)
(* again before it uses the list.  The generation is taken here together   *)
(* with the copy; a write between the two only makes them differ.          *)
(*                                                                         *)
(* An entry is read in the step that reads its last field.  If none of its *)
(* fields was written since the order was copied, that step reads what all *)
(* the others did.  If one was, the reads race with the write: slices and  *)
(* strings may be torn, and removeAddress even shifts the bytes of a list  *)
(* in place.  Nothing is then known of the view, which is Torn.            *)
(*                                                                         *)
(* The list is kept by entry: sortServiceDevices orders views of different *)
(* addresses by these.                                                     *)
(***************************************************************************)
EXTENDS ServiceViews

CONSTANT Torn    \* a view of an entry that was written while it was read

ASSUME TornAssumption == Torn \notin View /\ Torn # Nil

(* left: the entries of the copied order that were not read yet; views:    *)
(* those of the others; failed: whether the list was given up;             *)
(* generation: that of the copy.  owner, which address was whose when the  *)
(* order was copied, is history; stale, which entries left to read have    *)
(* been written, is what decides on a race.                                *)
VARIABLE reader

(* The order and the generation, read under the lock. *)
CopiedOrder ==
    [left |-> registry.order, views |-> [e \in {} |-> Torn], failed |-> FALSE,
     generation |-> registry.observationGeneration,
     owner |-> registry.entries, stale |-> {}]

ReaderInit == Init /\ reader = CopiedOrder

BeginIterate ==
    /\ reader.left = {}
    /\ reader' = CopiedOrder
    /\ UNCHANGED registry

(* Slip: the live order is walked, not a copy of it. *)
LiveRest(e) == registry.order \ (DOMAIN reader.views \union {e})
Rest(e)     == reader.left \ {e}

(* What ProjectDeviceEntry may make of e. *)
Projected(e) == IF e \in reader.stale THEN {Torn, Nil} ELSE {ProjectDeviceEntry(e)}

ReadEntry(e) ==
    /\ e \in reader.left
    /\ \E view \in Projected(e) \ {Nil} :
          reader' = [reader EXCEPT
              !.left  = Rest(e),
              !.views = [d \in DOMAIN @ \union {e} |-> IF d = e THEN view ELSE @[d]]]
    /\ UNCHANGED registry

(* An entry that cannot be projected ends the list without a result. *)
GiveUp(e) ==
    /\ e \in reader.left
    /\ Nil \in Projected(e)
    /\ reader' = [reader EXCEPT !.left = {}, !.views = [d \in {} |-> Torn], !.failed = TRUE]
    /\ UNCHANGED registry

----------------------------------------------------------------------------
(* The writers.                                                            *)

(* What a view is made of. *)
Fields(entry) == <<entry.primaryAddress, entry.addresses, entry.info, entry.planes>>

(* rewritten: entries written even if with what they held. *)
Disturbs(rewritten) ==
    reader' = [reader EXCEPT !.stale = @ \union
        {e \in reader.left : \/ e \in rewritten
                              \/ Fields(registry'.heap[e]) # Fields(registry.heap[e])}]

Registration(a) ==
    \/ \E o \in Observation : Register(a, o)
    \/ \E o \in Observation, role \in ObservedRole :
          \/ RegisterStaticSeed(a, o, role)
          \/ RegisterPassiveObserved(a, o, role)

OtherOperation ==
    \/ \E a \in Address, role \in ObservedRole :
          \/ MarkSlotStaticSeed(a, role)
          \/ MarkSlotPassiveObserved(a, role)
    \/ \E a \in Address : ConfirmScanIdentity(a)
    \/ \E a, b \in Address : AliasAddresses(a, b)
    \/ \E source \in Address : AdmitPassiveCompanion(source)
    \/ \E p \in Provider : RegisterProvider(p)

(* A registration stores info and planes in its entry anew; the others     *)
(* write only what they change.                                            *)
Write ==
    \/ \E a \in Address : Registration(a) /\ Disturbs({registry'.entries[a]})
    \/ OtherOperation /\ Disturbs({})

ReaderNext ==
    \/ BeginIterate
    \/ \E e \in EntryId : ReadEntry(e) \/ GiveUp(e)
    \/ Write

ReaderSpec == ReaderInit /\ [][ReaderNext]_<<registry, reader>>

----------------------------------------------------------------------------
(* Whatever was written between the copy of the order and the last read,   *)
(* an entry that nobody had written when it was read is seen as it was at  *)
(* the copy: its view has the addresses that were the device's then, each  *)
(* once and the primary one first, and so no two such views share one; and *)
(* no method that may change the device is called safe unless it says so   *)
(* itself (registry_alias.go:344-358, service_projection.go:46-91,         *)
(* method_metadata.go:48-90).                                              *)
UnwrittenEntriesAreSeenAsCopied ==
    \A e \in DOMAIN reader.views : reader.views[e] # Torn =>
        LET view == reader.views[e]
        IN  /\ Range(view.Addresses) = {a \in Address : reader.owner[a] = e}
            /\ Head(view.Addresses) = view.Address
            /\ IsInjective(view.Addresses)
            /\ \A p \in view.Planes : \A m \in p.Methods :
                  m.Metadata.Danger = "safe" =>
                     m.Metadata.Mutability = "read_only"
                     \/ \E d \in Methods[p.Name] : d.Name = m.Name /\ d.danger = "safe"

ViewsOf(a) ==
    {e \in DOMAIN reader.views :
        reader.views[e] = Torn \/ a \in Range(reader.views[e].Addresses)}

(* A complete list over which the generation has not advanced is current:  *)
(* each registered address is in exactly one view, that of its device as a *)
(* snapshot or a look at its slot shows it; and a list was given up only   *)
(* for a plane that cannot be projected (registry.go:111-131,              *)
(* registry_snapshot.go:80-97, 288-334).                                   *)
UnwrittenListsAreCurrent ==
    reader.left = {} /\ reader.generation = registry.observationGeneration =>
        IF reader.failed
        THEN \E s \in IterateSnapshots, p \in Provider :
                SnapshotPlane(p) \in s.Planes /\ ProjectPlane(p) = Nil
        ELSE \A a \in Address :
                LET snapshot == LookupEntrySnapshot(a)
                    slot     == LookupSlotSnapshot(a)
                IN  IF registry.entries[a] = Nil
                    THEN ViewsOf(a) = {} /\ (slot # Nil => ~ slot.DeviceAttached)
                    ELSE /\ snapshot \in IterateSnapshots
                         /\ slot # Nil /\ slot.DeviceAttached
                         /\ slot.face = snapshot.Faces[a]
                         /\ \E e \in EntryId :
                               /\ ViewsOf(a) = {e}
                               /\ reader.views[e].Address = snapshot.PrimaryAddress
                               /\ reader.views[e].info = snapshot.info

(* What a caller may make of a list of all devices: see the two parts.     *)
ListsTellOfOneRegistry == UnwrittenEntriesAreSeenAsCopied /\ UnwrittenListsAreCurrent
=============================================================================
