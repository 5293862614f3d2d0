--------------------------- MODULE DeviceIdentity ---------------------------
(***************************************************************************)
(* The pure identity algebra of registry/identity.go and the conflict      *)
(* rules of registry/registry_alias.go: what an observed DeviceInfo        *)
(* normalises to, when its (manufacturer, device, serial) triple is        *)
(* qualified, which key the triple has, and when two observations may      *)
(* describe one physical device.                                           *)
(*                                                                         *)
(* A DeviceInfo is a function from the field names to raw spellings; its   *)
(* Address is a parameter of the operations instead.  Strings are members  *)
(* of a small set and normalisation (trim and upper-case) is a function on *)
(* that set, so two spellings of one serial are two raw values with one    *)
(* normal form.                                                            *)
(***************************************************************************)

CONSTANTS
    Raw,            \* the spellings a field can carry, "" among them
    Norm,           \* normalizeIdentityPart: a function from Raw to Raw
    InvalidSerial   \* the normal forms isInvalidSerialSentinel rejects

Missing == ""

ASSUME NormAssumption ==
    /\ Missing \in Raw
    /\ Norm \in [Raw -> Raw]
    /\ Norm[Missing] = Missing
    /\ \A x \in Raw : Norm[Norm[x]] = Norm[x]

TripleField == {"Manufacturer", "DeviceID", "SerialNumber"}
ModelField  == {"DeviceID", "SoftwareVersion", "HardwareVersion"}
Field       == TripleField \union ModelField \union {"MacAddress"}

DeviceInfo       == [Field -> Raw]
PhysicalIdentity == [Field -> Raw]

(* The info of a deviceEntry literal: every field empty. *)
NoInfo == [f \in Field |-> Missing]

CanonicalPhysicalIdentity(info) == [f \in Field |-> Norm[info[f]]]

(* A complete normalised triple whose serial is not a placeholder. *)
IsQualified(physical) ==
    /\ \A f \in TripleField : physical[f] # Missing
    /\ physical["SerialNumber"] \notin InvalidSerial

(* The index key.  encodeIdentityMember length-prefixes each member, which *)
(* makes the encoding injective: the key is the triple itself.             *)
NoKey == <<>>
Triple(physical) ==
    <<physical["Manufacturer"], physical["DeviceID"], physical["SerialNumber"]>>
Key(physical) == IF IsQualified(physical) THEN Triple(physical) ELSE NoKey
KeyOf(info)   == Key(CanonicalPhysicalIdentity(info))

Differ(x, y)       == x # Missing /\ y # Missing /\ x # y
DifferIn(f, a, b)  == Differ(Norm[a[f]], Norm[b[f]])

(* Two different serials, or two different MACs, are two devices. *)
CanMergeIdentity(incoming, existing) ==
    \A f \in {"SerialNumber", "MacAddress"} : ~ DifferIn(f, incoming, existing)

HasConflictingModelSignature(incoming, existing) ==
    /\ \A f \in ModelField : Norm[incoming[f]] # Missing /\ Norm[existing[f]] # Missing
    /\ \E f \in ModelField : Norm[incoming[f]] # Norm[existing[f]]

(* Slip: a group is joined on its model alone. *)
SameModelSuffices(info, previous) == ~ HasConflictingModelSignature(info, previous.info)
(* "previous" is the (info, physical) pair of an existing entry. *)
CompatibleAliasEnrichment(info, previous) ==
    /\ CanMergeIdentity(info, previous.info)
    /\ ~ HasConflictingModelSignature(info, previous.info)
    /\ ~ Differ(Norm[info["Manufacturer"]], previous.physical["Manufacturer"])

(* A partial observation keeps a published key only if every member of the *)
(* triple it does carry agrees with the entry's current one.               *)
PreservesCurrentIdentityAuthority(info, entry) ==
    /\ entry.identityKey # NoKey
    /\ Key(entry.physical) = entry.identityKey
    /\ \A f \in TripleField : Norm[info[f]] \in {Missing, entry.physical[f]}

(* Each empty field of info takes the value previous has. *)
FillMissing(info, previous) ==
    [f \in Field |-> IF info[f] = Missing THEN previous[f] ELSE info[f]]
=============================================================================
