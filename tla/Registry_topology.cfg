CONSTANTS
    initiator = 3
    target = 8
    other = 21
    Raw <- MCRaw
    Norm <- MCNorm
    InvalidSerial <- MCInvalidSerial
    Address <- MCAddress
    ClassOf <- MCClassOf
    CompanionOf <- MCCompanionOf
    Observation <- AliasObservations
    ObservedRole = {}
    Provider = {p}
    InitialProviders = {p}
    ProvidesProjections = {p}
    MalformedProjections = {}
    Match <- MCMatch
    EntryId = {e1, e2, e3, e4}
    Nil = Nil
    NoSlot = NoSlot
    NoIndex = NoIndex
    Unallocated = Unallocated
    MaxObservationGeneration = 6

VIEW Timeless
SPECIFICATION Spec
INVARIANTS
    TopologyJoinsOneGroup
CHECK_DEADLOCK FALSE
