CONSTANTS
    initiator = 3
    target = 8
    other = 21
    Raw <- MCRaw
    Norm <- MCNorm
    InvalidSerial <- MCInvalidSerial
    Address <- MCAddress
    ClassOf <- MCClassOf
    CompanionOf <- MCCompanionOf
    Observation <- FaceObservations
    ObservedRole = {"Master"}
    Provider = {p, q}
    InitialProviders = {p}
    ProvidesProjections = {p}
    MalformedProjections = {}
    Match <- MCMatch
    EntryId = {e1, e2, e3, e4}
    Nil = Nil
    NoSlot = NoSlot
    NoIndex = NoIndex
    Unallocated = Unallocated
    MaxObservationGeneration = 5

VIEW Timeless
SPECIFICATION Spec
INVARIANTS
    FacesMirrorSlots
    RoutedAddressesFitTheRole
PROPERTIES
    FaceHistoryIsRetained
    ConfirmationFollowsTopology
CHECK_DEADLOCK FALSE
