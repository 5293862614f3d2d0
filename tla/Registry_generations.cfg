CONSTANTS
    initiator = 3
    target = 8
    other = 21
    Raw <- MCRaw
    Norm <- MCNorm
    InvalidSerial <- MCInvalidSerial
    Address <- MCAddress
    ClassOf <- MCClassOf
    CompanionOf <- MCCompanionOf
    Observation <- AliasObservations
    ObservedRole = {"Slave"}
    Provider = {p, q}
    InitialProviders = {p}
    ProvidesProjections = {p, q}
    MalformedProjections = {}
    Match <- MCMatch
    Methods <- MCMethods
    Torn = Torn
    EntryId = {e1, e2, e3, e4}
    Nil = Nil
    NoSlot = NoSlot
    NoIndex = NoIndex
    Unallocated = Unallocated
    MaxObservationGeneration = 3

SPECIFICATION ReaderSpec
INVARIANTS
    TypeOK
    ProofsAreOrdered
    ListsTellOfOneRegistry
PROPERTIES
    LedgerSpec
    EveryChangeAdvancesGeneration
CHECK_DEADLOCK FALSE
