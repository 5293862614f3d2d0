CONSTANTS
    Raw <- MCRaw
    Norm <- MCNorm
    InvalidSerial = {}
    Address <- MCAddress
    ClassOf <- MCClassOf
    CompanionOf <- MCCompanionOf
    Observation <- MCObservations
    ObservedRole = {}
    Provider = {p}
    InitialProviders = {p}
    ProvidesProjections = {p}
    MalformedProjections = {}
    Match <- MCMatch
    EntryId = {e1, e2, e3, e4, e5, e6, e7, e8, e9}
    Nil = Nil
    NoSlot = NoSlot
    NoIndex = NoIndex
    Unallocated = Unallocated
    MaxObservationGeneration = 20
    TargetLists <- MCTargetLists
    Unprobeable = {}
    Answers <- MCAnswers
    SerialTexts <- MCSerialTexts
    ShortPayload = ShortPayload
    MaxElsewhere = 1

SPECIFICATION ScanSpec
INVARIANTS
    ReturnsEachAnsweringDeviceOnce
    DeferredTargetsAreAskedAgain
    AnsweringFacesAreConfirmed
PROPERTIES
    ScanComesToAnEnd

CHECK_DEADLOCK FALSE
