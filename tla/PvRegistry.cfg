CONSTANTS
    FreshFor <- MCFreshFor
    RetainFor <- MCRetainFor
    MaxInt = 4
    InputID = {}
    SensorID = {"s1"}
    Asset = {"inverter"}
    Observation = {"o1", "o2"}
    Identity = {"m1", "m2"}
    Resolved = {"m1", "m2"}
    Output <- MCOutput
    Update = {}
    NoAsset = NoAsset
    MaxFacts = 10
    MaxOrigins = 10
    MaxOutputs = 11
    MaxGeneration = 3
    Meter = {"m1", "m2"}
    FirstReading <- MCFirstReading
    Modulus = 4
    Channel <- MCChannel
    InTenths = {"o2"}
    Others <- MCOthers
    MaxProduced <- MCMaxProduced

SPECIFICATION PollSpec
INVARIANTS
    OriginsCoverFacts
    ReportFollowsFacts
    SnapshotsTellTheAge
    DeltasNeverOvercount
CHECK_DEADLOCK FALSE
