SPECIFICATION FairSpec
CONSTANTS
    Clients = {c1, c2}
    NoClient = NoClient
    Routings = {"r1", "r2"}
    NoRouter = NoRouter
    Preferreds = {"h3", "multipath"}
    SelectorStrategies = {"multipath"}
    Multipaths = {"multipath"}
    Rests = {"a", "invalid", "empty"}
    Invalid = {"invalid"}
    NoTransports = {"empty"}
    Saves = {"s1", "s2"}
    DefaultConfig <- MCDefaultConfig
    Uploads <- MCUploads
    MaxCalls = 3
INVARIANTS
    EngineTypeOK
    Settled
    RunningIsWhole
    StoppedIsQuiet
    RollbackRestores
    DriftOnlyByWrites
PROPERTIES
    InvalidReloadKeepsRunning
    
CHECK_DEADLOCK FALSE
