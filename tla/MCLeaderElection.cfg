SPECIFICATION FairSpec
CONSTANTS
    Instances = {i1, i2}
    TTL = 3
    MaxFailures = 3
    FaultCases = {{"cut", "crash"}, {"crash", "forget"}, {"stall", "stop", "cut"}}
    MaxCalls = 1
    MaxCrashes = 1
CHECK_DEADLOCK FALSE
INVARIANTS
    OneLeaderPerInterval
PROPERTIES
    KeyIsRespected
    ImplementsLease
    ServicesResume
