SPECIFICATION FairSpec
CONSTANTS
    Nodes = {n1, n2}
    Keys = {k1, k2}
    Broken = {k2}
    MaxTold = 2
    MaxFailures = 1
CHECK_DEADLOCK FALSE
INVARIANTS
    OneNodePerRequest
    ResultsAreKept
PROPERTIES
    EndsAreKept
    SampledRequestsEnd
