SPECIFICATION FairSpec
CONSTANTS
    Pipelines = {p1, p2}
    Infos = {i1, i2}
    NoInfo = NoInfo
    MaxPort = 3
    MaxRestarts = 2
    FreeBound = 1
    CountBound = 1
VIEW ViewPorts
INVARIANTS
    TypeOK
    NoPortLeak
PROPERTIES
    CallsReturn
    CrashIsResolved
