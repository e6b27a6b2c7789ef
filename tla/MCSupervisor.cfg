SPECIFICATION Spec
CONSTANTS
    Pipelines = {p1}
    Infos = {i1, i2, i3}
    NoInfo = NoInfo
    MaxPort = 4
    MaxRestarts = 2
    FreeBound = 4
    CountBound = 3
SYMMETRY Symmetry
VIEW View
INVARIANTS
    OneProcessPerPipeline
    NoOrphanProcess
    RestartsFollowCrashes
    BreakerHolds
PROPERTIES
    StopIsComplete
    SidecarOutlivesProcess
    ImplementsProcessTable
