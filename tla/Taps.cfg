SPECIFICATION FairSpec
CONSTANTS
    Instances = {i1, i2}
    MaxStreams = 3
    QueueSize = 2
    Taps = {t1}
CHECK_DEADLOCK FALSE
INVARIANTS
    StopsAreHeard
    OneRouteKeepsOrder
    LiveStreamIsRegistered
PROPERTIES
    TapsEnd
