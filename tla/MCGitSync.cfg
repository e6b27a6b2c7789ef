SPECIFICATION OneLeaderSpec
CONSTANTS
    Instances = {i1, i2}
    Callers = {c1, c2}
    MaxAttempts = 2
    Delays = 2
    FaultCases <- SomeFaults
    MaxVersion = 2
    MaxExtras = 2
CHECK_DEADLOCK FALSE
INVARIANTS
    JobsAreScheduled
    RepositoryFollows
PROPERTIES
    JobsEnd
