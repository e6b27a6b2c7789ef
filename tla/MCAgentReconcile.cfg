SPECIFICATION FairSpec
CONSTANTS
    Pipelines = {p1}
    Configs = {c1, c2, bad}
    ValidConfigs = {c1, c2}
    NoConfig = NoConfig
    Versions = {v1, v2}
    Referencing = {p1}
    NotKnown = NotKnown
VIEW View
INVARIANTS
    AppliedIsRunning
    ChecksumDescribesProcess
PROPERTIES
    KnownConverges
    UndeployedStops
