SPECIFICATION Spec
CONSTANTS
    Nodes = {n1, n2}
    Configs = {c1, c2}
    NoConfig = NoConfig
    Requests = {q1}
    MaxRows = 2
    MaxReleases = 1
SYMMETRY Symmetry
CHECK_DEADLOCK FALSE
INVARIANTS
    CanaryStaysOnCanaryNodes
