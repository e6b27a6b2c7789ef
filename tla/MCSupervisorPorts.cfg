SPECIFICATION Spec
CONSTANTS
    Pipelines = {p1, p2}
    Infos = {i1, i2, i3}
    NoInfo = NoInfo
    MaxPort = 4
    MaxRestarts = 1
    FreeBound = 1
    CountBound = 1
SYMMETRY Symmetry
VIEW View
INVARIANTS
    NoSharedPorts
