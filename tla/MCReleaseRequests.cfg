SPECIFICATION Spec
CONSTANTS
    Users = {u1, u2}
    Configs = {c1, c2}
    Referencing = {c2}
    Values = {v1}
    Modes <- AllModes
    MaxRequests = 2
    MaxDeployments = 2
SYMMETRY Symmetry
VIEW View
CHECK_DEADLOCK FALSE
INVARIANTS
    TwoPersonRule
    ClaimsAreSettled
PROPERTIES
    DeployedWhileClaimed
