SPECIFICATION FairSpec
CONSTANTS
    Nodes = {n1, n2}
    Configs = {c1, c2}
    NoConfig = NoConfig
    Requests = {q1}
    MaxRows = 4
    MaxReleases = 1
VIEW ServerView
CHECK_DEADLOCK FALSE
INVARIANTS
    BroadenedWasTold
    PreviousIsOlder
PROPERTIES
    RollbacksCopyPrevious
    WindowsAreReviewed
