SPECIFICATION FairSpec
CONSTANTS
    p1 = p1
    p2 = p2
    w1 = w1
    w2 = w2
    Workers = {w1, w2}
    NoWorker = NoWorker
    Procs = {p1, p2}
    Deployments <- LiveDeployments
    LeaseDuration = 2
    MaxClock = 5
    MaxFence = 9
    MaxApprovals = 2
INVARIANTS
    UncertainCallNotHidden
PROPERTIES
    Settles
CHECK_DEADLOCK FALSE
