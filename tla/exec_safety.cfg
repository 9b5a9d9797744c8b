SPECIFICATION Spec
CONSTANTS
    p1 = p1
    p2 = p2
    w1 = w1
    w2 = w2
    Workers = {w1, w2}
    NoWorker = NoWorker
    Procs = {p1, p2}
    Deployments <- SafetyDeployments
    LeaseDuration = 2
    MaxClock = 3
    MaxFence = 3
    MaxApprovals = 2
INVARIANTS
    NoReplayWithoutDecision
    EffectsInOrder
    ExecutorSound
PROPERTIES
    OwnerStands
CHECK_DEADLOCK FALSE
