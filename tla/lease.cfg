SPECIFICATION Spec
CONSTANTS
    e1 = e1
    e2 = e2
    c1 = c1
    c2 = c2
    c3 = c3
    w1 = w1
    w2 = w2
    Workers = {w1, w2}
    NoWorker = NoWorker
    Executions = {e1}
    Contexts = {c1, c2, c3}
    WorkerOf <- MixedIds
    LeaseDuration = 2
    BatchLimit = 1
    SharedFence = FALSE
    ClockLag = 1
    MaxClock = 3
    MaxRevision = 3
    MaxFence = 3
INVARIANTS
    LeasesSound
    FencingSound
    CurrentRevisionIsCurrentDocument
PROPERTIES
    HeldRowWrittenByNewestGrant
    TerminalIsFinal
