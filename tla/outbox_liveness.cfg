SPECIFICATION FairSpec
CONSTANTS
    e1 = e1
    e2 = e2
    w1 = w1
    w2 = w2
    d1 = d1
    NoWorker = NoWorker
    NoEvent = NoEvent
    Events = {e1, e2}
    Workers = {w1, w2}
    Dispatchers = {}
    BatchSize = 1
    MaxAttempts = 2
    LeaseDuration = 2
    BaseBackoff = 1
    MaxBackoff = 2
    GuardsSettled = TRUE
    MaxInterrupts = 1
    MaxRequeues = 1
    MaxDispatches = 0
    MaxLapses = 1
PROPERTIES
    EventuallySettled
CHECK_DEADLOCK FALSE
