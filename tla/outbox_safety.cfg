SPECIFICATION Spec
CONSTANTS
    e1 = e1
    e2 = e2
    w1 = w1
    w2 = w2
    d1 = d1
    NoWorker = NoWorker
    NoEvent = NoEvent
    Events = {e1, e2}
    Workers = {w1, w2}
    Dispatchers = {d1}
    BatchSize = 2
    MaxAttempts = 2
    LeaseDuration = 1
    BaseBackoff = 1
    MaxBackoff = 1
    GuardsSettled = FALSE
    MaxInterrupts = 1
    MaxRequeues = 1
    MaxDispatches = 1
    MaxLapses = 1
INVARIANTS
    ClaimsExclusive
    DeadLetterIsEarned
PROPERTIES
    PromiseKept
SYMMETRY Symmetry
CHECK_DEADLOCK FALSE
