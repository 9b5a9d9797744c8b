SPECIFICATION MCSpec
CONSTANTS
    Parts = {"run", "stream"}
    r1 = r1
    r2 = r2
    Runs = {r1, r2}
    NoRun = NoRun
    Plans <- MCPlans
    MaxTurns = 2
    Attempts = 2
    Concurrency = 1
    CompactAt = 4
    KeepTurns = 1
    CallLimit = 2
    TokenLimit = 2
    MaxFaults = 1
    CallIds <- MCCallIds
    MaxAttempts = 2
    EventLimit = 6
    MaxWire <- MCMaxWire
INVARIANTS
    RunsAccounted
    ViewFaithful
    StreamFaithful
PROPERTIES
    AnswersSound
    CloseTerminates
    NothingLeaks
CHECK_DEADLOCK FALSE
