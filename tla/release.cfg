SPECIFICATION MCSpec
CONSTANTS
    a = a
    b = b
    c = c
    w1 = w1
    w2 = w2
    d1 = d1
    d2 = d2
    Callers = {a, b, c}
    Workflows = {w1, w2}
    Demos = {d1, d2}
    Events = {"e1", "e2"}
    MaxVersion = 3
    MaxClock = 1
    MaxRecords = 2
    MinDemos = 2
    MinFeedback = 1
    MaxReportAge = 1
    NoWorkflow = NoWorkflow
    Scripts <- MCScripts
    Position <- MCPosition
    Schemas <- MCAllSchemas
    Values <- MCAllValues
    Height <- MCHeight
    MaxNesting = 2
    Versions <- MCVersions
    Inputs <- MCInputs
    Contexts <- MCContexts
    Results <- MCValues
INVARIANTS
    PublishedOnEvidence
    TasksReachPublished
    LearningKept
    ContractsSound
CHECK_DEADLOCK FALSE
