SPECIFICATION MCSpec
CONSTANTS
    Callers = {caller}
    Main = main
    NoRequest = NoRequest
    Servers = 2
    MaxClients = 2
    MaxIds = 3
    PipeSize = 1
    MaxOutput = 1
    Users = {user1, user2}
    Closer = closer
    MaxProcs = 2
    MaxJobs = 2
    MaxMinute = 3
    Schedules <- SomeSchedules
    MaxCalls = 2
    NoInput = NoInput
    Sessions <- SomeSessions
    Inputs <- SomeInputs
    MaxAsks = 3
    ApprovalIds = {approval}
    People = {"alice", "bob", "mallory"}
    Tenant <- TwoTenants
    MayDecide = {"alice", "mallory"}
    RequireDistinctApprover = TRUE
    Nobody = Nobody
    MaxTime = 2
    MaxRequests = 2
    Suites <- SomeSuites
    Pool = {w1, w2}
    Replies <- SomeReplies
    Consequential = {"pay"}
    NoTool = "none"
    EmptyObject = "{}"
INVARIANTS
    HostsSound
    FiresOnSchedule
    GateSound
    EvaluationSound
PROPERTIES
    HostsLetGo
    ApprovalsStand
    EvaluationEnds
CHECK_DEADLOCK FALSE
