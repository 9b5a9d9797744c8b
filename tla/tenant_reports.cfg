SPECIFICATION MCSpec
CONSTANTS
    Parts = {"records"}
    a1 = a1
    a2 = a2
    a3 = a3
    p1 = p1
    p2 = p2
    k1 = k1
    k2 = k2
    d1 = d1
    t1 = t1
    t2 = t2
    i1 = i1
    i2 = i2
    g1 = g1
    g2 = g2
    MaxTask = 3
    MaxMessages = 2
    MaxEnds = 2
    Clients = {a1, a2, a3}
    ActorOf <- MCActorOf
    NoActor = NoActor
    MaxStored = 1
    Processes = {p1, p2}
    Keys = {k1, k2}
    Documents = {d1}
    Tenants = {t1, t2}
    DocIds = {i1, i2}
    Groups = {g1, g2}
    Classes <- RecordClasses
    Periods = {0, 2, 3}
    MaxClock = 5
    Events <- SomeEvents
    Handlers = {h1, h2}
    Rules <- SomeRules
    InitialContext <- Plain
    FinalResult <- Card
    Tenant = "t1"
    MaxClockSkew = 0
    MaxTime = 1
    MaxKey = 2
    MaxSent = 2
    Item = "item"
    ReplayKeys = {"x", "selector"}
SYMMETRY Symmetric
INVARIANTS
    ReportsServeEveryTenant
CHECK_DEADLOCK FALSE
