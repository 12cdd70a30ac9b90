CONSTANTS
    o1 = o1
    o2 = o2
    d1 = d1
    k1 = k1
    u1 = u1
    u2 = u2
    NoVerdict = NoVerdict
    VUs <- SyncVUs
    Users <- MCUsers
    Scenario <- SyncScenario
    MaxCount <- MCMaxCount
    MaxRetries = 3
    SharedIterations = 0
    MaxIter = 2
SPECIFICATION Spec
INVARIANT
    ConsistentOnlyOnBusinessOutcome
