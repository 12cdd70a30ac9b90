CONSTANTS
    a1 = a1
    a2 = a2
    f1 = f1
    s1 = s1
    u1 = u1
    u2 = u2
    Nil = Nil
    VUs <- QueueVUs
    RandomUsers <- MCUsers
    Scenario <- QueueScenario
    MaxCount <- MCMaxCount
    MaxPolls = 2
    MaxIter = 1
SPECIFICATION Spec
INVARIANTS
    TypeOK
    SuccessOnlyWhenCompleted
    SuccessSamplesWithinCompleted
    PollTimeoutExact
    EntriesWithinAccepted
PROPERTIES
    ConsistencyRefined
