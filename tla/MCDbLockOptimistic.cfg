CONSTANTS
    o1 = o1
    o2 = o2
    d1 = d1
    k1 = k1
    u1 = u1
    u2 = u2
    NoVerdict = NoVerdict
    VUs <- OptimisticVUs
    Users <- MCUsers
    Scenario <- OptimisticScenario
    MaxCount <- MCMaxCount
    MaxRetries = 3
    SharedIterations = 2
    MaxIter = 0
SPECIFICATION Spec
INVARIANTS
    TypeOK
    SuccessesWithinIssued
    RetriesExhaustedExactly
    NoConsistencyWithoutPolicy
PROPERTIES
    AccountRefined
