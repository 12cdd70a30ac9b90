CONSTANTS
    p1 = p1
    p2 = p2
    r1 = r1
    q1 = q1
    b1 = b1
    u1 = u1
    u2 = u2
    NoVerdict = NoVerdict
    VUs <- OrderVUs
    RandomUsers <- MCUsers
    Scenario <- OrderScenario
    MaxCount <- MCMaxCount
    MaxPolls = 2
    MaxIter = 2
SPECIFICATION Spec
INVARIANTS
    TypeOK
    OrderAlarmOnlyOnError
PROPERTIES
    OrderRefined
