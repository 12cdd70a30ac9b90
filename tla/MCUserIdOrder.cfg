CONSTANTS
    MaxVU = 1850
    Iterations = 10
SPECIFICATION Spec
INVARIANTS
    OrderIdsDistinct
CHECK_DEADLOCK FALSE
