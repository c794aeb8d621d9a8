CONSTANTS
    NULL = NULL
    FULL_WEIGHT = 100
    HORIZON_DAYS = 365
    FirstDay = 5
    LastDay = 10
    PastDays = {1, 4}
    MonthOf <- MCMonthOf
    Requests <- MCRequests
SPECIFICATION Spec
INVARIANTS
    TasksAreConserved
    UnknownOutranksKnown
    NoTaskStarves
CHECK_DEADLOCK FALSE
