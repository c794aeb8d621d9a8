\* Two searches whose updates of the row mix.
SPECIFICATION Spec
CONSTANTS
    NULL = NULL
    Jobs = {j1, j2}
    FAILURE_THRESHOLD = 3
    COOLDOWN = 3
    JOB_TIMEOUT = 1
    MayLoseDatabase = FALSE
    MaxClock = 8
    MaxFailures = 5
    MaxCrashes = 0
SYMMETRY Symmetry
INVARIANTS
    OpenCarriesOpenedAt
CHECK_DEADLOCK FALSE
