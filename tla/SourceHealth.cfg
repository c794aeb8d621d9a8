\* Two jobs at once, a cooldown of more than two job timeouts.
SPECIFICATION FairSpec
CONSTANTS
    NULL = NULL
    Jobs = {j1, j2}
    FAILURE_THRESHOLD = 2
    COOLDOWN = 3
    JOB_TIMEOUT = 1
    MayLoseDatabase = TRUE
    MaxClock = 5
    MaxFailures = 4
    MaxCrashes = 1
INVARIANTS
    RowIsAccurate
PROPERTIES
    FailedTrialRestartsCooldown
    ProbedAfterCooldown
CHECK_DEADLOCK FALSE
