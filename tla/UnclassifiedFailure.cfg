\* One search, no crash, no outage, no timeout.
SPECIFICATION FairPipelineSpec
CONSTANTS
    NULL = NULL
    Jobs = {s1}
    FAILURE_THRESHOLD = 2
    COOLDOWN = 2
    JOB_TIMEOUT = 1
    MayLoseDatabase = FALSE
    MaxClock = 0
    MaxFailures = 3
    MaxCrashes = 0
    MAX_JOBS = 2
    MAX_TRIES = 2
    MaxOutages = 0
PROPERTIES
    RunningSettles
CHECK_DEADLOCK FALSE
