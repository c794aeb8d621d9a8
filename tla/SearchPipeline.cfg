\* Two searches, of requests or of the daily collection over two routes, two worker
\* slots, one crash, one Redis outage.  Both failures open the breaker; a job
\* redelivered after the crash meets it open or half-open.
SPECIFICATION CollectionSpec
CONSTANTS
    NULL = NULL
    Jobs = {s1, s2}
    FAILURE_THRESHOLD = 2
    COOLDOWN = 1
    JOB_TIMEOUT = 1
    MayLoseDatabase = TRUE
    MaxClock = 1
    MaxFailures = 2
    MaxCrashes = 1
    MAX_JOBS = 2
    MAX_TRIES = 2
    MaxOutages = 1
    Routes = {r1, r2}
    MaxCollections = 1
SYMMETRY Symmetry
INVARIANTS
    PipelineTypeOK
    OneStrandedPerRun
    NeverOpensEarly
PROPERTIES
    FinishedStaysFinished
CHECK_DEADLOCK FALSE
