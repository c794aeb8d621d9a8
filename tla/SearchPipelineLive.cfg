\* One worker slot for two searches, of requests or of one daily collection over two
\* routes; one crash and one outage; one start per job, so a job the crash redelivers
\* is dropped.  The breaker row is absent, or OPEN without a date.
SPECIFICATION FairCollectionSpec
CONSTANTS
    NULL = NULL
    Jobs = {s1, s2}
    FAILURE_THRESHOLD = 1
    COOLDOWN = 2
    JOB_TIMEOUT = 1
    MayLoseDatabase = TRUE
    MaxClock = 1
    MaxFailures = 3
    MaxCrashes = 1
    MAX_JOBS = 1
    MAX_TRIES = 1
    MaxOutages = 1
    Routes = {r1, r2}
    MaxCollections = 1
PROPERTIES
    QueuedJobEnds
    PendingIsRun
    UndatedIsPermanent
CHECK_DEADLOCK FALSE
