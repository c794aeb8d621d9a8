\* The code's own constants, up to three runs missed in a row.
SPECIFICATION Spec
CONSTANTS
    NULL = NULL
    AHEAD_MONTHS = 3
    RETENTION_MONTHS = 12
    BOOTSTRAP_MONTHS <- MCBootstrap
    InstallMonths <- MCEarlyInstalls
    LastMonth <- MCLastMonth
    MaxOverdue = 3
INVARIANTS
    TypeOK
    WindowCoversToday
    NothingOutlivesRetention
PROPERTIES
    OnlyOldPayloadsAreDropped
