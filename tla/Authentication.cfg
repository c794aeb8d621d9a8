CONSTANTS
    NULL = NULL
    Requests = {r1, r2}
    Usernames = {luca}
    Addresses = {lan}
    ACCOUNT_LIMIT = 1
    IP_LIMIT = 2
    SessionIds = {s1}
    MaxCount = 3
    MaxWindows = 2
    MaxFaults = 1
SPECIFICATION Spec
INVARIANTS
    TypeOK
    ChecksAreLimited
    CountersExpire
    WorkIsAuthorised
PROPERTIES
    LockoutEnds
CHECK_DEADLOCK FALSE
