\* Two sessions of one user, another user's profiles, two profiles of two columns.
SPECIFICATION Spec
CONSTANTS
    NULL = NULL
    OVERLONG = OVERLONG
    MayLoseDatabase = TRUE
    Users = {"user", "guest"}
    Sessions = {phone, laptop}
    Owner <- MCOwner
    Ids = {t1, t2}
    Columns = {c1, c2}
    Values = {v1, v2}
SYMMETRY Symmetry
INVARIANTS
    TypeOK
    ErrorsHaveACause
    ConflictMeansPaired
    SuccessIsStored
