\* Three searches at once on one itinerary, fetched in one order and committed in
\* another, over midnight; two runs of the nightly job.
SPECIFICATION DailySpec
CONSTANTS
    NULL = NULL
    NoJob = NoJob
    Jobs = {j1, j2, j3}
    MAX_JOBS = 3
    Itineraries = {i1}
    Prices = {1, 2, 3}
    MaxPolls = 3
    Aggregators = {a1, a2}
    MaxRuns = 2
    DayOf <- MCDayOf
    Minor <- MCMinor
    Currency <- MCCurrency
SYMMETRY Symmetry
INVARIANTS
    TypeOK
    EndpointsObserved
    RowsAreRuns
    DailyIsOneRun
    PollsWithinBounds
PROPERTIES
    Serializable
