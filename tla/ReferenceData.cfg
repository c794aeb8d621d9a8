\* Two overlapping runs, four states of the sources, two changes, one failure.
SPECIFICATION Spec
CONSTANTS
    NULL = NULL
    CONFLICT = CONFLICT
    Runs = {r1, r2}
    Distance <- MCDistance
    Charted <- MCCharted
    HUB_RADIUS = 1
    MEMBER_RADIUS = 2
    Feeds <- MCFeeds
    MaxChanges = 2
    MaxFailures = 1
INVARIANTS
    TypeOK
    GroupedAirportsExist
    
PROPERTIES
    FeedIsReflected
