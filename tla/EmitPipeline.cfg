SPECIFICATION Spec
CONSTANTS
    Candidates <- MCCandidates
    Feeds <- MCFeeds
    MinNotional = 2
    ShadowFloor = 1
    Cooldown = 2
    PruneThreshold = 1
    MaxTime = 3
    MaxPasses = 3
    MaxFailures = 1
    MaxCrashes = 1
INVARIANTS
    TypeOK
    EmittedIsStored
    NotifiedIsStored
    EachKeptIsTried
    ShadowLeavesFeedAlone
PROPERTIES
    CooldownHolds
CHECK_DEADLOCK FALSE
