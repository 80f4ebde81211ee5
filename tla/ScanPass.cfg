CONSTANTS
    Unit = 10
    RateUnit = 10
    CorruptBidMax = 1
    CorruptAskMin = 9
    ResolvedNoMax = 1
    MaxMarkets = 3
    MaxMoves = 1
    MaxCloses = 1
    MaxFails = 1
    Scenarios <- MCScenarios
SPECIFICATION Spec
CHECK_DEADLOCK FALSE
INVARIANTS TypeOK LockPays QuietMeansExecutable AtMostOneSide DirectionalRanksLast
