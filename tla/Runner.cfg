CONSTANTS
    ScanInterval = 1
    Arguments <- MCArguments
    SettleInterval = 1
    StaleCheck = 1
    ResyncInterval = 2
    StallTimeout = 2
    BaseBackoff = 1
    MaxBackoff = 2
    HealthyRun = 1
    MinWindow = 1
    LongestPass = 1
    LongestResync = 1
SPECIFICATION Spec
INVARIANTS
    TypeOK
    FrozenIsSeen
    MaskedFeedIsHealthy
PROPERTIES
    ShutdownCompletes
