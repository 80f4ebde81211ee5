SPECIFICATION Spec
CONSTANTS
    Tokens <- MCTokens
    Markets = {"m1", "m2"}
    TokensOf <- MCTokensOf
    Opportunities <- MCOpportunities
    YesPrices = {3, 50, 97}
    Pollers = {"scanner", "settle"}
    Scanner = "scanner"
    BatchLimit = 2
    MaxRecords = 3
    MaxAborts = 1
INVARIANTS
    IInv
    ShadowIsolated
    AlertsAreJustified
PROPERTIES
    ImplementsLifecycle
CHECK_DEADLOCK FALSE
