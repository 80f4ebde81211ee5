SPECIFICATION FairSpec
CONSTANTS
    Tokens <- MCTokens
    Markets = {"m1", "m2"}
    TokensOf <- MCTokensOf
    Opportunities <- MCOpportunities
    YesPrices = {3, 50, 97}
    Pollers = {"scanner"}
    Scanner = "scanner"
    BatchLimit = 2
    MaxRecords = 3
    MaxAborts = 1
INVARIANTS
    AlertsAtMostOnce
PROPERTIES
    ResolvedEventSettles
CHECK_DEADLOCK FALSE
