CONSTANTS
    Tokens = {t1}
    Prices = {1}
    Sizes = {1}
    Hashes = {}
    HashHistorySize = 8
    ResyncConcurrency = 1
    StrictClock = TRUE
    MaxChanges = 2
    MaxChurn = 1
    MaxLosses = 1
    MaxFailures = 1
SPECIFICATION FairSpec
CHECK_DEADLOCK FALSE
PROPERTIES Heals
