CONSTANTS
    Tokens = {t1, t2}
    Prices = {1}
    Sizes = {1}
    Hashes = {}
    HashHistorySize = 8
    ResyncConcurrency = 1
    StrictClock = TRUE
    MaxChanges = 2
    MaxChurn = 2
    MaxLosses = 0
    MaxFailures = 1
SPECIFICATION Spec
CHECK_DEADLOCK FALSE
SYMMETRY TokenSymmetry
INVARIANTS TypeOK IInv Coherent SubscriptionConverges StampedIsKnown
PROPERTIES RestNeverResurrects SeedNeverRegresses
