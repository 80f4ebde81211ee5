CONSTANTS
    Tokens = {t1}
    Prices = {1}
    Sizes = {1}
    Hashes = {h1, h2, h3}
    HashHistorySize = 2
    MaxTime = 1
    MaxSeen = 4
SYMMETRY HashSymmetry
SPECIFICATION RevertSpec
CHECK_DEADLOCK FALSE
INVARIANTS RevertTypeOK HistoryIsTail
PROPERTIES RevertIsFlagged
