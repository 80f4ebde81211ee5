CONSTANTS
    Callers = {c1, c2, c3}
    Limit = 2
    Window = 3
    MaxAttempts = 3
    BaseDelay = 1
    MaxDelay = 2
    Timeout = 1
SPECIFICATION Spec
INVARIANTS
    SentAtMostTwiceQuota
PROPERTIES
    CallsEnd
