CONSTANTS
    Unit = 4
    RateUnit = 2
    Orders <- MCOrders
SPECIFICATION WalkSpec
CHECK_DEADLOCK FALSE
INVARIANTS WalkIsOptimal ConservativeIsWithin
PROPERTIES WalkEnds
