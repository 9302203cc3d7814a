SPECIFICATION OperatorSpec
CONSTANTS
    Sections <- MCSections
    Global = {"iam"}
    Home = "r1"
    Regions = {"r1", "r2"}
    MaxGeneration = 2
    LongAfter = 1
    MaxFaults = 2
    Crs = {"p", "c"}
    Specs <- MCSpecs
INVARIANTS
    ReadyIsEarned
    NoneForgotten
PROPERTIES
    FinalizerHoldsCR
    StaysInItsRegion
    FirstRetryIsSoon
    CRSettles
CHECK_DEADLOCK FALSE
