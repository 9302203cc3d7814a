SPECIFICATION FairSpec
CONSTANT
    Parts = {"subscription", "role", "identity", "alarms"}
    Arns = {1, 2}
    Accounts = {"cr", "app"}
    Names = {"age", "backlog"}
    AlarmSpecs <- MCAlarmSpecs
INVARIANTS
    SkippedIsInPlace
    FinalizerHoldsAccess
PROPERTIES
    AccessChangesOnlyOwned
    AccessSettles
CHECK_DEADLOCK FALSE
