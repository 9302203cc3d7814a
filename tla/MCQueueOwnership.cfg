SPECIFICATION Spec
CONSTANTS
    CRName = "cr"
    CRUID = "uid1"
    OtherNames = {"other"}
    OtherUIDs = {"uid0", "uid2"}
    TrustWindow = 1
    DeletionQuietWindow = 1
    RelinquishedRecheckInterval = 1
    EmptyCheckBackoffStartAfter = 1
    EmptyCheckDay = 1
    EmptyCheckBaseInterval = 1
    EmptyCheckMaxInterval = 1
    MaxAge = 2
    Declarations <- OwnershipDeclarations
    ForeignTags <- SomeForeignTags
    Arrivals = {}
    PinsKey = TRUE
    DenyDelay = 0
    CounterLag = 0
INVARIANTS
    TypeOK
    ChangesOnlyOwned
    FinalizerHoldsQueue
