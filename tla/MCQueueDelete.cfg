SPECIFICATION Spec
CONSTANTS
    CRName = "cr"
    CRUID = "uid1"
    OtherNames = {"other"}
    OtherUIDs = {"uid0", "uid2"}
    TrustWindow = 2
    DeletionQuietWindow = 2
    RelinquishedRecheckInterval = 2
    EmptyCheckBackoffStartAfter = 2
    EmptyCheckDay = 1
    EmptyCheckBaseInterval = 1
    EmptyCheckMaxInterval = 2
    MaxAge = 3
    Declarations <- DeleteDeclarations
    ForeignTags <- NoForeignTags
    Arrivals = {"Visible", "Delayed"}
    PinsKey = FALSE
    DenyDelay = 1
    CounterLag = 1
INVARIANTS
    DeletesOnlyDrained
    PendingMeansDenied
    CleanPassSettles
