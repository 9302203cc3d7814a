SPECIFICATION Spec
CONSTANTS
    CRName = "cr"
    CRUID = "uid1"
    OtherNames = {"other"}
    OtherUIDs = {"uid0", "uid2"}
    TrustWindow = 0
    DeletionQuietWindow = 2
    RelinquishedRecheckInterval = 0
    EmptyCheckBackoffStartAfter = 1
    EmptyCheckDay = 1
    EmptyCheckBaseInterval = 1
    EmptyCheckMaxInterval = 1
    MaxAge = 2
    Declarations <- EitherPolicy
    ForeignTags <- NoForeignTags
    PinsKey = TRUE
    Kinds = {"topic", "bucket", "table"}
    DenyDelay = 1
    ListLag = 1
INVARIANTS
    FinalizerHoldsResource
    LostTableIsNotReplaced
PROPERTY
    DeletesSafely
