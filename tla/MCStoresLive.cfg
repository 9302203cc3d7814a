SPECIFICATION FairSpec
CONSTANTS
    CRName = "cr"
    CRUID = "uid1"
    OtherNames = {"other"}
    OtherUIDs = {"uid0", "uid2"}
    TrustWindow = 0
    DeletionQuietWindow = 1
    RelinquishedRecheckInterval = 0
    EmptyCheckBackoffStartAfter = 1
    EmptyCheckDay = 1
    EmptyCheckBaseInterval = 1
    EmptyCheckMaxInterval = 1
    MaxAge = 1
    Declarations <- Takeover
    ForeignTags <- PreviousTags
    PinsKey = FALSE
    Kinds = {"topic", "bucket", "table"}
    DenyDelay = 0
    ListLag = 1
INVARIANT
    ChangesOnlyOwned
PROPERTY
    DeletionCompletes
