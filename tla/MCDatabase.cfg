SPECIFICATION FairSpec
CONSTANTS
    CRName = "cr"
    CRUID = "uid1"
    OtherNames = {"other"}
    OtherUIDs = {"uid0", "uid2"}
    TrustWindow = 0
    DeletionQuietWindow = 1
    RelinquishedRecheckInterval = 0
    EmptyCheckBackoffStartAfter = 1
    EmptyCheckDay = 1
    EmptyCheckBaseInterval = 1
    EmptyCheckMaxInterval = 1
    MaxAge = 1
    Declarations <- DeleteOrAdopt
    ForeignTags <- Untagged
    Episodes = {1, 2}
INVARIANTS
    LostInstanceIsNotReplaced
    SnapshotsAreKnown
    FinalizerHoldsInstance
PROPERTIES
    RemovedInstanceIsBackedUp
    CancelledDeletionSettles
