SPECIFICATION FairSpec
CONSTANTS
    CRName = "cr"
    CRUID = "uid1"
    OtherNames = {"other"}
    OtherUIDs = {"uid0", "uid2"}
    Keys = {k1}
    NoKey = NoKey
    Specs <- AdoptSpecs
    ForeignTags <- SomeForeignTags
INVARIANTS
    KeyChangesOnlyOwned
PROPERTIES
    ScheduledDeletionIsCancelled
    KeyDeletionCompletes
