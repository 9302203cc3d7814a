SPECIFICATION Spec
CONSTANTS
    CRName = "cr"
    CRUID = "uid1"
    OtherNames = {"other"}
    OtherUIDs = {"uid0", "uid2"}
    Keys = {k1, k2}
    NoKey = NoKey
    Specs <- DataSpecs
    ForeignTags <- NoForeignTags
INVARIANTS
    KeyOutlivesData
    KeysAreFindable
    FinalizerHoldsKey
SYMMETRY Symmetry
