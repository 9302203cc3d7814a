SPECIFICATION UpkeepSpec
CONSTANTS
    Owners = {"owner"}
    Consumers = {"app"}
    VpcOf <- OneVpc
    OwnerSpecs <- SharedOrNot
    Wanted <- MCWanted
    Haves <- MCHaves
    EngineVersions <- MCVersions
PROPERTIES
    AccessFollowsSharing
    ReleaseCompletes
    NothingDraggedEarly
    NeverWeaker
    AdoptionResizesNothing
    AgreementLasts
