\* Layouts, filters, the dialog and the viewer over a feed that changes.
SPECIFICATION ReadingSpec
CONSTANTS
    AllReviews <- MCReviews
    High <- MCHigh
    PageSize = 1
    DialogSize = 2
    FeedLimit = 1
    SourceLimit = 2
    Configs <- MCConfigs
    Mounts <- MCMounts
    RequestsFail = TRUE
    NoView = NoView
    MaxChanges = 2
INVARIANTS
    ReadingInv
PROPERTIES
    CardsStay
    DialogLoadsAll
CHECK_DEADLOCK FALSE
