\* Both kinds of forward; connects fail and the connection may be lost.
SPECIFICATION FairSpec
CONSTANTS
    Kinds = {"L", "R"}
    Forwards <- ThreeForwards
    Traffic <- Uploads
    NetCap = 2
    BufCap = 1
    Failing = TRUE
INVARIANTS
    TypeOK
    NothingLost
    RoutedToItsTarget
PROPERTIES
    RelaySpec
    UploadArrives
    RelayEnds
CHECK_DEADLOCK FALSE
