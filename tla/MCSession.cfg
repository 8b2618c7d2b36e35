\* Sessions of every kind; everything that can fail may fail.
SPECIFICATION FairSpec
CONSTANTS
    Requests = {"shell", "exec", "subsystem", "unknown"}
    Programs = {"source", "filter"}
    Codes = {0, 1}
    MaxIn = 4
    MaxOut = 3
    NetCap = 2
    BufCap = 1
    Lossy = TRUE
    Failing = TRUE
INVARIANTS
    TypeOK
    NothingLostBeforeTheEnd
    SubsystemDrained
    SkippedMessagesAreReplies
    NoOrphanChild
PROPERTIES
    SessionEnds
CHECK_DEADLOCK FALSE
