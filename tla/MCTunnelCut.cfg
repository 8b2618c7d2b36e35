\* Both sides write; nothing fails and nobody closes by mistake.
SPECIFICATION FairSpec
CONSTANTS
    Kinds = {"L"}
    Forwards <- OneForward
    Traffic <- Exchange
    NetCap = 1
    BufCap = 1
    Failing = FALSE
INVARIANTS
    RelaysUntilClose
CHECK_DEADLOCK FALSE
