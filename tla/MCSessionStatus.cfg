\* A command that fails, on a sound network.
SPECIFICATION Spec
CONSTANTS
    Requests <- OnlyExec
    Programs = {"source"}
    Codes = {1}
    MaxIn = 0
    MaxOut = 1
    NetCap = 2
    BufCap = 1
    Lossy = FALSE
    Failing = FALSE
INVARIANTS
    FailureIsReported
CHECK_DEADLOCK FALSE
