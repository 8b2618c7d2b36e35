\* A user who is not root, one run, nothing fails.
SPECIFICATION FairSpec
CONSTANTS
    p1 = p1
    p2 = p2
    i1 = i1
    i2 = i2
    i3 = i3
    i4 = i4
    i5 = i5
    Logins <- Other
    Ports <- OnePort
    Ids <- Identities
    Absent = Absent
    Empty = Empty
    NoPort = NoPort
    MaxRuns = 1
    MaxReleases = 1
    MaxCrashes = 0
    Failing = FALSE
INVARIANTS
    UndisturbedRunFinishes
CHECK_DEADLOCK FALSE
