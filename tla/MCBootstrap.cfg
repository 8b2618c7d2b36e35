\* Root, two runs that may fail, one process killed, two releases.
SPECIFICATION FairSpec
CONSTANTS
    p1 = p1
    p2 = p2
    i1 = i1
    i2 = i2
    i3 = i3
    i4 = i4
    i5 = i5
    Logins <- Root
    Ports <- TwoPorts
    Ids <- Identities
    Absent = Absent
    Empty = Empty
    NoPort = NoPort
    MaxRuns = 2
    MaxReleases = 2
    MaxCrashes = 1
    Failing = TRUE
INVARIANTS
    OneIdentity
    RefusedOnlyIfBroken
    DoneMeansReady
PROPERTIES
    ServiceComesUp
CHECK_DEADLOCK FALSE
