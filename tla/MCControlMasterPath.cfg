\* Two runs that each start a master in the background; nothing fails.
SPECIFICATION Spec
CONSTANTS
    s1 = s1
    s2 = s2
    m1 = m1
    b1 = b1
    b2 = b2
    Slaves = {s1, s2}
    Explicit = {}
    Persist <- Idling
    Binds = {b1, b2}
    Allowed = {b1}
    Asks <- NoForwards
    NoBind = NoBind
    NoLock = NoLock
    NoShell = {}
    Crashing = {}
    Losing = {}
    NoMaster = NoMaster
    Stale = Stale
INVARIANTS
    ServingMasterIsReachable
CHECK_DEADLOCK FALSE
