\* Two runs and two masters, one of which may be killed or lose its connection.
SPECIFICATION FairSpec
CONSTANTS
    s1 = s1
    s2 = s2
    m1 = m1
    b1 = b1
    b2 = b2
    Slaves = {s1, s2}
    Explicit = {m1}
    Persist <- Mixed
    Binds = {b1, b2}
    Allowed = {b1}
    Asks <- OneShares
    NoBind = NoBind
    NoLock = NoLock
    NoShell = {s2}
    Crashing = {s1}
    Losing = {s1}
    NoMaster = NoMaster
    Stale = Stale
INVARIANTS
    TypeOK
    IdleMasterCutsNobody
    AnswerIsOwn
    ForwardRouted
PROPERTIES
    RunReturns
    MasterIdlesOut
CHECK_DEADLOCK FALSE
