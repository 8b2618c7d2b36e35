\* A client and a stranger that may never leave, one permit.
SPECIFICATION FairSpec
CONSTANTS
    c1 = c1
    c2 = c2
    c3 = c3
    s1 = s1
    alice = alice
    nobody = nobody
    key1 = key1
    key2 = key2
    NoConn = NoConn
    NoKey = NoKey
    Clients <- OneClient
    Strangers <- OneStranger
    Names = {alice, nobody}
    Accounts = {alice}
    Keys = {key1, key2}
    Login <- LoginAlice
    Identity <- IdentityOf
    Outdated <- OutdatedClient
    MaxConnections = 1
    LossyConns <- FirstAttempts
PROPERTIES
    ConnectReturns
    ClosedConnectionEnds
    EveryDialAdmitted
CHECK_DEADLOCK FALSE
