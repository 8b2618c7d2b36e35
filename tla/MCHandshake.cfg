\* Three clients, one of them outdated, a stranger and one permit.
SPECIFICATION Spec
CONSTANTS
    c1 = c1
    c2 = c2
    c3 = c3
    s1 = s1
    alice = alice
    nobody = nobody
    key1 = key1
    key2 = key2
    NoConn = NoConn
    NoKey = NoKey
    Clients <- ThreeClients
    Strangers <- OneStranger
    Names = {alice, nobody}
    Accounts = {alice}
    Keys = {key1, key2}
    Login <- LoginAlice
    Identity <- IdentityOf
    Outdated <- OutdatedClient
    MaxConnections = 1
    LossyConns <- OneLossy
INVARIANTS
    TypeOK
    PermitsBalance
    AuthenticatedPeer
    OutcomeAgreement
PROPERTIES
    InstallsOwnKeys
CHECK_DEADLOCK FALSE
