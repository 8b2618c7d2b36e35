\* One connection: three binds, two forwards at a time, no stream; or two
\* streams for one permit (one next to a relay), a bind that is not allowed and
\* a forward.
SPECIFICATION EitherSpec
CONSTANTS
    localhost = localhost
    loopback = loopback
    wildcard = wildcard
    private = private
    port = port
    public = public
    Conns = {a}
    MaxStreams = 2
    Binds <- AllBinds
    SocketOf <- SocketsOfBinds
    Allowed <- AllowedBinds
    Taken = {}
    MaxChannels = 1
    MaxForwards = 2
    MaxTasks = 2
    MaxRelays = 1
    MaxQueue = 2
INVARIANTS
    TypeOK
    ChannelPermitsBalance
    NoOrphanListener
    PeerViewAgrees
PROPERTIES
    CancelReleasesSocket
    EveryRequestAnswered
    EveryStreamAnswered
CHECK_DEADLOCK FALSE
