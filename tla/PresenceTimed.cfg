CONSTANTS
    n1 = n1  n2 = n2  b1 = b1  b2 = b2
    Node = {n1, n2}
    User = {u1}
    Client = {b1, b2}
    NoNode = NoNode
    NoClient = NoClient
    Owner <- MCOwner
    Home <- MCHome
    Exclusive = {u1}
    Stoppable = {n1}
    RedisMayFail = FALSE
    PingPeriod = 3
    PongWait = 6
    OnlineTTL = 9
    PushTime = 1
    Latency = 1
SPECIFICATION FairTimedSpec
INVARIANTS TimedTypeOK AnsweringPeerStays KeyOutlivesDeadline VisibleWhenExclusive
PROPERTIES SilentPeerIsReaped GhostKeyLapses PresenceSpec
CHECK_DEADLOCK FALSE
