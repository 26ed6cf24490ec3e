CONSTANTS
    n1 = n1  n2 = n2  s = s  r = r  s1 = s1  r1 = r1  r2 = r2
    Node = {n1, n2}
    User = {s, r}
    Client = {s1, r1, r2}
    NoNode = NoNode
    NoClient = NoClient
    Owner <- MCOwner
    Home <- MCHome
    Exclusive = {s, r}
    Stoppable = {}
    RedisMayFail = FALSE
    Talk <- MCBothWays
    MaxMsgs = 2
    Capacity = 2
    MySQLMayFail = FALSE
    PubSubMayLose = FALSE
SPECIFICATION DeliverySpec
INVARIANTS ReconnectRecovers
CHECK_DEADLOCK FALSE
