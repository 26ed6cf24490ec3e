CONSTANTS
    n1 = n1  n2 = n2  s = s  r = r  s1 = s1  r1 = r1  r2 = r2
    Node = {n1, n2}
    User = {s, r}
    Client = {s1, r1, r2}
    NoNode = NoNode
    NoClient = NoClient
    Owner <- MCOwner
    Home <- MCHome
    Exclusive = {s, r}
    Stoppable = {}
    RedisMayFail = FALSE
    Talk <- MCOneWay
    MaxMsgs = 2
    Capacity = 1
    MySQLMayFail = FALSE
    PubSubMayLose = FALSE
SPECIFICATION FairDeliverySpec
INVARIANTS NoGap NoUnreadSkipped
PROPERTIES KeepsPromise StoredIsDelivered NextSessionBrings
CHECK_DEADLOCK FALSE
