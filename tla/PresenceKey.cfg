CONSTANTS
    n1 = n1  n2 = n2  u1 = u1  a1 = a1  a2 = a2  a3 = a3
    Node = {n1, n2}
    User = {u1}
    Client = {a1, a2, a3}
    NoNode = NoNode
    NoClient = NoClient
    Owner <- MCOwner
    Home <- MCHome
    Exclusive = {}
    Stoppable = {}
    RedisMayFail = FALSE
SPECIFICATION PresenceSpec
PROPERTIES ClearsOnlyOwnKey
CHECK_DEADLOCK FALSE
