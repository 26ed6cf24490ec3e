CONSTANTS
    n1 = n1  h1 = h1
    Node = {n1}
    Handler = {h1}
    At <- MCAt
    MaxRetries = 2
    MaxMsgs = 1
    MaxBreaks = 2
    MaxFaults = 2
    MaxAttempts = 2
    DBMayFail = FALSE
    MayNack = FALSE
SPECIFICATION ReconnectSpec
INVARIANTS WatcherStopsOnlyOnExit
CHECK_DEADLOCK FALSE
