CONSTANTS
    n1 = n1  n2 = n2  h1 = h1  h2 = h2
    Node = {n1, n2}
    Handler = {h1, h2}
    At <- MCAt
    MaxRetries = 2
    MaxMsgs = 2
    MaxBreaks = 1
    DBMayFail = TRUE
    MayNack = TRUE
SPECIFICATION ConvSpec
INVARIANTS ConvTypeOK NothingForgotten
CHECK_DEADLOCK FALSE
