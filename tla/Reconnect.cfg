CONSTANTS
    n1 = n1  h1 = h1
    Node = {n1}
    Handler = {h1}
    At <- MCAt
    MaxRetries = 2
    MaxMsgs = 2
    MaxBreaks = 2
    MaxFaults = 2
    MaxAttempts = 2
    DBMayFail = FALSE
    MayNack = TRUE
SPECIFICATION FairReconnectSpec
INVARIANTS ReconnectTypeOK SteadyState RefusedWereApplied
PROPERTIES RefinesPipeline RecoveryEnds AppliedUnlessCutOff
CHECK_DEADLOCK FALSE
