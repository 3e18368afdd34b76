\* One job in the background, no waiting tool call.
CONSTANTS
    N = 1
    P = 0
    MaxWaits = 0
    MaxFails = 0
    None = None
SPECIFICATION DFairSpec
CHECK_DEADLOCK FALSE
PROPERTY ResultsDelivered
