\* Two jobs, two waiting `job` calls, one failing delivery.
CONSTANTS
    N = 2
    P = 2
    MaxWaits = 1
    MaxFails = 1
    None = None
SPECIFICATION FairSpec
CHECK_DEADLOCK FALSE
INVARIANTS JobInv ResultKept
PROPERTIES NoEcho ReachesSession
