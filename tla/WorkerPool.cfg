SPECIFICATION FairSpec
CONSTANTS
  d1 = d1
  d2 = d2
  d3 = d3
  k1 = k1
  k2 = k2
  None = None
  Deliveries = {d1, d2}
  Keys = {k1, k2}
  KeyOf <- MCKeyOf
  Slots = {1}
  MaxRetries = 1
  AttemptCap = 3
  MaxOps = 1
  MaxRestarts = 1
  ClaimCanFail = TRUE
  CanCrash = TRUE
INVARIANTS
  OneRunPerIssue
  RetryBound
  
PROPERTIES
  QueuedRuns
  KilledNotBlamed
  CancelLands
CHECK_DEADLOCK FALSE
