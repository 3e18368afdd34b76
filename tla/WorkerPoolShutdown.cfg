SPECIFICATION FairSpec
CONSTANTS
  d1 = d1
  d2 = d2
  d3 = d3
  k1 = k1
  k2 = k2
  None = None
  Deliveries = {d1, d3}
  Keys = {k1, k2}
  KeyOf <- MCKeyOf
  Slots = {1, 2}
  MaxRetries = 1
  AttemptCap = 3
  MaxOps = 0
  MaxRestarts = 1
  ClaimCanFail = TRUE
  CanCrash = TRUE
PROPERTIES
  InterruptedResolves
  
CHECK_DEADLOCK FALSE
