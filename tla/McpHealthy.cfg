CONSTANTS
  Servers = {s1, s2}
  Cached = {}
  BurstLimit = 1
  Tries = 1
  LateAnswers = FALSE
  MaxAttempts = 2
  MaxConns = 2
  MaxOps = 2
SPECIFICATION Spec
INVARIANT HealthyKeepTools
CHECK_DEADLOCK FALSE
