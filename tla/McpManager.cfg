CONSTANTS
  Servers = {s1}
  Cached = {s1}
  BurstLimit = 2
  Tries = 2
  LateAnswers = TRUE
  MaxAttempts = 4
  MaxConns = 3
  MaxOps = 3
SPECIFICATION FairSpec
INVARIANTS  StormBound OneAttempt NoZombie
PROPERTY LostReplaced
CHECK_DEADLOCK FALSE
