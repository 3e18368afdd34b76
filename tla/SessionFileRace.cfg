CONSTANTS
  MaxEntries = 2
  Assistant = {1}
  MaxSessions = 2
  MaxOps = 2
  MaxErrors = 0
  MaxStarts = 0
  Eperm = FALSE
SPECIFICATION Spec
INVARIANT Durable
CHECK_DEADLOCK FALSE
