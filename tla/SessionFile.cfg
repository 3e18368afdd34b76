CONSTANTS
  MaxEntries = 2
  Assistant = {1}
  MaxSessions = 2
  MaxOps = 3
  MaxErrors = 2
  MaxStarts = 1
  Eperm = TRUE
SPECIFICATION FairSpec
  
PROPERTY ChainDrains
CHECK_DEADLOCK FALSE
