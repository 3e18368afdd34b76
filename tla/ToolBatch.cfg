SPECIFICATION FairSpec
CONSTANTS
  N = 3
  MaxSteer = 1
  HasPeek = TRUE
INVARIANTS
  BatchSafe
  ExclusiveAlone
  OneResultPerCall
PROPERTIES
  BatchReturns
  NoStartAfterAbort
  ContractSpec
