SPECIFICATION Spec
CONSTANTS
  Steers = 2
  Follows = 1
  Asides = 1
  Turns = 2
  LeakySteers = 0
  LeakyTurns = 5
  MaxSent <- MCMaxSent
  MaxTurns <- MCMaxTurns
  MaxPaused = 1
  MaxLeaks = 1
INVARIANTS
  LoopInv
  Paired
  NotStranded
  AnsweredAtStop
  BarrenBound
PROPERTY AbortKeepsQueues
