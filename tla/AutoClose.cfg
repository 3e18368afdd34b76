SPECIFICATION Spec
CONSTANTS
  Issues = {i1, i2}
  None = None
  MaxAnswers = 2
  MaxFaults = 1
  MaxStops = 1
  CallsRaise = TRUE
SYMMETRY IssueSymmetry
INVARIANTS
  ClosedIsClosed
  CloseInv
 
