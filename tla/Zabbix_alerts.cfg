SPECIFICATION Spec
CONSTANTS
  Qty = 32
  Problems <- MCProblems
  Triggers <- MCTriggers
  Noise <- MCNoise
CHECK_DEADLOCK FALSE
INVARIANTS
  WayBack
  ReadsDocument
  AlertsRight
