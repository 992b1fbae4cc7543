SPECIFICATION Spec
CONSTANTS
  Problems <- MCProblems
  Triggers <- MCTriggers
  Messages = {0, 1, 2}
  MaxRows = 3
  Held = {3, 6}
INVARIANTS
  ListRight
  MostUrgentShown
  ClearMeansNone
  OnlyErrorsThrow
