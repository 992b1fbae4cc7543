SPECIFICATION FairSpec
CONSTANTS
  Half = 5
  Settings <- MCSettings
  MaxTimer = 4
  CodeTimer = 3
  Blink = 1
  Sleep = 1
  Patience = 2
  Period = 4
INVARIANTS
  BitesOnlyHung
  DeadlineIsRight
  RecentIsRight
PROPERTIES
  HangEnds
