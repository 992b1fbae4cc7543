SPECIFICATION Spec
CONSTANTS
  MaxSize = 4
  U16 = 8
  RomLen = 6
  Served <- ServedLengths
CHECK_DEADLOCK FALSE
INVARIANTS
  NothingLost
  CompleteIsWhole
  UncutIsRead
