SPECIFICATION Spec
CONSTANTS
  MaxSize = 2
  U16 = 8
  RomLen = 2
  Addr = {a1, a2}
  Pcb = {p1, p2}
  NULL = NULL
  Served <- ServedShort
  PollTicks = 2
  RetryTicks = 1
  Flights = 2
  Tls = TRUE
  PoolSize = 2
  OpenMayFail = TRUE
  SleepTicks = 2
  StateTicks = 3
  Watchdog = TRUE
SYMMETRY Symmetry
CONSTRAINT Defined
INVARIANTS
  IInv
  FreshDeadline
PROPERTIES
  FreedWhenEnded
  LivesForward
