SPECIFICATION Spec
CONSTANTS
  MaxSize = 1
  U16 = 8
  RomLen = 2
  Addr = {a1, a2}
  Pcb = {p1, p2}
  NULL = NULL
  Served <- ServedLong
  PollTicks = 2
  RetryTicks = 1
  Flights = 1
  Tls = FALSE
  PoolSize = 2
  OpenMayFail = FALSE
  SleepTicks = 2
  StateTicks = 3
  Watchdog = TRUE
SYMMETRY Symmetry
CONSTRAINT Defined
INVARIANTS
  TypeOK
  RequestNotLeaked
  InProgressIsDriven
  NoCrossTalk
  ResponseFits
