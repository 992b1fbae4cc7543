SPECIFICATION FairSpec
CONSTANTS
  MaxSize = 2
  U16 = 8
  RomLen = 2
  Addr = {a1}
  Pcb = {p1}
  NULL = NULL
  Served <- ServedShort
  PollTicks = 2
  RetryTicks = 1
  Flights = 1
  Tls = FALSE
  PoolSize = 2
  OpenMayFail = FALSE
  SleepTicks = 2
  StateTicks = 3
  Watchdog = TRUE
PROPERTIES
  LoopLives
  RequestEnds
