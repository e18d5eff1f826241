CONSTANTS
  Threads = {t1, t2, t3}
  NoThread = NoThread
  MaxClock = 3
  MaxCalls = 3
  ClockMayStepBack = TRUE
  MaxRestarts = 1
SYMMETRY Symmetry
SPECIFICATION RestartSpec
INVARIANTS
  LeadIsTheBurst
  RepeatsNeedABurst
PROPERTY
  EachRunImplementsService
CHECK_DEADLOCK FALSE
