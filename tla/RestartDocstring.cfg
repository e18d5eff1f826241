CONSTANTS
  Threads = {t1, t2}
  NoThread = NoThread
  MaxClock = 4
  MaxCalls = 3
  ClockMayStepBack = FALSE
  MaxRestarts = 2
SYMMETRY Symmetry
SPECIFICATION RestartSpec
INVARIANTS
  FirstNonceIsAheadOfEarlier
CHECK_DEADLOCK FALSE
