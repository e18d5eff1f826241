SPECIFICATION Spec
CONSTANTS
  MaxEvents = 3
  MaxConnects = 3
  MaxAttempts = 1
INVARIANTS
  AtMostOneLate
  LeakNeedsTheRace
PROPERTIES
  CloseEndsTheLoop
  ImplementsFeed
CHECK_DEADLOCK FALSE
