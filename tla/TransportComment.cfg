CONSTANTS
  EngineCodes = {0, 1}
  Absent = Absent
  Calls = {c1}
  Waiters = {w1}
  MaxPolls = 2
SPECIFICATION Spec
INVARIANT
  TransportNeverReachedTheChain
CHECK_DEADLOCK FALSE
