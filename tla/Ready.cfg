CONSTANTS
  Callers = {c1, c2}
  Networks = {net1, net2}
  Unbound = Unbound
  None = None
  MaxAttempts = 4
SPECIFICATION ReadySpec
INVARIANTS
  SingleFlight
  SingleInstantiation
  ReadyMeansBound
PROPERTIES
  FailureIsForgotten
  ReadyReturns
CHECK_DEADLOCK FALSE
