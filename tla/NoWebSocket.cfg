SPECIFICATION Spec
CONSTANTS
  MaxEvents = 3
  MaxFaults = 3
  WebSocketDefined = FALSE
INVARIANT
  StreamIsAlive
CHECK_DEADLOCK FALSE
