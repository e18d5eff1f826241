SPECIFICATION Spec
CONSTANTS
  MaxEvents = 3
  MaxFaults = 3
  WebSocketDefined = TRUE
INVARIANTS
  OneAttempt
  StreamIsAlive
PROPERTIES
  SilentAfterUnsubscribe
  CatchesUp
  ImplementsFeed
