CONSTANTS
  EngineCodes = {0, 1}
  Absent = Absent
  Calls = {c1, c2}
  Waiters = {w1, w2}
  MaxPolls = 2
SPECIFICATION Spec
INVARIANTS
  FinalVerdictsAreTrue
  CommitOkMeansExecuted
  HandedOverOnce
PROPERTIES
  WaitEndsWithNothingPending
  CallsReturn
  WaitersReturn
CHECK_DEADLOCK FALSE
