SPECIFICATION SigningSpec
CONSTANTS
  Cap = 1
  MaxClock = 3
  MaxCalls = 3
  Calls = {c1, c2, c3}
  Keys = {k1, k2}
  BadKey = bad
  NoKey = null
INVARIANTS
  PostedInNonceOrder
  ShortBurstsIncrease
  MismatchNeedsASwap
