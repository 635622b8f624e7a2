CONSTANTS
  Depth = 8
  Points = 21
  N = 3
  expiration = 6
  revealTimeout = 2
  httpTimeout = 1
  mineDelay = 1
  confirmDelay = 2
  MaxTime = 10
  Unreliable = {1}
  Closing = {2}
  Payments <- Usual
SPECIFICATION FairSpec
CHECK_DEADLOCK FALSE
INVARIANT SecretIsWorth
INVARIANT FeeIsEarned
PROPERTY EveryLockEnds
