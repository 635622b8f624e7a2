CONSTANTS
  Id = {1, 2}
  maxRetries = 1
  Starts <- Usual
SPECIFICATION FairSpec
CHECK_DEADLOCK FALSE
INVARIANT OneChannel
PROPERTY ConnectionKept
PROPERTY CallsEnd
PROPERTY Agreement
