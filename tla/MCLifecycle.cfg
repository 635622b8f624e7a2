CONSTANTS
  Id = {1}
  confirmationBlocks = 2
  MaxTransfers = 1
  Scenarios <- Usual
SPECIFICATION FairLifecycleSpec
CHECK_DEADLOCK FALSE
INVARIANT ConfirmedIsFinal
INVARIANT ConfirmedIsApplied
INVARIANT SettledOnLatest
PROPERTY EventuallySettled
PROPERTY EventuallyUnlocked
