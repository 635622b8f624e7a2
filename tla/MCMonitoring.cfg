CONSTANTS
  Start = 4
  confirmationBlocks = 1
  withdrawTimeout = 2
  Claim = {1}
  MaxDeposits = 3
  monitoringReward = 4
  Scenarios <- Usual
SPECIFICATION MonitoringSpec
CHECK_DEADLOCK FALSE
INVARIANT SuccessIsDeposited
PROPERTY PlanIsWithdrawn
PROPERTY AskedInOrder
PROPERTY ServicesKnow
