CONSTANTS
  p = p
  q = q
  Partner = {p, q}
  Depositor = {q}
  Balance = 3
  Amount = {1, 2}
  MaxUint = 9
  MaxUint256 = 9
  Configs <- UnlimitedOrNeeded
  MaxRetries = 1
  MaxRequests = 3
  Plans <- Asked
SPECIFICATION FairSpec
CHECK_DEADLOCK FALSE
INVARIANT NoOverDeposit
INVARIANT ExactDeposit
PROPERTY EveryDepositEnds
