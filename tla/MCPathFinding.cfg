CONSTANTS
  Service = {"p", "r", "z"}
  price <- Prices
  maxFee = 4
  Node = {"us", "m", "o", "x", "t"}
  mediates = {"m", "o"}
  Scenarios <- All
  MaxWaiting = 2
  margin = 10
  amountMargin = 5
  maxPaths = 4
  MaxTrouble = 2
SPECIFICATION FairPayments
CHECK_DEADLOCK FALSE
INVARIANT PaidOncePerRequest
INVARIANT RefusedForAReason
PROPERTY EverySearchEnds
INVARIANT AskedOncePerVisit
