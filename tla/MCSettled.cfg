CONSTANTS
  a = a
  b = b
  t1 = t1
  t2 = t2
  Node = {a, b}
  Peer <- MCPeer
  Transfer = {t1}
  Payer <- OnePayer
  Amount <- OneAmount
  Deposit <- RichDeposit
  totalLocked <- MCtotalLocked
  Expirable = {t1}
  Registrable = {}
  Closers = {}
  CloseFails = FALSE
  CloseAlone = FALSE
  MayLose = TRUE
  Crashers = {a, b}
  MaxCrash = 1
SPECIFICATION FairSpec
CHECK_DEADLOCK FALSE
PROPERTY EventuallySettled
