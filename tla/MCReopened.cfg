CONSTANTS
  a = a
  b = b
  t1 = t1
  t2 = t2
  Node = {a, b}
  Peer <- MCPeer
  Transfer = {t1}
  Payer <- OnePayer
  Amount <- OneAmount
  Deposit <- RichDeposit
  totalLocked <- MCtotalLocked
  Expirable = {t1}
  Registrable = {}
  Closers = {a, b}
  CloseFails = TRUE
  CloseAlone = FALSE
  MayLose = FALSE
  Crashers = {a, b}
  MaxCrash = 1
SPECIFICATION Spec
CHECK_DEADLOCK FALSE
INVARIANT UnackedIsRetried
PROPERTY Settles
