CONSTANTS
  a = a
  b = b
  t1 = t1
  t2 = t2
  Node = {a, b}
  Peer <- MCPeer
  Transfer = {t1, t2}
  Payer <- OpposedPayer
  Amount <- EqualAmount
  Deposit <- PoorDeposit
  totalLocked <- MCtotalLocked
  Expirable = {t1}
  Registrable = {t1}
  Closers = {a}
  CloseFails = FALSE
  CloseAlone = TRUE
  MayLose = FALSE
  Crashers = {a}
  MaxCrash = 1
SPECIFICATION Spec
CHECK_DEADLOCK FALSE
INVARIANT NonceUnique
INVARIANT NextMessageValid
INVARIANT PartnerSolvent
INVARIANT AckMeansApplied
