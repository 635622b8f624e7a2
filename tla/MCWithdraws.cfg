CONSTANTS
  a = a
  b = b
  t1 = t1
  t2 = t2
  w1 = w1
  Node = {a, b}
  Peer <- MCPeer
  Transfer = {t1, t2}
  Payer <- MCPayer
  Amount <- MCAmount
  Deposit <- MCDeposit
  totalLocked <- MCtotalLocked
  Withdraw = {w1}
  Requester <- MCRequester
  Total <- MCTotal
  MaxClosers = 1
  MaxCrash <- MCMaxCrash
SPECIFICATION Spec
CHECK_DEADLOCK FALSE
INVARIANT NonceUnique
INVARIANT WithdrawsCovered
INVARIANT PendingIsSent
