CONSTANTS
  Peer = {"p", "q"}
  partners = {"p"}
  lightClients = {}
  Scenarios <- Usual
  maxBatchSize = 2
  maxSendRetries = 1
  maxServiceSends = 1
  cacheSize = 2
  Down = {"t"}
  MaxRtc = 1
SPECIFICATION FairTransportSpec
CHECK_DEADLOCK FALSE
INVARIANT OrderKept
INVARIANT SignedIfFresh
PROPERTY EverySendAnswered
