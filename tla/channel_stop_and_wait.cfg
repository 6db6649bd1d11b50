SPECIFICATION FairSpec
CONSTANTS
  SeqMod = 16
  MaxOutOfOrder = 1
  MaxRetries = 1
  MessageSizes = {1}
  Window = 1
  MaxPackets = 4
  MaxResend = 1
PROPERTY KeepsPromise
CHECK_DEADLOCK FALSE
