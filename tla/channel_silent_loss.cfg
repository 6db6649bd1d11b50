SPECIFICATION FairSpec
CONSTANTS
  SeqMod = 16
  MaxOutOfOrder = 2
  MaxRetries = 1
  MessageSizes = {1}
  Window = 2
  MaxPackets = 2
  MaxResend = 0
PROPERTY NoSilentLoss
CHECK_DEADLOCK FALSE
