SPECIFICATION Spec
CONSTANTS
  SeqMod = 6
  MaxOutOfOrder = 2
  MaxRetries = 0
  MessageSizes = {1, 3}
  Window = 3
  MaxPackets = 8
  MaxResend = 1
INVARIANTS
  ConsumedInOrder
  QueueAhead
  RetainedBeforeWrap
PROPERTY
  KeepsOrder
CHECK_DEADLOCK FALSE
