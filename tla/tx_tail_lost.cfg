SPECIFICATION FairSpec
CONSTANTS
  RingSize = 2
  MessageCount = 3
  BatchSize = 2
  MayTimeOut = FALSE
  FaultyCalls <- NoFaults
  MaxFaults = 0
  CloseOrder <- QueueSenderClose
PROPERTY
  EventuallyPublished
