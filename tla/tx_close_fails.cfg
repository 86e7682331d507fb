SPECIFICATION FairSpec
CONSTANTS
  RingSize = 2
  MessageCount = 3
  BatchSize = 2
  MayTimeOut = FALSE
  FaultyCalls <- CloseFaults
  MaxFaults = 1
  CloseOrder <- QueueSenderClose
PROPERTY
  DisruptorStops
