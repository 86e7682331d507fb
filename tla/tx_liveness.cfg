SPECIFICATION FairSpec
CONSTANTS
  RingSize = 2
  MessageCount = 4
  BatchSize = 2
  MayTimeOut = FALSE
  FaultyCalls <- LossyFaults
  MaxFaults = 2
  CloseOrder <- QueueSenderClose
PROPERTIES
  PublisherEnds
  DisruptorStops
  LessThanBatchLeft
