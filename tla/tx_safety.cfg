SPECIFICATION Spec
CONSTANTS
  RingSize = 2
  MessageCount = 5
  BatchSize = 2
  MayTimeOut = TRUE
  FaultyCalls <- AllFaults
  MaxFaults = 3
  CloseOrder <- TopicPublisherClose
INVARIANTS
  TypeOK
  NoStaleEvent
  NoGap
  CountedIsCommitted
  LossBounded
  ExactlyOnce
PROPERTIES
  WholeBatches
  NoOverwrite
  ImplementsLog
  ImplementsBatchPublish
