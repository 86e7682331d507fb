SPECIFICATION Spec
CONSTANTS
  Gauges = 2
  MaxCount = 3
  Batch <- SinglesAndBatches
INVARIANTS
  TypeOK
  Conserved
  NeverOverReported
  CompleteReport
