SPECIFICATION Spec
CONSTANTS
  Tests <- QueueTests
  MaxFaults = 1
  IntMax = 4
  MaxCounted = 6
  RingSize = 2
INVARIANT
  ReportAtExit
