SPECIFICATION FairSpec
CONSTANTS
  Tests <- AllTests
  MaxFaults = 2
  IntMax = 4
  MaxCounted = 6
  RingSize = 2
INVARIANTS
  TypeOK
  NothingMissed
  QueueConserved
  CountsAreTrue
  NormalEndIsComplete
  StarvedNeverDone
PROPERTY
  BarrierEnds
