SPECIFICATION Spec
CONSTANTS
  MessageCount = 3
  MaxLog = 6
CONSTRAINT LogBound
INVARIANT LogHasNoGap
