SPECIFICATION PipelineSpec
CONSTANTS
  Null = Null
  NaN = NaN
  Junk = Junk
  Unset = Unset
  Lines <- MCLines
  MaxLines = 3
  Windows <- MCWindows
  Users <- MCUsers
INVARIANTS
  RollsAgree
  WindowFramed
  LineFollowsSamples
  BandUnderMouse
  FillKeepsShape
  AxisReadable
CHECK_DEADLOCK FALSE
