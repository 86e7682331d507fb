SPECIFICATION TouchSpec
CONSTANTS
  Null = Null
  NaN = NaN
  Junk = Junk
  Fraction = Fraction
  f1 = f1
  f2 = f2
  Files = {f1, f2}
  Content <- MCContent
  Positions <- MCPositions
  Rolls = {2}
  MaxCharts = 2
  MinWidth = 32
  MinHeight = 600
  MaxShift = 32
  MaxRise = 900
  MaxWidth = 128
  MaxMoves = 3
INVARIANTS
  TypeOK
  DrawnIsCurrent
  HighlightIsCurrent
  NoOrphanDrag
PROPERTIES
  ZoomNarrows
  DragKeepsSize
  ZoomsOut
