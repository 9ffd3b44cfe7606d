SPECIFICATION BothSpec
CONSTANTS
  Uses <- EveryUse
  SgrCap = 2
  Kinds = {"letter", "blank", "wide", "color"}
  MaxLen = 6
  Widths = {2, 4, 5}
  MaxStarts = 3
INVARIANTS
  WindowConsistent
  RowsShowLine
  HighlightedIsCopied
  FindsRows
PROPERTIES
  AppendKeepsPlace
  MotionShowsCursor
  Returns
CHECK_DEADLOCK FALSE
