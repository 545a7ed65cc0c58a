SPECIFICATION Spec
CONSTANTS
  Guesses = {1, 3}
  Widths = {1, 3}
  kMaxContentW = 2
  ViewH = 1
  Margin = 1
  MaxLen = 1
  MaxBlocks = 4
  MaxChanges = 4
CHECK_DEADLOCK FALSE
INVARIANTS NothingStale Stacked
PROPERTY PaintsMeasured
