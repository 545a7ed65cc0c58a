SPECIFICATION FairSpec
CONSTANTS
  Timeout = 2
  Grace = 2
  PipeSize = 2
  MaxWrites = 2
INVARIANTS GroupGone OutputRead
PROPERTIES Signals Returns
CHECK_DEADLOCK FALSE
