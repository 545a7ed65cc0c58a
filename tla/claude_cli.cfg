SPECIFICATION FairSpec
CONSTANTS
  Payload = 3
  Echo = 2
  PipeSize = 1
  TermAfter = 1
  KillAfter = 2
  DrainAfter = 1
  HasDeadline = TRUE
INVARIANT AllRead
INVARIANT Graceful
PROPERTY RunEnds
PROPERTY NoDeadlock
