SPECIFICATION Spec
CONSTANTS
  s1 = s1
  s2 = s2
  Session = {s1, s2}
  NoSession = NoSession
  TailBudget = 3
  Usable = 6
  FreshTurns = 1
  Protect = 0
  MinFreed = 2
  OutputMax = 1
  Growth = 2
  OutputSize = {1, 3}
  MaxCalls = 1
  MaxIds = 7
  EarlyCancel = FALSE
PROPERTY RollBack
INVARIANT WellFormed
INVARIANT Remembered
INVARIANT HandsOver
CHECK_DEADLOCK FALSE
