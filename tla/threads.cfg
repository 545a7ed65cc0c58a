SPECIFICATION FairSpec
CONSTANTS
  a = a
  c = c
  Top = {a}
  Sub = {c}
  NoThread = NoThread
  MaxQueue = 1
  MaxTurns = 2
  MaxRounds = 1
  SubRounds = 0
  MaxLines = 1
  UserMay = {"cancel", "close", "late"}
  EditorPrompt = FALSE
CHECK_DEADLOCK FALSE
INVARIANTS TypeOK NeverStuck Nested CancelReachesSubagents IdleQueue
PROPERTIES BatchComplete Settles
