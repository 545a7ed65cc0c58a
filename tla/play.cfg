SPECIFICATION Spec
CONSTANTS
  a = a
  c = c
  Top = {a}
  Sub = {c}
  NoThread = NoThread
  MaxQueue = 0
  MaxTurns = 3
  MaxRounds = 0
  SubRounds = 0
  MaxLines = 1
  UserMay = {"play"}
  EditorPrompt = FALSE
INVARIANT OneJob
CHECK_DEADLOCK FALSE
