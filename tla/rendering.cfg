SPECIFICATION Spec
CONSTANTS
  Routes = {"http", "claude"}
  Tokens = {"para", "nl", "fence"}
  MaxTurns = 2
  MaxRounds = 2
  MaxCalls = 2
  MaxPieces = 2
CHECK_DEADLOCK FALSE
INVARIANTS AsRecorded LiveBlock
