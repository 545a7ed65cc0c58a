SPECIFICATION Spec
CONSTANTS
  MaxText = 7
INVARIANT Prompt
INVARIANT Complete
CHECK_DEADLOCK FALSE
