SPECIFICATION Spec
CONSTANTS
  f1 = f1
  f2 = f2
  Root = {f1}
  Deep = {f2}
  None = None
  MaxDialogs = 2
INVARIANTS Noticed OnePrompt
PROPERTIES EditsKept
CHECK_DEADLOCK FALSE
