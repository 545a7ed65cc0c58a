SPECIFICATION Spec
CONSTANTS
  p1 = p1 t1 = t1 t2 = t2
  Procs = {p1}
  Threads = {t1, t2}
  Owner <- OneWindow
  FirstOfDir = {t1}
  None = None
  MaxLen <- MCMaxLen
  MaxSaves <- MCMaxSaves
  MaxFailures = 1
  MaxCrashes = 1
  MaxStarts = 3
  MaxReindex = 1
INVARIANTS SearchBehindFile Listed
PROPERTIES KeepsPromise QuitKeeps
CHECK_DEADLOCK FALSE
