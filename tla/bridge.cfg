SPECIFICATION ObligingSpec
CONSTANTS
    a = a
    b = b
    f = f
    Clients = {a, b}
    Folders = {f}
    MaxLines = 2
    MaxRuns = 2
    MaxIdle = 1
    Room = 1
INVARIANTS Answers NoStrays
PROPERTIES GuiReturns
CHECK_DEADLOCK FALSE
