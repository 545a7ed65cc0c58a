SPECIFICATION Spec
CONSTANTS
    f = f
    g = g
    Folders = {f, g}
    Home = f
    Away = g
    Large = {2}
    Briefed = {g}
    Writes = {1}
    MaxThreads = 3
    MaxSends = 1
    MaxQueue = 1
    MaxDialogs = 1
    OpensInDialog = FALSE
INVARIANTS Attention BriefReachesNew
PROPERTIES TextsKept

