SPECIFICATION Spec
CONSTANTS
    Row = {i1, i2}
    Watcher = {w1}
    Silence = 1
    Grace = 2
    Renotify = 3
    NeverRenotify = 4
    BeatTTL = 4
    MaxTime = 5
    None = None
    Deleted = Deleted
SYMMETRY RowSymmetry
PROPERTIES RenotifyRespected
CHECK_DEADLOCK FALSE
