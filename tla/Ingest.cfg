SPECIFICATION IngestSpec
CONSTANTS
    Row = {i1, i2}
    Watcher = {w1}
    Silence = 1
    Grace = 2
    Renotify = 3
    NeverRenotify = 4
    BeatTTL = 4
    MaxTime = 5
    None = None
    Deleted = Deleted
    Client = {q1, q2}
    KeyTTL = 2
    RuleTTL = 1
    Delay = 1
    Threshold = 1
    Cooldown = 2
    Limit = 1
    MaxMinutes = 4
    MaxArrivals = 3
SYMMETRY IngestSymmetry
CONSTRAINT KindBound
INVARIANTS OneAlarmPerOpening
PROPERTIES ImplementsFreshness BlindMeansAlarmed RenotifyPastGrace SeverityMonotone
CHECK_DEADLOCK FALSE
