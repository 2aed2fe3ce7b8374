SPECIFICATION Spec
CONSTANTS
    Last = 3
    Gated <- ContainTwice
    Caller = {c1, c2, c3, c4}
    Concurrent = 2
PROPERTY FiredWhileAwaiting
CHECK_DEADLOCK FALSE
