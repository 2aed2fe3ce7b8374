SPECIFICATION FairSpec
CONSTANTS
    m1 = m1
    m2 = m2
    Message = {m1, m2}
    Engine = {e1, e2}
    Replay = {r1, r2}
    MaxDLQSize = 1
    MaxDLQRetries = 3
    ReplayLimit = 2
    None = None
    Yield <- MCYield
INVARIANTS NeverTwice AccountedFor 
PROPERTIES EventuallySettled
CHECK_DEADLOCK FALSE
