SPECIFICATION ConsoleSpec
CONSTANTS
    User = {u1}
    Tenant = {t1, t2}
    InitialAdmin = {u1}
    SMTP = TRUE
    TokenTTL = 1
    Delay = 1
    MaxTime = 4
    None = None
    Gone = Gone
    Client = {c1, c2}
    Cap = 1
    MaxMessages = 2
INVARIANTS NoPanic
PROPERTIES RevocationReaches NoZombie
CHECK_DEADLOCK FALSE
