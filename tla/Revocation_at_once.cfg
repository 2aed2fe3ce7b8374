SPECIFICATION GuardSpec
CONSTANTS
    Client = {q1, q2}
    KeyTTL = 2
    RuleTTL = 1
    Delay = 1
    Threshold = 1
    Cooldown = 2
    Limit = 1
    MaxMinutes = 4
    MaxArrivals = 3
PROPERTIES RevokedAtOnce
CHECK_DEADLOCK FALSE
