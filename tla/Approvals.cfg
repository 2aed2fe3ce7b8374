SPECIFICATION ApprovalSpec
CONSTANTS
    Last = 3
    Gated <- ContainTwice
    Caller = {c1, c2, c3, c4}
    Concurrent = 2
    Response = {a1}
    Runbook = {b1}
    Operator = {o1, o2, o3}
    None = None
INVARIANTS TypeOK EarlierStepsTaken CompletedMeansDone QueueTypeOK
PROPERTIES ImplementsTickets RunSettles QueueImplementsGate ExecutedWhilePending EveryCallReturns
CHECK_DEADLOCK FALSE
