SPECIFICATION Spec
CONSTANTS
    Worker = {w1}
    Request = {r1}
    Event = {e1, e2}
    Incident = {i1}
    Fingerprint = {f1}
    EventSeverity <- OneSeverity
    RequestKind = {}
    Deployed = {"ai"}
    Connections = 8
    None = None
PROPERTY RecurrenceRevives
CHECK_DEADLOCK FALSE
