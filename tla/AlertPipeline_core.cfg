SPECIFICATION Spec
CONSTANTS
    Worker = {w1, w2}
    Request = {r1}
    Event = {e1, e2, e3}
    Incident = {i1, i2, i3}
    Fingerprint = {f1}
    EventSeverity <- TwoSeverities
    RequestKind <- Operators
    Deployed = {"ai"}
    Connections = 3
    None = None
SYMMETRY Symmetry
INVARIANTS TypeOK UniqueOpen CountTracksLinks
PROPERTIES ResolvedNeverAbsorbs
CHECK_DEADLOCK FALSE
