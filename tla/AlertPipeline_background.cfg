SPECIFICATION FairSpec
CONSTANTS
    Worker = {w1, w2}
    Request = {r1, r2}
    Event = {e1, e2}
    Incident = {i1, i2}
    Fingerprint = {f1}
    EventSeverity <- OneSeverity
    RequestKind <- Deciders
    Deployed = {"soar", "retention"}
    Connections = 3
    None = None
INVARIANTS LinkIntegrity CountTracksLinks
PROPERTIES ResolvedIsFinal ImplementsRegistry EveryEventSettles
CHECK_DEADLOCK FALSE
