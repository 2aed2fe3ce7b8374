SPECIFICATION MCSpec
CONSTANTS
    Check = {c1, c2}
    Width = 2
    MaxOctets = 1
    None = None
    Host = {h1, h2}
    Token = {k1}
    Request = {r1, r2, r3}
INVARIANTS OneAgentPerToken
PROPERTIES TopologyHonest BreachReported
CHECK_DEADLOCK FALSE
