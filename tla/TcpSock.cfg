SPECIFICATION Spec
CHECK_DEADLOCK FALSE
CONSTANTS
    Socks = {s1, s2, s3}
    Peers = {p1, p2}
    NoRoute = {}
    Ports = {1}
    BMin = 1
    BMax = 1
    Backlogs = {1}
    None = None
    Dead = Dead
    SynInWindow = FALSE
    Spurious = FALSE
SYMMETRY Symmetry
INVARIANTS   QueuesMatchParents UniqueConnections
