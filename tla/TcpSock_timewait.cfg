SPECIFICATION Spec
CHECK_DEADLOCK FALSE
CONSTANTS
    Socks = {s1, s2}
    Peers = {p1}
    NoRoute = {}
    Ports = {1, 2}
    BMin = 1
    BMax = 2
    Backlogs = {1}
    None = None
    Dead = Dead
    SynInWindow = FALSE
    Spurious = FALSE
INVARIANT TimeWaitIsTimed
