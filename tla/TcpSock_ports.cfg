SPECIFICATION FairSpec
CHECK_DEADLOCK FALSE
CONSTANTS
    Socks = {s1, s2}
    Peers = {p1, p2}
    NoRoute = {p2}
    Ports = {1, 2}
    BMin = 1
    BMax = 1
    Backlogs = {0, 1}
    None = None
    Dead = Dead
    SynInWindow = TRUE
    Spurious = TRUE
INVARIANTS PortsAccounted PortLoopEnds
PROPERTY CloseEndsCall
