SPECIFICATION Spec
CONSTANTS
    Socks = {s1, s2, s3}
    None = None
    H = 2
    PortMin = 8
    PortMax = 12
    Base = 4
    BestUpdate = 2
    Explicit = {8, 9}
    MaxDrift = 0
 
INVARIANT PortsUnique
INVARIANT UsedCounts
CHECK_DEADLOCK FALSE
