SPECIFICATION FairSpec
CONSTANTS
    Capacity = 9
    Header = 2
    Writers = {w1, w2}
    Lens = {1, 2, 3}
    BufLen = 3
    MaxPackets = 5
    Together = FALSE
    None = None
INVARIANT UnreadIntact
PROPERTIES ImplementsFifo AllDelivered
CHECK_DEADLOCK FALSE
