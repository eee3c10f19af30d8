SPECIFICATION FairSpec

CONSTANTS
    Readers = {r1, r2}
    Interrupts = {i1}
    Closers = {r1}
    TakesRef = TRUE
    MaxPackets = 3

INVARIANT NoStrandedPacket
INVARIANT FifoOnce
INVARIANT RecvHoldsSocket
PROPERTY CloseReleasesBlocked
PROPERTY PacketsLeave

CHECK_DEADLOCK FALSE
