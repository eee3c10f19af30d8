SPECIFICATION FairSpec
CONSTANTS
    Hosts = {a, b}
    None = None
    Size = 2
    Timeout = 2
    Retry = 1
    Packets = {p1, p2}
    Senders = {t1}
    MaxOverlaps = 1
INVARIANTS  SentToNextHop WaitsForItsHop
PROPERTY WaitEnds
CHECK_DEADLOCK FALSE
