SPECIFICATION FairSpec
CONSTANTS
    N = 4
    EmptyPush = TRUE
    Fins = TRUE
    Resets = TRUE
    HeadSum = 0
    Accepted = FALSE
    Window = 3
    Lens = {1, 3}
    MaxReass = 3
    Cuts = {0, 1, 2, 3, 4}
    Segs <- AllSegs
INVARIANTS StreamInOrder WindowIsRoom
PROPERTY PushReturnsRead
CHECK_DEADLOCK FALSE
