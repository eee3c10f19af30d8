SPECIFICATION Spec
CONSTANTS
    Pkbs = {1, 2, 3}
    Arrivals <- MCAllFrames
    Sends <- MCLocalSends
    HeaderSize = 1
    Length = 2
INVARIANTS RefsMatchOwners QueuedIsQuiet ByteOrder RepliesEnd
CHECK_DEADLOCK FALSE
