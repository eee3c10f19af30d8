SPECIFICATION FairSpec
CONSTANTS
    Width = 1
    MaxRoutes = 3
    Dests = {1}
    Readers = {"rx", "worker"}
    Loopback <- MCLoopback
    Targets <- MCTargets
    Devices <- MCDevices
INVARIANTS LookupBest CommandAlone
 
CHECK_DEADLOCK FALSE
