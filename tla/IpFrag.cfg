SPECIFICATION FairSpec
CONSTANTS
    Size <- TwoDatagrams
    Mtu = 9
    PathMtu = 2
    MaxSize = 9
    Threads = {t1, t2}
    FragTime = 2
    MaxFrags = 2
 
PROPERTY FragsLeave
CHECK_DEADLOCK FALSE
