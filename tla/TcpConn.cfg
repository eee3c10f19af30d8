SPECIFICATION FairSpec
CONSTANTS
    HeadSum = 0
    Window = 2
    Mss = 1
    Lens = {1, 2}
    Plans <- AllPlans
INVARIANTS StreamPrefix AckedWasReceived StatesAgree NoFalseReset
PROPERTIES  CloseEnds
CHECK_DEADLOCK FALSE
