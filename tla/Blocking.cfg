SPECIFICATION FairSpec
CONSTANTS
    N = 2
    Actor = {1, 2, 3}
    Client = {c1, c2}
INVARIANTS
    EveryWaitIsOwed
PROPERTIES
    StuckForever
    CallsReturn
    ShutdownHeard
CHECK_DEADLOCK FALSE
