SPECIFICATION FairSpec
CONSTANTS
    Client = {c1, c2}
    MaxId = 2
    MaxMsg = 3
    UserPanics = TRUE
INVARIANTS
    RunEndsOnlyUnreachable
    RunLeavesNothing
    StoppedIsFinal
PROPERTIES
    OwnerReturns
    SendsReturn
    KeepsContract
