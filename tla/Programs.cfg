SPECIFICATION FairSpec
CONSTANTS
    Actor = {1, 2, 3}
    State = {"a", "b", "c", "plain", "Ping", "Pong", "Receive", "Validate", "Process", "Archive", "Execute", "Report"}
    Msg = {0, 1, 2, 3, 4, 5, 6, 7, 8}
    AnyState = {"a", "b", "c"}
    MaxStates = 3
    MaxMessages = 7
INVARIANTS
    CyclesInOrder
    DoneMeansAll
    PanicsExplained
    IdleRecordsAllSent
PROPERTIES
    ProgramsEnd
