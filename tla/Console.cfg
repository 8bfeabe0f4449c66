SPECIFICATION FairSpec
CONSTANTS
    MaxLines = 6
    MaxWorkers = 2
    MaxAttempts = 2
INVARIANTS
    TwoPolls
    NothingLostAtExit
    StopOnlyUnregisters
PROPERTIES
    KeepsContract
    LinesAnswered
