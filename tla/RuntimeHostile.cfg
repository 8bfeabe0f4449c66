SPECIFICATION Spec
CONSTANTS
    N = 2
    Client = {c1}
    UserMay = {"stop", "handler_panic", "handler_spawn", "notify", "started_spawn", "started_panic", "stopped_spawn", "stopped_panic", "drop_addr"}
    MaxId = 2
    MaxMsg = 2
    MaxShutdown = 1
INVARIANTS
    EnvelopeInOnePlace
    AddressedAreRegistered
    CellInOnePlace
    WorkersLast
PROPERTIES
    OnlyNewbornLeftBehind
    KeepsContract
