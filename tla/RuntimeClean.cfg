SPECIFICATION Spec
CONSTANTS
    N = 1
    Client = {c1, c2}
    UserMay = {"stop", "handler_panic", "handler_spawn", "notify", "do_send"}
    MaxId = 2
    MaxMsg = 3
    MaxShutdown = 1
INVARIANTS
    StoppedAtExit
    SpawnPanicsOnlyOnShutdown
PROPERTIES
    KeepsContract
