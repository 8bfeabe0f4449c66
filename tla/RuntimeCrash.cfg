SPECIFICATION Spec
CONSTANTS
    N = 2
    Client = {c1}
    UserMay = {"stop", "stopped_panic"}
    MaxId = 1
    MaxMsg = 1
    MaxShutdown = 0
INVARIANTS
    NoWorkerCrash
