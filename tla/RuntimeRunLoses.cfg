SPECIFICATION Spec
CONSTANTS
    N = 1
    Client = {c1}
    UserMay = {"do_send"}
    MaxId = 1
    MaxMsg = 1
    MaxShutdown = 0
INVARIANTS
    RunHandlesAccepted
