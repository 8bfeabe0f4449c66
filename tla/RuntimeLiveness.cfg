SPECIFICATION FairSpec
CONSTANTS
    N = 2
    Client = {c1}
    UserMay = {"handler_panic", "stopped_panic", "do_send"}
    MaxId = 2
    MaxMsg = 2
    MaxShutdown = 1
PROPERTIES
    CallsReturn
    OwnerReturns
