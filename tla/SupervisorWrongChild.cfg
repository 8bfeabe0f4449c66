SPECIFICATION Spec
CONSTANTS
    MaxRestarts = 1
    MaxFactory = 3
    MaxId = 8
INVARIANTS
    OneForOneRestartsTheFailed
CHECK_DEADLOCK FALSE
