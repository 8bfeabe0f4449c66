SPECIFICATION Spec
CONSTANTS
    MaxRestarts = 2
    MaxFactory = 3
    MaxId = 7
INVARIANTS
    RecordsAgree
    RestartBudget
    OneGeneration
PROPERTIES
    OnlyReportedLetGo
CHECK_DEADLOCK FALSE
