SPECIFICATION Spec
CONSTANTS
    a = a
    b = b
    Clients <- MCTabs
    Writers <- MCTabs
    Latecomers <- MCTabs
    Courteous = TRUE
    Parent <- MCOrphans
    MaxTask = 1
    MaxWrites = 1
    MaxRetags = 0
    MaxFaults = 0
    LoseAnswers = FALSE
    MaxCuts = 1
INVARIANTS TabsAgree
CHECK_DEADLOCK FALSE
