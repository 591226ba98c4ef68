SPECIFICATION Spec
CONSTANTS
    a = a
    b = b
    Clients <- MCTabs
    Writers <- MCOne
    Latecomers <- MCNone
    Courteous = FALSE
    Parent <- MCOrphans
    MaxTask = 2
    MaxWrites = 1
    MaxRetags = 0
    MaxFaults = 0
    LoseAnswers = FALSE
    MaxCuts = 1
INVARIANTS NoDuplicates
CHECK_DEADLOCK FALSE
