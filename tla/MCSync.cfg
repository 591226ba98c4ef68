SPECIFICATION SyncSpec
CONSTANTS
    a = a
    b = b
    Clients <- MCTabs
    Writers <- MCOne
    Latecomers <- MCOne
    Courteous = FALSE
    Parent <- MCFamily
    MaxTask = 2
    MaxWrites = 2
    MaxRetags = 0
    MaxFaults = 1
    LoseAnswers = TRUE
    MaxCuts = 1
    MaxHistory = 1
    MaxDeletes = 2
    MaxLost = 1
    Remapped = {"openTrash"}
    Sections <- MCSections
    MaxAsked = 2
INVARIANTS HistorySound SyncTypeOK WatchersAgree RowsOnce EditorsAgree
PROPERTIES KeysSettled
CHECK_DEADLOCK FALSE
