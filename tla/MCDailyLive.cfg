SPECIFICATION FairSpec
CONSTANTS
    t1 = t1
    NoDate = NoDate
    Tasks <- MCTasks
    Recurring <- MCNone
    MaxAttempts = 2
    Retention = 1
    InitPrefs <- MCMidnight
    PrefChoices <- MCNone
    RollChoices <- MCRolls
    LastDay = 1
    MaxRows = 9
    MaxFaults = 1
INVARIANTS NeverRolledAhead
PROPERTIES CompletedMeansRolled OverdueRolls TrashEmptied
