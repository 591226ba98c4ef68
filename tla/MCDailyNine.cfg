SPECIFICATION Spec
CONSTANTS
    t1 = t1
    NoDate = NoDate
    Tasks <- MCNone
    Recurring <- MCNone
    MaxAttempts = 2
    Retention = 1
    InitPrefs <- MCNine
    PrefChoices <- MCNone
    RollChoices <- MCRolls
    LastDay = 1
    MaxRows = 9
    MaxFaults = 0
INVARIANTS RolloverQueued
