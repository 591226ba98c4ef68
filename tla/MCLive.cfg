SPECIFICATION LiveSpec
CONSTANTS
    j1 = j1
    j2 = j2
    rollover = rollover
    purge = purge
    NoJob = NoJob
    MaxDelay = 4
    MaxSockets = 4
    MaxBreaks = 2
INVARIANTS PageHolds
PROPERTIES EveryJobSettles StopsEnd PageReconnects
CHECK_DEADLOCK FALSE
