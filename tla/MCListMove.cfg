SPECIFICATION PartsSpec
CONSTANTS
    None = None
    Habits <- MCHabits
    FirstDay <- MCFirstDay
    LastDay <- MCLastDay
    Horizon = 2
    MaxSeries = 2
    MaxTasks = 4
    MaxSteps = 5
    Calls = 4
    Requests = {1, 2}
    Sockets = {1}
    Migrations = 2
    Rpm = 2
    Refill = 2
    MaxTime = 4
    MaxAllowed = 5
    Parts = {"storage"}
INVARIANTS UpdateIsKept
CHECK_DEADLOCK FALSE
