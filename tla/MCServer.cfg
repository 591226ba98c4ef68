SPECIFICATION PartsSpec
CONSTANTS
    None = None
    Habits <- MCHabits
    FirstDay <- MCFirstDay
    LastDay <- MCLastDay
    Horizon = 2
    MaxSeries = 2
    MaxTasks = 4
    MaxSteps = 5
    Calls = 4
    Requests = {1, 2}
    Sockets = {1}
    Migrations = 2
    Rpm = 2
    Refill = 2
    MaxTime = 4
    MaxAllowed = 5
    Parts = {"storage", "snapshots", "series", "server", "schedule", "formats"}
INVARIANTS TypesOK AdaptersAgree TreesKept InstancesFollow
    FormatsKept ServesAndDrains RateIsBounded SchedulesAreGrids
PROPERTIES RestoreSafe
CHECK_DEADLOCK FALSE
