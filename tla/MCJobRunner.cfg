SPECIFICATION Spec
CONSTANTS
    j1 = j1
    j2 = j2
    rollover = rollover
    purge = purge
    NoJob = NoJob
    JobIds <- MCJobIds
    Types <- MCTypes
    JobType <- MCJobType
    HandledTypes <- MCTypes
    MaxAttempts = 2
    RetryBase = 1
    MaxTime = 1
    MaxFaults = 2
INVARIANTS TypeOK SingleWorker SnapshotAgrees AttemptBudget AttemptAccounting
PROPERTIES SettledIsFinal NoEarlyStart StopDrains ImplementsLifecycle
