CONSTANTS
    t1 = t1
    t2 = t2
    NoTask = NoTask
    Tasks <- MCTasks
    NFrags <- MCNFrags
    Jobs = 2
    MaxCrashes = 1
SPECIFICATION Spec
INVARIANTS
    TypeOK
    PartsComplete
    SendNeverBlocks
    NoGatherStarves
PROPERTIES
    TasksSettle
    PoolRecovers
    ImplementsOutcome
CHECK_DEADLOCK FALSE
