CONSTANTS
    q1 = q1
    q2 = q2
    n1 = n1
    n2 = n2
    p1 = p1
    p2 = p2
    None = None
    Queries <- MCQueries
    Pids <- MCPids
    PidOf <- TwoRequests
    NTasks <- MCNTasks
    Nodes <- MCNodes
    MaxFaults = 1
    MaxDeaths = 1
SPECIFICATION Spec
INVARIANTS
    TypeOK
    OnlyOwnParts
PROPERTIES
    OutcomeSafety
    PromisesKept
    QueueDrains
CHECK_DEADLOCK FALSE
