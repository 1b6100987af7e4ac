CONSTANTS
    q1 = q1
    q2 = q2
    n1 = n1
    n2 = n2
    p1 = p1
    p2 = p2
    None = None
    Queries <- MCQueries
    Pids <- MCPids
    PidOf <- OneRequest
    NTasks <- MCNTasks
    Nodes <- MCNodes
    MaxFaults = 0
    MaxDeaths = 0
SPECIFICATION Spec
INVARIANTS
    OnlyOwnParts
CHECK_DEADLOCK FALSE
