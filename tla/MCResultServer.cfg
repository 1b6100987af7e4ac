CONSTANTS
    g1 = g1
    s1 = s1
    Gets <- MCGets
    Streams <- MCStreams
    Never = Never
    Ntasks = 2
    TilesCap = 1
    TokenTTL = 2
    HeaderTTL = 4
    StreamTTL = 4
    MaxTime = 6
    MaxFaults = 1
SPECIFICATION Spec
INVARIANTS
    TypeOK
    ResponsesDecode
    StreamOutlivesHeader
PROPERTIES
    FinishedIsServed
    StatusAdvances
    StreamEnds
CHECK_DEADLOCK FALSE
