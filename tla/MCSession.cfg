CONSTANTS
    r1 = r1
    r2 = r2
    r3 = r3
    a = a
    b = b
    c = c
    d = d
    s1 = s1
    s2 = s2
    None = None
    Requests <- MCRequests
    Cubes <- MCCubes
    Asks <- MCAsks
    Broken = {d}
    Sessions = {s1, s2}
SPECIFICATION Spec
INVARIANTS
    TypeOK
    AnswersAreOwn
    RacesStayInRequest
CHECK_DEADLOCK FALSE
