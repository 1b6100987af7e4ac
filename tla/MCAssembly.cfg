CONSTANTS
    Jobs <- MCJobs
    AttrOrder <- MCAttrOrder
    Blank = Blank
    Pad = Pad
SPECIFICATION Spec
INVARIANTS
    TypeOK
    SlicesAssemble
    CurtainsAssemble
    PlannedOrRefused
    FetchesAreExact
    CopiesInBounds
CHECK_DEADLOCK FALSE
