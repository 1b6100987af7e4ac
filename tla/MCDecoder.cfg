CONSTANTS
    Nbundles = 3
    Declared = {2, 3, 4}
    Attrs <- MCAttrs
    AttrOf <- MCAttrOf
    Drivers = {"python", "list", "javascript"}
    Wrong = {0, 1, 2, 3, 5}
    ReuseAfter = {"returned"}
    Rounds = 2
SPECIFICATION Spec
INVARIANTS
    TypeOK
    WritersInTime
    DecodedOnce
    CompleteDecodes
PROPERTIES
    Ends
CHECK_DEADLOCK FALSE
