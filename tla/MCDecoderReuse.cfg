CONSTANTS
    Nbundles = 3
    Declared = {3}
    Attrs <- MCAttrs
    AttrOf <- MCAttrOf
    Drivers = {"python"}
    Wrong = {0}
    ReuseAfter = {"returned", "incomplete"}
    Rounds = 2
SPECIFICATION Spec
INVARIANTS
    CompleteDecodes
CHECK_DEADLOCK FALSE
