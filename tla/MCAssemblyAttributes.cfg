CONSTANTS
    Jobs <- ThinJobs
    AttrOrder <- MCAttrOrder
    Blank = Blank
    Pad = Pad
SPECIFICATION Spec
INVARIANT AttributesFollowTraces
CHECK_DEADLOCK FALSE
