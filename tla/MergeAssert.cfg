SPECIFICATION Spec
CONSTANTS
    Child <- MCChild2
    Event <- MCEvent2
    HeadSlot = HeadSlot
    Null = Null
    ChildKinds = {"adapt"}
    ChildLimit = 1
    LaneLimits = {0}
    Kinds = {"value"}
    MaxFeed = 2
INVARIANT NoAssertionFails
CHECK_DEADLOCK FALSE
