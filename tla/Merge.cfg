SPECIFICATION FairSpec
CONSTANTS
    Child <- MCChild2
    Event <- MCEvent2
    HeadSlot = HeadSlot
    Null = Null
    ChildKinds = {"adapt", "buffered", "immediate"}
    ChildLimit = 1
    LaneLimits = {0, 1}
    Kinds = {"value", "critical"}
    MaxFeed = 2
INVARIANTS Conservation RoundRobin NoLostWakeup
PROPERTIES MergeDrains
CHECK_DEADLOCK FALSE
