SPECIFICATION FairSpec
CONSTANTS
    MaxNodes = 3
    MaxFeed = 2
    Caps <- MCCaps2
    Sources = {"adapt"}
    Kinds = {"value", "critical"}
    TakeFrom = 4
    Event <- MCEvent
    HeadSlot = HeadSlot
    Null = Null
PROPERTIES AlwaysTornDown
CHECK_DEADLOCK FALSE
