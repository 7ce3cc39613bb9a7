SPECIFICATION FairSpec
CONSTANTS
    MaxNodes = 3
    MaxFeed = 2
    Caps <- MCCaps1
    Sources = {"adapt"}
    Kinds = {"value"}
    TakeFrom = 3
    Event <- MCEvent
    HeadSlot = HeadSlot
    Null = Null
PROPERTIES TakeGetsAll
CHECK_DEADLOCK FALSE
