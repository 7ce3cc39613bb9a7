SPECIFICATION FairSpec
CONSTANTS
    MaxNodes = 5
    MaxFeed = 3
    Sources = {"adapt", "immediate"}
    Caps <- MCCaps
    Kinds = {"value", "throws", "recoverable", "critical"}
    TakeFrom = 5
    Event <- MCEvent
    HeadSlot = HeadSlot
    Null = Null
INVARIANTS TypeOK Conservation NoEarlyTeardown NoLostWakeup NoDeadEvents NoProtocolError
PROPERTIES SinkDrains TornDown
CHECK_DEADLOCK FALSE
