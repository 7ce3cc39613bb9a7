SPECIFICATION FairSpec
CONSTANTS
    Event = {e1, e2, e3, e4, e5}
    HeadSlot = HeadSlot
    Null = Null
INVARIANTS TypeOK Represents
PROPERTIES LastFiresLast ImplementsQueue LaterIsServed
CHECK_DEADLOCK FALSE
