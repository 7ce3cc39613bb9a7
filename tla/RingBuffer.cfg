SPECIFICATION FairSpec
CONSTANTS
    Size = 4
    Byte = {0, 1}
    MaxChunk = 4
INVARIANTS TypeOK Contents SegmentsFit TransfersExact
PROPERTIES ImplementsByteQueue TransfersEnd
CHECK_DEADLOCK FALSE
