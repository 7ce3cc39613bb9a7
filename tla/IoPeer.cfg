SPECIFICATION FairSpec
CONSTANTS
    Base = 8
    LengthWidth = 1
    UnionWidth = 1
    MaxElements = 7
    Bytes <- Byte
    encode <- MCEncode
    decode <- MCDecode
    Outgoing <- MCOutgoing
    OutSize = 5
    InSize = 6
    Socket = 4
    PacketSize = 3
    MaxSent = 3
INVARIANTS TasksKeepTheirMemory
PROPERTIES ImplementsChannel Delivered
CHECK_DEADLOCK FALSE
