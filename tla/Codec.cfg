SPECIFICATION Spec
CONSTANTS
    Base = 4
    LengthWidth = 2
    UnionWidth = 1
    MaxElements = 6
    Outgoings <- MCOutgoings
    Incoming <- Plain
    Calls <- MCCalls
    BufferSize = 20
    PacketSize = 7
    MaxSent = 2
INVARIANTS TypeOK AcceptedAsSent RoundTrip PartialIsRecoverable
CHECK_DEADLOCK FALSE
