SPECIFICATION Spec
CONSTANTS
    MaxReceive = 2
    MaxSend = 2
    SendBuffer = 1
    ReadLengths <- MCReadLengths
    WriteLengths = {2}
    Listens = {"read", "write", "hup"}
INVARIANTS TypeOK ReadsAreExact WritesAreExact NoLostSignal
CHECK_DEADLOCK FALSE
