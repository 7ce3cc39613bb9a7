SPECIFICATION FairSpec
CONSTANTS
    MaxReceive = 1
    MaxSend = 2
    SendBuffer = 1
    ReadLengths <- MCReadLengths
    WriteLengths = {2}
    Listens = {"hup"}
PROPERTIES ReadIsServed WriteIsServed DisconnectIsTold
CHECK_DEADLOCK FALSE
