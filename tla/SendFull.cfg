CONSTANTS
    Workers = {w1}
    Callers = {c1}
    BufferSize = 2
    MaxPacket = 4
    MaxLife = 1
SPECIFICATION FairSpec
PROPERTIES FullIsDisconnected
CHECK_DEADLOCK FALSE
