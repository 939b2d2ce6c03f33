CONSTANTS
    Workers = {w1}
    Callers = {c1}
    BufferSize = 2
    MaxPacket = 5
    MaxLife = 2
SPECIFICATION FairSpec
INVARIANTS SentInOrder PacketsFreedOnce NothingTwice
PROPERTIES AcceptedIsSent
CHECK_DEADLOCK FALSE
