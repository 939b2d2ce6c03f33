CONSTANTS
    Workers = {w1, w2}
    Callers = {c1, c2}
    BufferSize = 4
    MaxPacket = 4
    MaxLife = 1
SPECIFICATION Spec
SYMMETRY Symmetric
INVARIANTS OneSender NoDebugBreak SentInOrder
CHECK_DEADLOCK FALSE
