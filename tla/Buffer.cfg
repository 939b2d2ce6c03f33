CONSTANTS
    Threads = {t1, t2}
    Contents = {t1}
    Sessions = {s1, s2}
    LocalSize = 2
    Multiplier = 1
    QueueSize = 1
    MaxSend = 2
    Width = 3
    RandomKey = 1
    KeyMaps <- SameKey
    Messages <- OneMessage
    MaxBuffer = 6
    MaxAlloc = 5
    MaxLive = 1
    MaxHandle = 2
SPECIFICATION Spec
INVARIANTS RefExact PooledOnce WireReadable
SYMMETRY Symmetric
CHECK_DEADLOCK FALSE
