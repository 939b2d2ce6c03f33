CONSTANTS
    Workers = {w1}
    Callers = {c1}
    Timers = {c1}
    Acceptor = acc
    ReleaseFlag = 100
    MaxId = 3
    MaxSend = 1
SPECIFICATION FairSpec
INVARIANTS TypeOK RefCountExact ReleasedOnce FoundSessionStays OneReceive SessionCountExact
PROPERTIES NoCloseDuringIo CallbackOrder ClosedSessionReleased
