CONSTANTS
    Producers = {p1, p2}
    Consumers = {c1, c2}
    BufferSize = 3
    Ahead = 2
    MaxTail = 7
SPECIFICATION FairSpec
INVARIANTS NoDebugBreak KeptOrTakenOnce
PROPERTIES ImplementsTickets AcceptedIsTaken
