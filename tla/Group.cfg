CONSTANTS
    Groups = {1, 2}
    Movers = {}
    Hops <- ViaBase
    Revisit = FALSE
    MaxLife = 2
    MaxMove = 8
    MaxRecv = 6
SPECIFICATION FairSpec
INVARIANTS ReleasedOnce NoGhostMember LeftBeforeDisconnect
PROPERTIES PacketsAreHandled ReleasedIsDisconnected
CHECK_DEADLOCK FALSE
