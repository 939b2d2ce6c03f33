CONSTANTS
    Groups = {1, 2}
    Movers = {}
    Hops <- AnyHop
    Revisit = FALSE
    MaxLife = 1
    MaxMove = 3
    MaxRecv = 3
SPECIFICATION Spec
INVARIANTS LeaveFindsMember
CHECK_DEADLOCK FALSE
