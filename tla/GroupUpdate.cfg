CONSTANTS
    Workers = {w1, w2}
    Groups = {1, 2}
    First = {1}
    Modes <- NestOrFill
    MaxPost = 1
    MaxCall = 3
SPECIFICATION FairSpec
INVARIANTS OneRunner
PROPERTIES JobsAreHandled CallsReturn
CHECK_DEADLOCK FALSE
