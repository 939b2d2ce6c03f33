CONSTANTS
    Threads = {t1, t2}
    Main = t1
    Indices = {i1, i2}
    MaxNode = 2
    PoolSize = 1
    TagCount = 3
    Stall = 2
    MaxClient = 1
SPECIFICATION FairSpec
INVARIANTS NodeOnce IndexOnce
PROPERTIES ImplementsStack SomeCallReturns
CHECK_DEADLOCK FALSE
