SPECIFICATION FairSpec
CONSTANTS
    p1 = p1
    p2 = p2
    c1 = c1
    c2 = c2
    m = m
    Threads = {p1, p2, c1, c2, m}
    NoThread = NoThread
    Conds = {"notEmpty_", "notFull_"}
    Program <- Mixed
    maxSize = 2
INVARIANTS Fifo AssertsHold NoLostWakeup
PROPERTIES ImplementsChannel Termination
