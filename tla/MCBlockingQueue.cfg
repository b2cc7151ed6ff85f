SPECIFICATION FairSpec
CONSTANTS
    p1 = p1
    p2 = p2
    c1 = c1
    c2 = c2
    m = m
    Threads = {p1, p2, c1, c2, m}
    NoThread = NoThread
    Conds = {"notEmpty_"}
    Program <- Mixed
INVARIANTS AssertsHold NoLostWakeup
PROPERTIES ImplementsChannel Termination
