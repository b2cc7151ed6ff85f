SPECIFICATION FairSpec
CONSTANTS
    w1 = w1
    w2 = w2
    d1 = d1
    d2 = d2
    d3 = d3
    Threads = {w1, w2, d1, d2, d3}
    NoThread = NoThread
    Conds = {"condition_"}
    Program <- Crowd
    Count = 3
INVARIANTS CountExact NoSleeperLeft
PROPERTIES ImplementsLatch Termination
