SPECIFICATION FairSpec
CONSTANTS
    m = m
    c = c
    w1 = w1
    w2 = w2
    Clients = {m, c}
    Master = m
    Pool <- TwoWorkers
    Threads = {m, c, w1, w2}
    NoThread = NoThread
    Conds = {"cond_"}
    Programs <- ThreePrograms
INVARIANTS Fifo NoLostWakeup NoSleeperAfterStop
    StopIsPrompt StopFinishesTasks SafeDestruction
PROPERTIES Termination AllServed
