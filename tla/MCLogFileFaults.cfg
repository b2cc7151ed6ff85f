SPECIFICATION Spec
CONSTANTS
    t1 = t1
    t2 = t2
    NoThread = NoThread
    Threads <- ThreadsOne
    Conds = {}
    Program <- ProgramOne
    ThreadSafe = FALSE
    RollSize = 3
    FlushInterval = 1
    CheckTimeRoll = 0
    RollPerSeconds = 4
    SizeRange = 32
    RawBytes = {0, 30}
    RawCounts <- AnyCounts
    DiskFails = TRUE
    ClockSteps <- BothWays
    StartTime = 3
    EndTime = 5
INVARIANTS
    Intact
    FreshNames
