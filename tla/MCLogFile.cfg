SPECIFICATION Spec
CONSTANTS
    t1 = t1
    t2 = t2
    NoThread = NoThread
    Threads <- ThreadsTwo
    Conds = {}
    Program <- ProgramTwo
    ThreadSafe = TRUE
    RollSize = 3
    FlushInterval = 1
    CheckTimeRoll = 0
    RollPerSeconds = 4
    SizeRange = 32
    RawBytes = {0, 30}
    RawCounts = {0, 1}
    DiskFails = FALSE
    ClockSteps <- Forward
    StartTime = 1
    EndTime = 5
INVARIANTS
    Intact
    LookHelps
PROPERTY SizeRolls
