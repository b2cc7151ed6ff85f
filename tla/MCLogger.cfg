SPECIFICATION LogSpec
CONSTANTS
    t1 = t1
    t2 = t2
    file = file
    Threads = {t1, t2}
    Stdout = stdout
    Sinks = {stdout, file}
    Program <- ProgramOfTwo
    SmallBuffer = 20
    MaxNumericSize = 5
    IntMax = 99
    DoubleText <- Doubles
    TidText <- Tids
    DateText <- Dates
    MicroText <- Microseconds
    ErrnoText <- Errors
    MicroPerSecond = 2
    FailingSinks = {file}
    ShortCounts = {0, 5}
    StartTime = 4
    Times = {3, 4}
INVARIANTS
    LineRight
    InBounds
    LinesKept
