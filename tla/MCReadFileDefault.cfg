SPECIFICATION Spec
CONSTANTS
    Memory <- Text
    Starts <- StringStarts
    Files <- SomeFiles
    MaxSizes <- Positive
    WantSizes = {FALSE}
    BufferSize = 2
    MaxBytes = 4
    MaxCalls = 2
INVARIANTS
    ReadsTheFile
