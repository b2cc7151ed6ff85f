SPECIFICATION Spec
CONSTANTS
    Memory <- Text
    Starts <- StringStarts
    Files <- SomeFiles
    MaxSizes <- Sizes
    WantSizes = {TRUE, FALSE}
    BufferSize = 2
    MaxBytes = 4
    MaxCalls = 2
INVARIANTS
    ContentRight
    OrderRight
