SPECIFICATION LoopSpec
CONSTANTS
    Poll = {p1}
    Event = {e1, e2}
    UserFile = {}
    Pollable = {}
    MaxFd = 0
    Signo = {}
    TimerId = {}
    Udata = {}
    NoFile = NoFile
    NoEvent = NoEvent
    NoUdata = NoUdata
    Kinds = {"trigger"}
    Modes = {}
    CtlAddMayFail = FALSE
    ClosesUsed = FALSE
    Rewatches = FALSE
    Borrows = FALSE
    Tick = 4
    Milli = 2
    Nano = 2
    IntMax = 7
    Semaphores = {FALSE}
    MaxCount = 1
    Timeouts <- Forever
    Intervals = {}
    ReusesInBatch = TRUE
SYMMETRY EventSymmetry
INVARIANTS
    ReadsInBatch
