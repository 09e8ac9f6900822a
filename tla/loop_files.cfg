SPECIFICATION LoopSpec
CONSTANTS
    Poll = {p1}
    Event = {e1, e2}
    UserFile = {sock}
    Pollable = {sock}
    MaxFd = 1
    Signo = {}
    TimerId = {}
    Udata = {}
    NoFile = NoFile
    NoEvent = NoEvent
    NoUdata = NoUdata
    Kinds = {"read", "write"}
    Modes = {}
    CtlAddMayFail = FALSE
    ClosesUsed = FALSE
    Rewatches = FALSE
    Borrows = FALSE
    Tick = 4
    Milli = 2
    Nano = 2
    IntMax = 7
    Semaphores = {FALSE}
    MaxCount = 1
    Timeouts <- Finite
    Intervals = {}
    ReusesInBatch = FALSE
SYMMETRY EventSymmetry
VIEW NoOutcome
INVARIANTS
    LoopTypeOK
    EvlistFits
    DisabledTruthful
    EofTruthful
