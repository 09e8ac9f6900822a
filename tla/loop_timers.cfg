SPECIFICATION LoopSpec
CONSTANTS
    Poll = {p1}
    Event = {e1, e2}
    UserFile = {}
    Pollable = {}
    MaxFd = 1
    Signo = {}
    TimerId = {7}
    Udata = {}
    NoFile = NoFile
    NoEvent = NoEvent
    NoUdata = NoUdata
    Kinds = {"timer", "trigger"}
    Modes = {"edge", "oneshot"}
    CtlAddMayFail = FALSE
    ClosesUsed = FALSE
    Rewatches = FALSE
    Borrows = FALSE
    Tick = 4
    Milli = 2
    Nano = 2
    IntMax = 7
    Semaphores = {TRUE, FALSE}
    MaxCount = 2
    Timeouts <- Forever
    Intervals = {8}
    ReusesInBatch = FALSE
SYMMETRY EventSymmetry
INVARIANTS
    DisabledTruthful
    EofTruthful
    ReadsInBatch
    NoBlockedDrain
    WakeupPending
PROPERTIES
    PromiseSpec
