SPECIFICATION FairLoopSpec
CONSTANTS
    Poll = {p1, p2}
    Event = {e1, e2}
    UserFile = {}
    Pollable = {}
    MaxFd = 1
    Signo = {5}
    TimerId = {}
    Udata = {}
    NoFile = NoFile
    NoEvent = NoEvent
    NoUdata = NoUdata
    Kinds = {"signal"}
    Modes = {}
    CtlAddMayFail = FALSE
    ClosesUsed = FALSE
    Rewatches = FALSE
    Borrows = FALSE
    Tick = 4
    Milli = 2
    Nano = 2
    IntMax = 7
    Semaphores = {FALSE}
    MaxCount = 1
    Timeouts <- Finite
    Intervals = {}
    ReusesInBatch = FALSE
PROPERTIES
    WaitReturns
