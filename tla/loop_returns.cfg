SPECIFICATION FairLoopSpec
CONSTANTS
    Poll = {p1}
    Event = {e1, e2}
    UserFile = {}
    Pollable = {}
    MaxFd = 1
    Signo = {5}
    TimerId = {7}
    Udata = {}
    NoFile = NoFile
    NoEvent = NoEvent
    NoUdata = NoUdata
    Kinds = {"timer", "signal"}
    Modes = {"edge", "oneshot"}
    CtlAddMayFail = FALSE
    ClosesUsed = FALSE
    Rewatches = FALSE
    Borrows = FALSE
    Tick = 4
    Milli = 2
    Nano = 2
    IntMax = 7
    Semaphores = {FALSE}
    MaxCount = 1
    Timeouts <- AllTimeouts
    Intervals = {1, 3}
    ReusesInBatch = FALSE
PROPERTIES
    WaitReturns
    TimersFire
