SPECIFICATION Spec
CONSTANTS
    Poll = {p1}
    Event = {e1, e2}
    UserFile = {sock}
    Pollable = {sock}
    MaxFd = 2
    Signo = {}
    TimerId = {7}
    Udata = {u1}
    NoFile = NoFile
    NoEvent = NoEvent
    NoUdata = NoUdata
    Kinds = {"read", "timer"}
    Modes = {"level", "edge", "oneshot"}
    CtlAddMayFail = FALSE
    ClosesUsed = FALSE
    Rewatches = FALSE
    Borrows = TRUE
SYMMETRY EventSymmetry
INVARIANTS
    WatchedIsTyped
    ModesExclusive
    UdataReleased
PROPERTIES
    ModeKept
