SPECIFICATION Spec
CONSTANTS
    Poll = {p1}
    Event = {e1, e2}
    UserFile = {sock}
    Pollable = {sock}
    MaxFd = 1
    Signo = {}
    TimerId = {}
    Udata = {}
    NoFile = NoFile
    NoEvent = NoEvent
    NoUdata = NoUdata
    Kinds = {"read"}
    Modes = {}
    CtlAddMayFail = FALSE
    ClosesUsed = FALSE
    Rewatches = TRUE
    Borrows = FALSE
SYMMETRY EventSymmetry
INVARIANTS
    NoThrow
