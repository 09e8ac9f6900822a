SPECIFICATION Spec
CONSTANTS
    Poll = {p1}
    Event = {e1, e2}
    UserFile = {sock}
    Pollable = {sock}
    MaxFd = 1
    Signo = {5}
    TimerId = {}
    Udata = {}
    NoFile = NoFile
    NoEvent = NoEvent
    NoUdata = NoUdata
    Kinds = {"signal"}
    Modes = {}
    CtlAddMayFail = TRUE
    ClosesUsed = FALSE
    Rewatches = FALSE
    Borrows = FALSE
SYMMETRY EventSymmetry
PROPERTIES
    NoForeignClose
