SPECIFICATION Spec
CONSTANTS
    Poll = {p1, p2}
    Event = {e1, e2}
    UserFile = {sock, reg}
    Pollable = {sock}
    MaxFd = 1
    Signo = {5}
    TimerId = {}
    Udata = {}
    NoFile = NoFile
    NoEvent = NoEvent
    NoUdata = NoUdata
    Kinds = {"read", "write", "signal", "trigger"}
    Modes = {}
    CtlAddMayFail = TRUE
    ClosesUsed = TRUE
    Rewatches = TRUE
    Borrows = FALSE
SYMMETRY EventSymmetry
INVARIANTS
    TypeOK
    EvsetExact
    NregExact
    FlagBacked
