SPECIFICATION Spec
CONSTANTS
    Poll = {p1, p2}
    Event = {e1, e2}
    UserFile = {sock, reg}
    Pollable = {sock}
    MaxFd = 2
    Signo = {5}
    TimerId = {}
    Udata = {}
    NoFile = NoFile
    NoEvent = NoEvent
    NoUdata = NoUdata
    Kinds = {"read", "write", "signal"}
    Modes = {"edge"}
    CtlAddMayFail = FALSE
    ClosesUsed = FALSE
    Rewatches = FALSE
    Borrows = FALSE
SYMMETRY EventSymmetry
INVARIANTS
    UniquePair
    WatchedIsFlagged
    NoThrow
    NoLeak
    Armed
    NoForgotten
PROPERTIES
    NoForeignClose
    TableSpec
