SPECIFICATION Spec
CONSTANTS
    Clients = {c1, c2}
    Files = {f1}
    Dirs = {top, sub}
    NoSuch = NoSuch
    None = None
    Absent = Absent
    Home = top
    MaxConns = 2
    BufUnits = 2
    SplitSends = FALSE
    SizeMod = 8
    Sizes = {1}
    FirstSizes = {1}
    MaxCmds = 2
    DirSize = 1
    Targets = {f1, NoSuch}
    Orderly = FALSE
INVARIANT
    SessionOwnsFd
CHECK_DEADLOCK FALSE
