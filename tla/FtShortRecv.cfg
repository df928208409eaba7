SPECIFICATION FairSpec
CONSTANTS
    Clients = {c1}
    Files = {f1}
    Dirs = {top, sub}
    NoSuch = NoSuch
    None = None
    Absent = Absent
    Home = top
    MaxConns = 1
    BufUnits = 2
    SplitSends = TRUE
    SizeMod = 8
    Sizes = {1}
    FirstSizes = {1}
    MaxCmds = 3
    DirSize = 1
    Targets = {f1, NoSuch}
    Orderly = FALSE
PROPERTY
    CommandReturns
CHECK_DEADLOCK FALSE
