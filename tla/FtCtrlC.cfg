SPECIFICATION FairSpec
CONSTANTS
    Clients = {c1}
    Files = {f1}
    Dirs = {top, sub}
    NoSuch = NoSuch
    None = None
    Absent = Absent
    Home = top
    MaxConns = 1
    BufUnits = 2
    SplitSends = FALSE
    SizeMod = 8
    Sizes = {1, 3}
    FirstSizes = {3}
    MaxCmds = 2
    DirSize = 1
    Targets = {f1, NoSuch}
    Orderly = FALSE
PROPERTY
    QuitEndsSession
CHECK_DEADLOCK FALSE
