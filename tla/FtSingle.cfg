SPECIFICATION FairSpec
CONSTANTS
    Clients = {c1}
    Files = {f1}
    Dirs = {top, sub}
    NoSuch = NoSuch
    None = None
    Absent = Absent
    Home = top
    MaxConns = 1
    BufUnits = 3
    SplitSends = FALSE
    SizeMod = 8
    Sizes = {0, 1, 2, 3, 4}
    FirstSizes = {0, 2, 3, 5}
    MaxCmds = 4
    DirSize = 1
    Targets = {f1, NoSuch}
    Orderly = FALSE
INVARIANTS
    TypeOK
    
    PromptInSync
    
PROPERTIES
    AnswersCommand
    GetDelivers
    PutStores
    CommandReturns
    ExitEndsSession
CHECK_DEADLOCK FALSE
