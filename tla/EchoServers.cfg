SPECIFICATION FairSpec
CONSTANTS
    MaxConns = 2
    Quota <- MCQuota
    MaxMsg = 2
    BufCells = 1
    MaxFd = 6
    Kinds = {"iter", "fork", "epoll", "select"}
    Turns = 2
INVARIANTS
    DescriptorsAccounted
    EventsStayTrue
    KilledByAbort
    ZombieOnlyIfMerged
PROPERTIES
    EchoesInOrder
    ClientsServed
CHECK_DEADLOCK FALSE
