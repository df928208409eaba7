SPECIFICATION FairSpec
CONSTANTS
    MaxConns = 3
    Quota <- MCQuota
    MaxMsg = 2
    BufCells = 1
    MaxFd = 5
    Programs = {"thread", "obj"}
INVARIANTS
    OwnedOnce
    SessionKeepsPeer
PROPERTIES
    ObjEchoesInOrder
    ObjClientsServed
CHECK_DEADLOCK FALSE
