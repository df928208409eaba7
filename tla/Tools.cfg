SPECIFICATION Spec
CONSTANTS
    Paths = {"a.log"}
    MaxFiles = 4
    Levels = {1, 4, 5}
    Serves = 2
    Operands = {2, 3}
    MaxOpnd = 2
    McsRounds = 2
    MaxGiven = 17
    UClients = {c1, c2}
    ULines = 2
    MaxLoss = 1
    MaxDup = 1
    Bytes = {0, 1, 128, 255}
    MaxLen = 6
INVARIANTS
    SinkSound
    OpAnswersRight
    UdpEchoMatches
    McsInStep
    ExecSafe
    
    CrcAgrees
PROPERTY
    ToolsFinish
CHECK_DEADLOCK FALSE
