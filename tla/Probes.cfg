SPECIFICATION Spec
CONSTANTS
    Rounds = 3
    Rtts = {1, 2, 4}
    MaxNoise = 2
    MaskNum = 30
    Tries = 3
    MaxForeign = 3
    MaxSlow = 1
    MaxAddrs = 3
    BatchSize = 2
INVARIANTS
    StatsAreTheSample
    LineNamesItsReply
    MissNeedsNoise
    ScanSound
    DumpComplete
PROPERTY
    ToolEnds
CHECK_DEADLOCK FALSE
