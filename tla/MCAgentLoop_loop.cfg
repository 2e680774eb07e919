CONSTANTS
    Shapes <- MCShapes
    ReadOnly = {"fetch"}
    Serial = {"fetch"}
    Parallel = 2
    MaxIterations = 3
    Budget = 3
    MaxVerifyRounds = 1
    MaxStopBlocks = 1
    MaxSalvages = 1
    KeepLast = 2
    MaxRuns = 2
    MaxTroubles = 1
    MaxFolds = 1
SPECIFICATION FairSpec
INVARIANTS AnsweredInOrder RequestPaired ReplaysToHistory AnnouncedFinished FinishedIsChecked
PROPERTIES RunEnds
CHECK_DEADLOCK FALSE
