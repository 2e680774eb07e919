CONSTANTS
    Root = root
    Owner = owner
    None = none
    Children = {c1, c2}
    Verifiers = {}
    MaxDepth = 1
    MaxChildren = 2
    MaxAgents = 2
    MaxRuns = 1
    Tools = {"wait", "deadline", "close", "rest"}
    Resumed = {}
    OwnerCloses = {}
    Gateway = FALSE
    WakeFails = FALSE
SPECIFICATION FairSpec
INVARIANTS LoopExitComplete NoStrandedNotice
PROPERTIES LoopEnds
CHECK_DEADLOCK FALSE
