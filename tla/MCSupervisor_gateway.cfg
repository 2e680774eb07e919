CONSTANTS
    Root = root
    Owner = owner
    None = none
    Children = {c1, c2}
    Verifiers = {}
    MaxDepth = 1
    MaxChildren = 1
    MaxAgents = 2
    MaxRuns = 2
    Tools = {"wait", "rest", "claim"}
    Resumed = {c1}
    OwnerCloses = {}
    Gateway = TRUE
    WakeFails = TRUE
SYMMETRY Symmetry
SPECIFICATION Spec
INVARIANTS TypeOK EndIsHeard NoticeDropped ChildrenWithinLimit SingleRun
PROPERTIES RecordsOwnRun
