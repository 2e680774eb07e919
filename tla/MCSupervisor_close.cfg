CONSTANTS
    Root = root
    Owner = owner
    None = none
    Children = {c1, v1}
    Verifiers = {v1}
    MaxDepth = 2
    MaxChildren = 1
    MaxAgents = 2
    MaxRuns = 1
    Tools = {"close", "copy", "refuse"}
    Resumed = {}
    OwnerCloses = {c1}
    Gateway = TRUE
    WakeFails = FALSE
SYMMETRY Symmetry
SPECIFICATION Spec
INVARIANTS RunningHasRunner CopyUnderRun
