CONSTANTS
    Agents = {"root", "other"}
    Procs = {"gateway", "cli"}
    Trees = {"night", "shell"}
    Tasks = {"daily"}
    NoTask = "none"
    ProcOf <- MCProcOf
    TreeOf <- MCTreeOf
    TaskOf <- MCTaskOf
    Roots = {"root", "other"}
    RunCap = 2
    DayCap = 1
    TaskCap = 1
    PerCheck = 1
    MaxDay = 2
    MaxCalls = 3
    MaxTroubles = 1
SPECIFICATION FairSpec
INVARIANTS MeterIsLedger SpendBounded
PROPERTIES CapEndsRuns
CHECK_DEADLOCK FALSE
