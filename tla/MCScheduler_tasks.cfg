CONSTANTS
    Once = {once}
    Cron = {cron}
    Periods = {1, 2}
    Outcomes = {"succeeded", "failed"}
    MaxTime = 3
    MaxRuns = 3
    MaxEdits = 1
    MaxDeaths = 1
SPECIFICATION FairSpec
INVARIANTS NoOverlap OneCatchUp RunningIsAlive
PROPERTIES DueIsRun
CHECK_DEADLOCK FALSE
