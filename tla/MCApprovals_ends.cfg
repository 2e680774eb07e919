CONSTANTS
    Root = root
    Children = {child}
    Subjects = {rm}
    ForRun = {rm}
    Keep = {}
    NChats = 1
    Codes = {k7, m3}
    InARow = 2
    InARun = 2
    Routes = {"owner", "terminal", "unattended"}
    Words = {"yes", "no"}
    Stops = {"here", "elsewhere"}
    MaxQuestions = 2
    MaxRuns = 1
    MaxRestarts = 0
SPECIFICATION FairSpec
PROPERTIES QuestionEnds RefusalsStopTheRun StopStops
CHECK_DEADLOCK FALSE
