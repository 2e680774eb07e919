CONSTANTS
    Root = root
    Children = {child}
    Subjects = {rm, mail}
    ForRun = {rm}
    Keep = {mail}
    NChats = 2
    Codes = {k7, m3, p4}
    InARow = 2
    InARun = 2
    Routes = {"owner"}
    Words = {"remember", "no"}
    Stops = {}
    MaxQuestions = 2
    MaxRuns = 2
    MaxRestarts = 1
SPECIFICATION Spec
SYMMETRY Draws
INVARIANTS OnTheOwnersWord PendingIsAwaited
CHECK_DEADLOCK FALSE
