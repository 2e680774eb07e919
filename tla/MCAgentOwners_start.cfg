CONSTANTS
    g1 = g1
    g2 = g2
    r1 = r1
    a = a
    b = b
    Procs = {g1, g2, r1}
    Seat <- MCSeat
    Agents = {a, b}
    Home <- MCHome
    None = none
    Asker = asker
SPECIFICATION Spec
INVARIANTS LeftAloneBySingleStarts DeadMarked
CHECK_DEADLOCK FALSE
