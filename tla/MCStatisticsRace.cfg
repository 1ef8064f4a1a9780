SPECIFICATION Spec
CONSTANTS
    s1 = s1
    s2 = s2
    k1 = k1
    k2 = k2
    Servers = {s1, s2}
    Keys = {k1, k2}
    LastStep = 6
    Checkpoints = {2, 4}
    Unit = 1
    Span = 3
    Timespan = 1
    InitialCondition = FALSE
    Options <- RaceOptions
    MaxRestarts = 2
    None = None
    Partial = Partial
INVARIANT ResumedWhole
CHECK_DEADLOCK FALSE
