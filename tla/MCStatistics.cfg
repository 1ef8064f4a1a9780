SPECIFICATION Spec
CONSTANTS
    s1 = s1
    s2 = s2
    k1 = k1
    k2 = k2
    Servers = {s1, s2}
    Keys = {k1, k2}
    LastStep = 6
    Checkpoints = {2, 4}
    Unit = 3
    Span = 1
    Timespan = 0
    InitialCondition = TRUE
    Options <- MCOptions
    MaxRestarts = 2
    None = None
    Partial = Partial
INVARIANTS EmittedWhole AllEmitted LatestComplete ResumeAccepted
PROPERTY DumpsImmutable
CHECK_DEADLOCK FALSE
