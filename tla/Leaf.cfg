SPECIFICATION FairSpec
CONSTANTS
    a = a
    b = b
    c = c
    Runs <- ThreeRuns
    MaxFaults = 4
    MaxRoots = 3
INVARIANT Accounted
PROPERTY RunsEnd
CHECK_DEADLOCK FALSE
