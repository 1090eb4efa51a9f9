SPECIFICATION FairSpec
CONSTANTS
    Spools <- TwoSpools
    Runs <- ThreeRuns
    SpoolOf <- Owners
    Hard <- Limits
    Projects = {"p", "q"}
    MaxFaults = 2
INVARIANTS ProjectsDistinct Accounted
PROPERTY RunsEnd
CHECK_DEADLOCK FALSE
