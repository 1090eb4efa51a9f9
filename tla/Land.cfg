SPECIFICATION FairSpec
CONSTANTS
    Attempts = 2
    MaxOthers = 2
    MaxFaults = 1
    MaxRuns = 2
    MaxMoves = 3
INVARIANTS Coherent PublishedIsTested TargetWasTested AvoidedStaysOut SuccessIsLanded
PROPERTIES SourceKept LandEnds
CHECK_DEADLOCK FALSE
