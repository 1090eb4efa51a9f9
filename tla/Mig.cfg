SPECIFICATION Spec
CONSTANTS
    Drains = {"d1", "d2"}
    MaxRuns = 3
    MaxMoves = 4
    MaxFaults = 1
INVARIANTS HistoryKept SpoolIsWhole
CHECK_DEADLOCK FALSE
