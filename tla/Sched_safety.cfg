SPECIFICATION Spec
CONSTANTS
    Runs = {r1, r2, r3}
    NoRun = NoRun
    w1 = w1  w2 = w2  h1 = h1
    Repos = {1, 2}
    Worktrees = {w1, w2}
    Heads = {h1}
    Names <- MCNames
    Requests <- MixedRequests
    Capacities <- TwoCapacities
    MaxUnits = 2
    MaxFaults = 1
    MaxDrains = 1
SYMMETRY RunSymmetry
INVARIANTS LaneExclusion CapacityRespected PublicationUncancelled MergeReceiptHeld DrainedRunsNothing
PROPERTY NoOvertaking
