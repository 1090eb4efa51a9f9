SPECIFICATION Spec
CONSTANTS
    Runs = {r1, r2}
    NoRun = NoRun
    w1 = w1  w2 = w2  h1 = h1
    Repos = {1}
    Worktrees = {w1}
    Heads = {h1}
    Names <- MCNames
    Requests <- GateRequests
    Capacities <- OneCapacity
    MaxUnits = 2
    MaxFaults = 0
    MaxDrains = 1
SYMMETRY RunSymmetry
INVARIANT DrainedHoldsNothing
