SPECIFICATION StreamSpec
CONSTANTS
    Runs = {r1, r2, r3}
    NoRun = NoRun
    w1 = w1  w2 = w2  h1 = h1
    Repos = {1, 2}
    Worktrees = {w1}
    Heads = {h1}
    Names <- MCNames
    Requests <- ServeRequests
    Capacities <- OneCapacity
    MaxUnits = 2
    MaxFaults = 0
    MaxDrains = 0
PROPERTY QueuedIsServed
