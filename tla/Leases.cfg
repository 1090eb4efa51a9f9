SPECIFICATION LeaseFairSpec
CONSTANTS
    Leases = {l1, l2, l3}
    Budget = 3
    Requests <- StreamRequests
INVARIANTS BudgetRespected LeasesCoherent OvertakingBounded
PROPERTIES WaitingIsServed LostIsReclaimed
CHECK_DEADLOCK FALSE
