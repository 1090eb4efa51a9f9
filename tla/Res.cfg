SPECIFICATION FairSpec
CONSTANTS
    Contracts <- AllContracts
    MaxFaults = 3
INVARIANTS ReceiptIsTrue EndIsClean
PROPERTY CancelTakesEffect
CHECK_DEADLOCK FALSE
