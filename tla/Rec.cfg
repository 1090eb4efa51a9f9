SPECIFICATION FairSpec
CONSTANTS
    Jobs <- OneJob
    Proofs <- FourProofs
    Drains <- OneDrain
    MaxAttempts = 2
    MaxRecoveries = 2
    MaxFaults = 1
INVARIANTS MarkerHolds RetriesAreHarmless
PROPERTIES OnlyProofStarts RecoveryEnds
CHECK_DEADLOCK FALSE
