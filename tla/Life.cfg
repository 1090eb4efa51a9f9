SPECIFICATION FairSpec
CONSTANTS
    Kinds <- AllKinds
    MaxFaults = 3
INVARIANTS Coherent PassedIsEarned StopKept
PROPERTIES JobSpec StopTakesEffect EndIsRecorded
CHECK_DEADLOCK FALSE
