SPECIFICATION FairSpec
CONSTANTS
    a = a
    b = b
    c = c
    Keys = {a, b, c}
    Plans <- MCPlans
    MaxConcurrent = 2
    MaxSubAgents = 4
    MaxResumes = 1
    MaxFaults = 1
    CopyAll = FALSE
INVARIANTS PolicyDecides   CopyEndsAlike
PROPERTY StageEnds
CHECK_DEADLOCK FALSE
