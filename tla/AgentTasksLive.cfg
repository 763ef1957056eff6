SPECIFICATION FairSpec
CONSTANTS
    t1 = t1
    t2 = t2
    Nobody = Nobody
    Tasks = {t1, t2}
    Tools = {"read", "write", "delegate"}
    Limits <- MCLimits
    ToolBudgets <- MCToolBudgets
    Kind <- MCKind
    Groups <- DelegateGroups
    ModelCosts = {1}
    Results <- MCResults
    ApproveAbove = 1
    LoopResponse = "pause"
    Threshold = 2
    RetryStorm = 2
    MaxToolLoops <- Loops
    MaxAttempts <- Attempts
    ToolAttempts = 2
    MaxParallel = 2
    TimesOut = {t2}
    Canceled = {}
    MaxFaults = 0
CHECK_DEADLOCK FALSE
INVARIANT NoStragglers
PROPERTY EveryTaskEnds
