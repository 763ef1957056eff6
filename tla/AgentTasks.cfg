SPECIFICATION Spec
CONSTANTS
    t1 = t1
    t2 = t2
    Nobody = Nobody
    Tasks = {t1, t2}
    Tools = {"read", "write", "delegate"}
    Limits <- MCLimits
    ToolBudgets <- MCToolBudgets
    Kind <- MCKind
    Groups <- ToolGroups
    ModelCosts = {1}
    Results <- MCResults
    ApproveAbove = 1
    LoopResponse = "approve"
    Threshold = 2
    RetryStorm = 2
    MaxToolLoops <- Loops
    MaxAttempts <- Attempts
    ToolAttempts = 2
    MaxParallel = 2
    TimesOut = {}
    Canceled = {t2}
    MaxFaults = 1
CHECK_DEADLOCK FALSE
INVARIANTS BudgetsHold HumanAskedFirst GroupInOrder
