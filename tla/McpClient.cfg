SPECIFICATION FairSpec
CONSTANTS
    t1 = t1
    t2 = t2
    t3 = t3
    t4 = t4
    c1 = c1
    c2 = c2
    Tools = {t1, t2, t3, t4}
    Hints <- MCHints
    Taken = {t3}
    Broken = {t4}
    Calls = {c1, c2}
    ToolOf <- MCToolOf
    MaxRetries = 1
    BreakAfter = 2
    MaxFaults = 2
    MaxChanges = 1
    MayClose = TRUE
INVARIANTS OneConnection StaleIsNoticed RetriedIfSafe
PROPERTY Recovers
CHECK_DEADLOCK FALSE
