SPECIFICATION FairSpec
CONSTANTS
    s1 = s1
    s2 = s2
    s3 = s3
    s4 = s4
    r1 = r1
    r2 = r2
    r3 = r3
    Nil = Nil
    NoName = NoName
    Runs = {r1, r2, r3}
    TenantOf <- Tenants
    WorkflowOf <- Names
    Inner = {1}
    InnerOf <- OneAgent
    Forced = {r3}
    Endless = {r1}
    Canceled = {r2, r3}
    ShutsDown = TRUE
    PerTenant = 0
    PerWorkflow = 1
    PerInner = 1
    MaxActiveRuns = 2
    MaxQueuedRuns = 1
    Calls <- SlotCalls
    KeyOf <- SlotKey
    Limit <- SlotLimit
    Sems = {1, 2, 3}
CHECK_DEADLOCK FALSE
INVARIANTS KeyBounded KeysInUse WorkBounded NothingLeaks
PROPERTIES EveryRunEnds
