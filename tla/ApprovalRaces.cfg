SPECIFICATION FairSpec
CONSTANTS
    q1 = q1
    q2 = q2
    a1 = a1
    m1 = m1
    m2 = m2
    r1 = r1
    r2 = r2
    Nobody = Nobody
    Person = Person
    Waiters = {q1}
    Questions = {q1}
    Runs <- OneRun
    RunOf <- InOneRun
    Messages = {m1, m2}
    Expires = TRUE
    Skewed = TRUE
    MaxResumes = 1
    MaxErrors = 1
CHECK_DEADLOCK FALSE
INVARIANTS ActsOnStored AnswersTheirs OpenIsAwaited
PROPERTIES WaiterReturns AnswerReachesAgent
