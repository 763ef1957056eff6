SPECIFICATION Spec
CONSTANTS
    q1 = q1
    q2 = q2
    q3 = q3
    s1 = s1
    k1 = k1
    NoKey = NoKey
    Earlier = 1
    NoRun = NoRun
    Sessions = {s1}
    Runs = {q1, q2, q3}
    SessionOf <- MCSessionOf
    KeyOf <- MCKeyOf
    Backends = {"mem", "pg"}
    Posting = {q1}
    MaxMessages = 1
    MaxTokens = 0
    KeepRecent <- MCKeepRecent
    ReplySize = 2
    MaxReplies <- MCMaxReplies
    MaxResumes = 1
    ResumeFailed = FALSE
INVARIANTS HistoryKept NoOrphans
PROPERTIES PurgesIdle KeysStandForOneRun
CHECK_DEADLOCK FALSE
