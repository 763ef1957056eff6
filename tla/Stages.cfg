SPECIFICATION FairSpec
CONSTANTS
    s1 = s1
    s2 = s2
    s3 = s3
    Stages = {s1, s2, s3}
    NoStage = NoStage
    Limit = 1
INVARIANTS InputsCurrent FeedbackCurrent NoStageLeaks SuccessIsComplete
PROPERTY Terminates
