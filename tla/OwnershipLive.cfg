SPECIFICATION FairSpec
CONSTANTS
    NoOwner = NoOwner
    Procs = {p1, p2}
    Creator = p1
    Recovering = {p2}
    Resumers = {}
    Cancellers = {p2}
    Stopping = {p1}
    Mortal = {p1}
    Lease = 3
    LoopResponse = "fail"
    CreateWindow = FALSE
    Stall = "short"
    MaxRestarts = 0
    MaxErrors = 0
INVARIANT OwnedWhileActing
PROPERTIES RunEnds CancelHonoured
