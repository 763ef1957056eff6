SPECIFICATION Spec
CONSTANTS
    NoOwner = NoOwner
    Procs = {p1, p2}
    Creator = p1
    Recovering = {p1, p2}
    Resumers = {}
    Cancellers = {}
    Stopping = {}
    Mortal = {}
    Lease = 3
    LoopResponse = "fail"
    CreateWindow = FALSE
    Stall = "none"
    MaxRestarts = 0
    MaxErrors = 4
INVARIANT OwnedWhenServed
