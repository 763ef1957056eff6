SPECIFICATION Spec
CONSTANTS
    NoOwner = NoOwner
    Procs = {p1}
    Creator = p1
    Recovering = {p1}
    Resumers = {p1}
    Cancellers = {p1}
    Stopping = {p1}
    Mortal = {p1}
    Lease = 3
    LoopResponse = "pause"
    CreateWindow = FALSE
    Stall = "any"
    MaxRestarts = 1
    MaxErrors = 2
INVARIANT LocalExclusion
PROPERTY FinalIsFinal
