SPECIFICATION FairSpec
CONSTANTS
    w1 = w1
    w2 = w2
    Drivers = {"mem", "pg"}
    Writers = {w1, w2}
    Buffer <- Roomy
    MaxEvents = 4
    MaxFaults = 2
CHECK_DEADLOCK FALSE
PROPERTY ImplementsFeed
