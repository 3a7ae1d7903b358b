SPECIFICATION FairSpec
CONSTANTS
    v1 = v1
    Vals = {v1}
    MaxDelay = 1
    MaxTimers = 1
    MaxPasses = 1
PROPERTY FileServed
CHECK_DEADLOCK FALSE
