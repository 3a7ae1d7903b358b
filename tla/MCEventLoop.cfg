SPECIFICATION FairSpec
CONSTANTS
    v1 = v1
    Vals = {v1}
    MaxDelay = 1
    MaxTimers = 2
    MaxPasses = 2
INVARIANTS TypeOK SleepsUntilNearest RunsInOrder
PROPERTIES TimerRuns PassEnds VwaitReturns
CHECK_DEADLOCK FALSE
