\* Five references, one variable, collections at any time.
CONSTANTS
    InitialSize = 2
    Hash <- Colliding
    MaxRefs = 5
    Vars = {x}
    MaxLinks = 1
    MaxFinalizers = 1
SPECIFICATION Spec
INVARIANTS
    TypeOK
    TableSound
    ReferencesLive
    IteratorSafe
    FinalizedOnce
PROPERTY
    SweepComplete
CHECK_DEADLOCK FALSE
