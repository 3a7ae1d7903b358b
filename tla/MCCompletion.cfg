\* Every command in every order, up to three nested invocations.
CONSTANTS
    MaxEvalDepth = 3
    MaxCallFrameDepth = 2
    Levels = {1, 2}
    MaxDefers = 2
    MaxOthers = 2
    Targets = {"proc", "return"}
    ReturnCodes = {"return"}
    Scripts <- AllScripts
SPECIFICATION Spec
INVARIANTS
    TypeOK
    NoStrayTailcall
    TailcallIsItsOwn
    ReturnEndsItsLevels
    FramesMatchCalls
    SignalLevelExact
    CallFrameLimit

    
CHECK_DEADLOCK FALSE
