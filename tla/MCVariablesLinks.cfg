SPECIFICATION FairSpec
CONSTANTS
    x1 = x1
    x2 = x2
    y1 = y1
    gx = gx
    gy = gy
    v1 = v1
    i1 = i1
    i2 = i2
    i3 = i3
    Words = {x1, y1}
    NameOf <- McNames
    IsGlobal <- McGlobals
    LinkWords = {x1, y1}
    VarIds = {i1, i2, i3}
    Vals = {v1}
    Statics <- NoStatics
    MaxFrames = 2
    MaxDepth = 1
    MaxEpoch = 2
CHECK_DEADLOCK FALSE
INVARIANT NoLinkCycle
PROPERTIES Implements AccessEnds
