SPECIFICATION Spec
CONSTANTS
    x1 = x1
    x2 = x2
    y1 = y1
    gx = gx
    gy = gy
    v1 = v1
    i1 = i1
    i2 = i2
    i3 = i3
    Words = {x1, y1, gx, gy}
    NameOf <- McNames
    IsGlobal <- McGlobals
    LinkWords = {gx, gy}
    VarIds = {i1, i2, i3}
    Vals = {v1}
    Statics <- NoStatics
    MaxFrames = 2
    MaxDepth = 2
    MaxEpoch = 3
CHECK_DEADLOCK FALSE
SYMMETRY FreshVars
INVARIANT NoLinkCycle
