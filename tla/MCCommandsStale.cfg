SPECIFICATION Spec
CONSTANTS
    c1 = c1  c2 = c2  c3 = c3
    Parts = {"p", "a"}
    Words <- NsWords
    Namespaces <- NsBoth
    CmdIds <- McIds3
    InitTable <- OneNative
    MaxDepth = 2
    MaxLocals = 1
    MaxEpoch = 3
INVARIANT CacheFresh
CHECK_DEADLOCK FALSE
SYMMETRY FreshIds
