SPECIFICATION ScopeSpec
CONSTANTS
    c1 = c1  c2 = c2  c3 = c3
    Parts = {"p", "q"}
    Words <- GlobalWords
    Namespaces <- GlobalOnly
    CmdIds <- McIds
    InitTable <- OneNative
    MaxDepth = 4
    MaxLocals = 2
    MaxEpoch = 6
INVARIANTS LocalsLeaveNoTrace
CHECK_DEADLOCK FALSE
SYMMETRY FreshIds
