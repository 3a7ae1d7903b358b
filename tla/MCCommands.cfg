SPECIFICATION Spec
CONSTANTS
    c1 = c1  c2 = c2  c3 = c3
    Parts = {"p", "q"}
    Words <- GlobalWords
    Namespaces <- GlobalOnly
    CmdIds <- McIds3
    InitTable <- OneNative
    MaxDepth = 2
    MaxLocals = 1
    MaxEpoch = 3
INVARIANTS TypeOK  UpcallHasPrevious CacheSound CacheFresh
PROPERTY LocalsRemoved
CHECK_DEADLOCK FALSE
SYMMETRY FreshIds
