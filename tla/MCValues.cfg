CONSTANTS
    x = x
    y = y
    a = a
    twice = twice
    none = none
    Vars = {x, y}
    Words = {a, twice, none}
    EmptyWord = none
    WordText <- McTexts
    SetVars <- McSetVars
    Objs <- McObjs
    Paths <- McPaths
    Ranges <- McRanges
    KeyPaths <- McKeyPaths
    MaxCommands = 3
SPECIFICATION Spec
VIEW View
INVARIANTS
    TypeOK
    CountsExact
    TextsFresh
    ListsSurvive
    ExpressionsRight
PROPERTY
    Implements
CHECK_DEADLOCK FALSE
