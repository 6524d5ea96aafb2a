SPECIFICATION AppSpec
CONSTANTS
    N = 2
    Hooks = 1
    Nil = Nil
    h1 = h1
    h2 = h2
    Handler = {h1, h2}
INVARIANTS
    AppTypeOK
    ProbesOutliveTheDrain
    LeavesServiceFirst
    NoRequestIsCutShort
    CutsAreReported
PROPERTIES
    ProcessExits
\* The process ends.
CHECK_DEADLOCK FALSE
