SPECIFICATION Spec
CONSTANTS
    N = 3
    Hooks = 2
    Nil = Nil
INVARIANTS
    TypeOK
    StopsInReverseOrder
    HooksRunFirst
    NoErrorIsLost
PROPERTIES
    ShutdownCompletes
    NoGoroutineLeaks
\* Run returns and the process ends.
CHECK_DEADLOCK FALSE
