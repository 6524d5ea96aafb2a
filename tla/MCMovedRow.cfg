SPECIFICATION Spec
CONSTANTS
    Id = {1, 2, 3}
    Time = {1, 2}
    DefaultPageSize = 1
    MaxPageSize = 2
    Sizes = {0, 2, 3}
    Nil = Nil
INVARIANTS
    CursorNeverRepeats
CHECK_DEADLOCK FALSE
