SPECIFICATION Spec
CONSTANTS
    Id = {1, 2, 3}
    Time = {1, 2}
    DefaultPageSize = 1
    MaxPageSize = 2
    Sizes = {0, 2, 3}
    Nil = Nil
INVARIANTS
    TypeOK
    PagesDescend
    PagesFitTheRequest
    NothingStillIsSkipped
    NoCampaignTwice
PROPERTIES
    WalkEnds
\* A walk that ended takes no further step.
CHECK_DEADLOCK FALSE
