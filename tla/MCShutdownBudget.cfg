SPECIFICATION Spec
CONSTANTS
    r1 = r1
    r2 = r2
    p1 = p1
    Request = {r1, r2}
    Probe = {p1}
    Configurations <- Chains
    Default <- Library
    FlushTimeout = 1
INVARIANTS
    TypeOK
    OnlyABrokenLinkCuts
\* The process ends.
CHECK_DEADLOCK FALSE
