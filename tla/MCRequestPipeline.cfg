SPECIFICATION Spec
CONSTANTS
    Nil = Nil
    r1 = r1
    r2 = r2
    p1 = p1
    Request = {r1, r2}
    Probe = {p1}
    Methods <- Called
    MaxOpenConns = 1
    ReadTimeoutOn = TRUE
INVARIANTS
    TypeOK
    AccountedOnce
    FaultsAreToldApart
    ConnectionsComeBack
PROPERTIES
    EveryoneIsAnswered
\* Every request is served once.
CHECK_DEADLOCK FALSE
