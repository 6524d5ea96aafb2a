SPECIFICATION MCSpec
CONSTANTS
    c1 = c1
    c2 = c2
    e1 = e1
    e2 = e2
    e3 = e3
    n1 = n1
    n2 = n2
    draft = draft
    active = active
    Nil = Nil
    Empty = Empty
    Cid = {c1, c2}
    Eid = {e1, e2, e3}
    Slot = {r1, r2}
    Name = {n1, n2}
    Status = {draft, active}
    StatusDraft = draft
    Time = {0, 1, 2, 3}
    Precision = 2
    Fault = {}
    Requests <- NarrowWindows
SYMMETRY Slots
CHECK_DEADLOCK FALSE
INVARIANTS
    ValidateCoversTheChecks
