SPECIFICATION Spec
CONSTANTS
    a1 = a1
    a2 = a2
    recipient = recipient
    feePct = feePct
    q1 = q1
    q2 = q2
    client = client
    Callers = {client}
    Capacity = 1
    Unit = 2
    Refill = 1
    MaxClock = 1
    MaxForward = 2
    Fields = {recipient, feePct}
    PctFields = {feePct}
    Values = {1, 2, 3}
    MaxPct = 2
    Base <- MCBase
    Null = null
    Bad = bad
    Unset = unset
    NoRow = norow
    Requests = {q1, q2}
    Input <- MCInput
    CallerOf <- MCCallerOf
    Accounts = {a1, a2}
    OldSettings <- MCOldSettings
SYMMETRY Symmetry
CONSTRAINT Crowd
INVARIANTS TypeOK BucketAverage
PROPERTIES PatchKeeps NoRollback
CHECK_DEADLOCK FALSE
