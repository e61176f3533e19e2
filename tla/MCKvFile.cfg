SPECIFICATION FairSpec
CONSTANTS
    k1 = k1
    k2 = k2
    v1 = v1
    v2 = v2
    o1 = o1
    o2 = o2
    o3 = o3
    o4 = o4
    Keys = {k1, k2}
    Values = {v1, v2}
    NoValue = none
    Ops = {o1, o2, o3, o4}
    Op <- MCOp
    Torn = torn
    MaxFaults = 1
INVARIANTS TypeOK SavedRowsStay
PROPERTIES NothingLost EveryWriteSettles
CHECK_DEADLOCK FALSE
