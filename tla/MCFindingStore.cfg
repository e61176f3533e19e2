SPECIFICATION StoreSpec
CONSTANTS
    Contracts = {c1, c2}
    NoContract = none
    NoRow = norow
    Recorders = {r1, r2}
    Pricers = {p1}
    MaxRecords = 1
    MaxRounds = 3
    MaxFails = 1
SYMMETRY Symmetry
INVARIANTS HistoryKept CapAtRest
CHECK_DEADLOCK FALSE
