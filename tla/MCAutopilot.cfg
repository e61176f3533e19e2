SPECIFICATION FairSpec
CONSTANTS
    Contracts = {c1, c2, c3, c4}
    NoContract = none
    Denylist = {c4}
    Allowlist = {}
    NumTx = 2
    Values <- MCValues
    GasLimits <- MCGasLimits
    MaxGasLimit = 2
    FeePerGas = 1
    TotalBudget = 10
    CollectionBudget = 4
    MaxPerHour = 2
    Hour = 1
    MaxTime = 3
INVARIANTS TypeOK BudgetHeld CollectionCapHeld HourlyCapHeld
PROPERTY AlwaysReleased
CHECK_DEADLOCK FALSE
