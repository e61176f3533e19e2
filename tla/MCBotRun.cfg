SPECIFICATION FairSpec
CONSTANTS
    Wallets = {w1}
    TxPerWallet = 2
    Endpoints = {e1, e2}
    Value = 1
    Fee = 1
    GasLimits = {1, 3}
    AssumedGas = 2
    Ceiling = 6
    FireAt = 1
    Foreign = foreign
    MaxForeign = 1
    MaxTime = 2
INVARIANTS TypeOK AckedIsAccepted AcceptedArrived CeilingHeld
PROPERTY EndsOnceReady
CHECK_DEADLOCK FALSE
