SPECIFICATION Spec
CONSTANTS
    Hunts = {h1}
    Presses = {p1}
    Wallets = {w1, w2}
    First = w1
    Contracts = {c1, c2}
    GasLimits = {1}
SYMMETRY Symmetry
INVARIANTS TypeOK HonestReport FeeOnlyForResult ChargedOnce AcceptedReached
CHECK_DEADLOCK FALSE
