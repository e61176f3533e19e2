SPECIFICATION Spec
CONSTANTS
    a1 = a1
    a2 = a2
    p1 = p1
    p2 = p2
    Accounts = {a1}
    Requests = {r1, r2}
    Payments = {p1, p2}
    NoPayment = none
    Tx <- MCTx
    Billings <- MCBillings
    Period = 1
    MaxTime = 1
    MaxUntil = 3
INVARIANTS TypeOK MonthPerPayment NoFreeCycle
