SPECIFICATION Spec
CONSTANTS
    a1 = a1
    a2 = a2
    p1 = p1
    p2 = p2
    Accounts = {a1}
    Requests = {r1}
    Payments = {p1, p2}
    NoPayment = none
    Tx <- MCTxTwo
    Billings <- MCOneBilling
    Period = 2
    MaxTime = 3
    MaxUntil = 6
INVARIANTS MonthPerPayment
