SPECIFICATION FairSpec
CONSTANTS
    Requests = {r1, r2}
    Accounts = {a1, a2}
    Collections = {c1, c2}
    NoCollection = none
    InspectTop = 2
    MaxMintsPerCycle = 1
    MaxRounds = 2
    MaxLookUps = 1
INVARIANTS TypeOK CapHeld
PROPERTIES SentIsRemembered AlwaysUnlocked
CHECK_DEADLOCK FALSE
