SPECIFICATION TrackerSpec
CONSTANTS
    Collections = {c1, c2}
    Senders = {s1, s2}
    NoRow = norow
    NoJob = nojob
    Window = 1
    MinAttempts = 2
    MinUniqueMinters = 2
    MaxAge = 2
    PromoteAfter = 2
    FreeOnly = TRUE
    MaxContracts = 1
    EvictAfter = 1
    MaxQueue = 1
    MaxSamples = 1
    MaxClock = 3
    MaxMints = 5
INVARIANTS TrackerTypeOK NeverMissed WindowExact
CHECK_DEADLOCK FALSE
