SPECIFICATION Spec
CONSTANTS
    NoAnswer = noAnswer
    NoInfo = noInfo
    Whole = 1000
    Dials <- MCDials
    Server <- MCServer
    Asked <- MCAsked
    Sampled <- MCSampled
    Contracts <- MCContracts
    MaxUnread = 2
INVARIANTS PrefilterSound QualifiedIsEarned NearMissIsReachable
