SPECIFICATION MintNowSpec
CONSTANTS
    free = free
    paid = paid
    token = token
    seadrop = seadrop
    feeTo = feeTo
    alice = alice
    bob = bob
    w1 = w1
    w2 = w2
    NoAnswer = noAnswer
    NoInfo = noInfo
    Signatures <- MCSignatures
    NotMintFns = {"transfer"}
    ProxyFns = {"mintPublic"}
    Addresses = {free, paid, token, seadrop, feeTo, alice, bob, w1, w2, probe}
    ProbeWallet = probe
    NoSender = noSender
    Targets = {free, paid, token, seadrop}
    Answers <- MCAnswers
    Feed <- MCFeed
    Setups = {"feed", "upstream", "fallback"}
    Drivers = {"redis", "file"}
    PromoteAfter = 2
    PromoteOnBoard = 1
    MinMints = 1
    InspectTop = 1
    TTL = 2
    DefaultTTL = 3
    NoSample = noSample
    NoRow = noRow
    Never = never
    MaxSeen = 2
    Wallets = {w1, w2}
    First = w1
    Runs <- MCRuns
    MaxValue = 1
CONSTRAINT Alone
INVARIANTS SendsWhatWasSeen
PROPERTIES QuietBoardExpires
