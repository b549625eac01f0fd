SPECIFICATION FairSpec
CONSTANTS
    a = a
    b = b
    d = d
    NoConn = NoConn
    Nodes = {a, b}
    Silent = {d}
    Seeds <- EachOther
    OldBans <- BannedD
    Slots = {1, 2}
    MaxOutbound = 1
    MaxInbound = 1
    MaxAddrs = 2
    MaxAttempts = 1
    MaxRestarts = 1
    MaxEvents = 1
    MaxDials <- DialsOnceTwice
INVARIANTS
    OneLink
    GoodMeansReached
    BannedStayOut
PROPERTIES
    HandshakesEnd
CHECK_DEADLOCK FALSE
