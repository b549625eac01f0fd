SPECIFICATION Spec
CONSTANTS
    a = a
    b = b
    d = d
    NoConn = NoConn
    Nodes = {a, b}
    Silent = {d}
    Seeds <- EachOther
    OldBans <- BannedAD
    Slots = {1, 2}
    MaxOutbound = 1
    MaxInbound = 1
    MaxAddrs = 2
    MaxAttempts = 1
    MaxRestarts = 0
    MaxEvents = 3
    MaxDials <- DialsOnceTwice
INVARIANTS
    OnlyOrderedKept
CHECK_DEADLOCK FALSE
