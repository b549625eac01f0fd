\* Mining started, stopped and restarted, with the node and by RPC; setmining
\* can hang the node, after which nothing moves.
SPECIFICATION FairSpec
CONSTANTS
    Worker = {w1, w2}
    Payout = {p1}
    NoPayout = NoPayout
    NoTemplate = NoTemplate
    Requests = {"node-start", "setmining", "node-stop"}
    MaxTip = 1
    MaxSolves = 1
    MaxBuilds = 2
CHECK_DEADLOCK FALSE
INVARIANTS
    TypeOK
    FreshWhenClean
    WorkersUpToDate
PROPERTIES
    NodeStops
    KeepsMining
