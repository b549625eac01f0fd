SPECIFICATION FairSpec
CONSTANTS
    g = g
    h1 = h1
    h2 = h2
    h3 = h3
    b2 = b2
    b3 = b3
    b4 = b4
    moving = moving
    lagging = lagging
    coin = coin
    change = change
    pay = pay
    spend = spend
    Headers = {g, h1, h2, h3, b2, b3, b4}
    Genesis = g
    NoHeader = NoHeader
    Parent <- MCParent
    Work <- MCWork
    Valid = {g, h1, h2, h3, b2, b3}
    Coins = {coin, change}
    Txs = {pay, spend}
    Ins <- MCIns
    Outs <- MCOuts
    Includes <- MCIncludes
    Peers = {moving, lagging}
    Views <- MCViews
    Batch = 2
    MaxReorg = 1
    MaxTimeouts = 1
INVARIANTS
    ChainValid
PROPERTIES
    WorkKept
    SentStaysLocked
    CallsEnd
