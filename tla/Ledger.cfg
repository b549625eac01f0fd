SPECIFICATION Spec
CONSTANTS
    WIDTH = 5
    FEE_NUM = 9
    FEE_DEN = 10
    MIN_LIQUIDITY = 1
    QNT = QNT
    NoPool = NoPool
    MAX_MONEY = 17
    MAX_TOKEN_SUPPLY = 17
    DUST_LIMIT = 2
    COINBASE_MATURITY = 1
    MAX_TX_OPS = 3
    IN_FEE = 1
    EMISSION_CURVE = 16
    EMISSION_SPEED = 1
    TAIL_SUBSIDY = 2
    STEP = 2
    Me = Me
    You = You
    Foreign <- SeveralOps
    CoinbaseValues <- SplitReward
    Sums = {2, 3, 5}
    Supplies = {9}
    Heights = {4}
    MaxHeight = 4
    MaxPending = 2
    MaxTxs = 4
    MaxTokens = 1
INVARIANTS
    Conserved
    BuildsValid
    EmissionKept
PROPERTIES
    PoolsKeepWorth
    UndoExact
CHECK_DEADLOCK FALSE
