SPECIFICATION Spec
CONSTANTS
    Block <- BlocksSnapshot
    Genesis = "g"
    Prev <- MCPrev
    Path <- MCPath
    ChainWork <- MCWork
    Tx <- MCTx
    Txs <- MCTxs
    Spends <- MCSpends
    Token <- MCToken
    NewTokens <- MCNewTokens
    PoolVal <- MCPoolVal
    NoPool = 0
    PoolWrites <- MCPoolWrites
    HeaderRules <- AllTrue
    BodyRules <- AllTrue
    LedgerRules <- AllTrue
    SigsOk <- MCSigsOk
    Commit <- MCCommit
    StateAt <- MCStateAt
    PRUNE_DEPTH = 2
    MAX_REORG_DEPTH = 2
    SNAPSHOT_INTERVAL = 3
    SNAPSHOT_DELAY = 1
    KEEP_SNAPSHOTS = 1
    FLUSH_NORMAL = 1
    FLUSH_SYNC = 2
    Faults = {"crash"}
    NoFile = NoFile
    NoBlock = NoBlock
INVARIANTS
    Recoverable
    CommitmentsChecked
