SPECIFICATION Spec
CONSTANTS
    Block = {"g", "a1", "a2", "b1", "b2", "b3"}
    Genesis = "g"
    Parent <- MCParent
    Tx <- AllTx
    TxsOf <- MCTxsOf
    Ins <- MCIns
    Outs <- MCOuts
    Bad = {"b3"}
    Maturity = 1
    Standard <- Pending
    MaxPool = 2
    Swaps = {"s"}
    Texts = {"s"}
    None = None
    MaxRestarts = 1
    MaxFaults = 1
INVARIANTS
    PoolApplies
    CoinsMatch
    PaymentsDated
    IndexesFollow
PROPERTIES
    
    KeepsPromise
CHECK_DEADLOCK FALSE
