SPECIFICATION Spec
CONSTANTS
    TxId <- MCTxId
    Size <- MCSize
    Submissions <- MCSubmissions
    Blocks <- MCBlocks
    Senders <- MCSenders
    NoSender <- MCNoSender
    MaxTxs = 2
    MaxBytes = 4
    MaxTxBytes = 4
    MaxBatchTxs = 1
    TTL = 1
    CacheSize = 2
    MinGasPrice = 0
    RecheckEnabled = TRUE
    HasCheckTx = TRUE
    MaxClock = 6
INVARIANTS TypeOK Accounting Capacity ReapKeepsNonceOrder RemovedStaysOut
PROPERTIES ImplementsBoundedPool
