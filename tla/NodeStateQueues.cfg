CONSTANTS
    Names <- MCNames
    Hyle = "hyle"
    Parent <- MCParent
    NoParent = NoParent
    NativeList = {"sha3"}
    Absent = Absent
    Untouched = Untouched
    Txs = {1, 2, 3}
    TxOf <- QueueTxs
    Registered <- QueueRegistered
    ProofTxs <- QueueProofs
    MaxWindow = 2
    MaxProofs = 1
    AfterFork = TRUE
SPECIFICATION FairSpec
PROPERTIES
    ReportReplays
    EveryTxResolves
