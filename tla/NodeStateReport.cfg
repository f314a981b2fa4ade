CONSTANTS
    Names <- MCNames
    Hyle = "hyle"
    Parent <- MCParent
    NoParent = NoParent
    NativeList = {"sha3"}
    Absent = Absent
    Untouched = Untouched
    Txs = {1}
    TxOf <- NativeTxs
    Registered <- TldRegistered
    ProofTxs <- NativeProofs
    MaxWindow = 2
    MaxProofs = 2
    AfterFork = TRUE
SPECIFICATION Spec
PROPERTIES
    ReportReplays
