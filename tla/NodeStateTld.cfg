CONSTANTS
    Names <- MCNames
    Hyle = "hyle"
    Parent <- MCParent
    NoParent = NoParent
    NativeList = {"sha3"}
    Absent = Absent
    Untouched = Untouched
    Txs = {1, 2, 3, 4, 5, 6}
    TxOf <- TldTxs
    Registered <- TldRegistered
    ProofTxs <- TldProofs
    MaxWindow = 2
    MaxProofs = 1
    AfterFork = FALSE
SPECIFICATION Spec
INVARIANTS
    KnownContracts
    QueuesCoherent
    TimeoutsCoherent
PROPERTIES
    OnlyHeadSettles
