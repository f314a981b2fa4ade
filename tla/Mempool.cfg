SPECIFICATION FairSpec
CONSTANTS
    N = 2
    Power <- FirstHeavy
    LaneIds = {1, 2}
    Txs <- AllTxs
    Scripts <- TwoScripts
    RegisterTxs <- Registers
    ProofTxs <- Proofs
    Joiners <- Second
    MaxBatch = 1
    MaxSlot = 2
    MaxFaults = 1
INVARIANTS
    LanesAgree
    BlocksPartitionLanes
    OperatorHolds
PROPERTIES
    EveryProposalCommitted
