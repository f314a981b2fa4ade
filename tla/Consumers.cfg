CONSTANTS
    MaxHeight = 4
    MaxReconnects = 2
    StartBlock = 0
    MaxSendFailures = 1
    t1 = t1
    t2 = t2
    t3 = t3
    Txs <- MCTxs
    Needs <- MCNeeds
    Broken <- MCBroken
    MaxFeedBlocks = 3
    MaxTxsPerBlock = 2
    BufferBlocks = 1
    WorkingWindow = 2
    CatchupSlack = 1
    MaxLag = 0
    MaxRestarts = 1
    LastRestart = 2
    Hashes = {h1, h2}
    MaxOccurrences = 2
    MaxBlocks = 3
    MaxStepsPerBlock = 3
    MaxIdleProofs = 1
    MaxMishaps = 1
SPECIFICATION ConsumersSpec
INVARIANTS
    PublishedInOrder
    ProverInStep
    CsiFollowsChain
    TablesFollowChain
    AnswersSound
PROPERTIES
    EveryBlockPublished
CHECK_DEADLOCK FALSE
