CONSTANTS
    MIN_STAKE = 1
    TOTAL_SUPPLY = 8
    Faucet = "faucet"
    TokenOrder <- MCTokenOrder
    Users = {"faucet", "bob"}
    Passwords = {"p", "q"}
    Validators = {"v1", "v2"}
    Amounts = {1, 2}
    Founder = "founder"
    FirstValidator = "v1"
    GenesisStake = 2
    EarlierTxs <- MCEarlierTxs
    MaxTxs = 2
    MaxChainBlocks = 2
    MaxCumulSize = 1
    MaxProvedTxs = 3
    MaxTxsPerProof = {2}
    MaxConns = 2
    MaxLosses = 1
    MaxMessages = 2
    GenesisNodes = {"n1", "n2", "n3"}
    GenesisStakers <- MCGenesisStakers
    StakeOf <- MCStakeOf
    FeeDeposit = 1
    MaxCanals = 1
    MaxStops = 1
    MaxCommits = 4
    MaxCut = 2
    MaxRuns = 3
    ModuleOrder <- MCModuleOrder
    MaxTriggers = 3
    BusSenders = {"s1", "s2"}
    BusReceivers = {"r1", "r2"}
    CHANNEL_CAPACITY = 3
    CHANNEL_CAP_IF_WAITING = 2
    MAX_ATTEMPTS = 1
    MaxBusMessages = 5
    WsClients = {"c1", "c2"}
    TxsOfBlock <- MCTxsOfBlock
    MaxPending = 2
    MaxRequests = 2
    MaxBroadcasts = 1
SPECIFICATION ServicesSpec
INVARIANTS
    StakesAgree
    ProgramAgrees
    PeersAgree
    ReceivedInOrder
    GenesisSound
    SingleChain
    ExitsAfterAll
    NobodyLags
    TopicsDelivered
PROPERTIES
    AccountsSafe
    GenesisCompletes
    OrderlyShutdown
CHECK_DEADLOCK FALSE
