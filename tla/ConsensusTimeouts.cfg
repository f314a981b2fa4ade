CONSTANTS
    noLanes = noLanes
    lanesB = lanesB
    lanesC = lanesC
    EmptyCut = noLanes
    Cuts = {noLanes, lanesB}
    UnpayableCuts = {}
    MayRefuse = TRUE
    N = 3
    Observers = 0
    Power <- HeavyPower
    Prefix <- OneEmptySlot
    MaxSlot = 2
    MaxView = 1
    Impatient <- AllImpatient
    MaxRestarts = 0
SPECIFICATION Spec
INVARIANTS
    CommitsAreAcknowledged
    ForksExplained
PROPERTIES
    LateAckIsOfTheParent
CHECK_DEADLOCK FALSE
