CONSTANTS
    noLanes = noLanes
    lanesB = lanesB
    lanesC = lanesC
    EmptyCut = noLanes
    Cuts = {noLanes, lanesB}
    UnpayableCuts = {}
    MayRefuse = FALSE
    N = 3
    Observers = 0
    Power <- HeavyPower
    Prefix <- NoPrefix
    MaxSlot = 1
    MaxView = 0
    Impatient <- NobodyImpatient
    MaxRestarts = 0
SPECIFICATION Spec
PROPERTY
    AckIsForTheSlot
CHECK_DEADLOCK FALSE
