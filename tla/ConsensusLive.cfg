CONSTANTS
    noLanes = noLanes
    lanesB = lanesB
    lanesC = lanesC
    EmptyCut = noLanes
    Cuts = {lanesB, lanesC}
    UnpayableCuts = {lanesC}
    MayRefuse = FALSE
    N = 4
    Observers = 0
    Power <- HeavyPower
    Prefix <- TwoSlots
    MaxSlot = 5
    MaxView = 3
    Dead = {3}
SPECIFICATION FairSpec
PROPERTY
    EveryoneAdvances
CHECK_DEADLOCK FALSE
