CONSTANTS
    noLanes = noLanes
    lanesB = lanesB
    lanesC = lanesC
    EmptyCut = noLanes
    Cuts = {lanesB, lanesC}
    UnpayableCuts = {}
    MayRefuse = FALSE
    N = 3
    Observers = 0
    Power <- HeavyPower
    Prefix <- OneSlot
    MaxSlot = 2
    MaxView = 1
    Impatient <- AllImpatient
    MaxRestarts = 0
SPECIFICATION Spec
INVARIANT
    Agreement
CHECK_DEADLOCK FALSE
