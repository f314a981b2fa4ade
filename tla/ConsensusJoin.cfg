CONSTANTS
    noLanes = noLanes
    lanesB = lanesB
    lanesC = lanesC
    EmptyCut = noLanes
    Cuts = {lanesB, lanesC}
    UnpayableCuts = {}
    MayRefuse = FALSE
    N = 2
    Observers = 1
    Power <- HeavyPower
    Prefix <- OneSlot
    MaxSlot = 3
    MaxView = 1
    Impatient <- FirstAtTheEnd
    MaxRestarts = 1
SPECIFICATION Spec
INVARIANTS
    Agreement
    CommitsFollowChain
CONSTRAINT
    RestartsOrTimeouts
CHECK_DEADLOCK FALSE
