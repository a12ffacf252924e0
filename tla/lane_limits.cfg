SPECIFICATION Spec
CONSTANTS
    Request = {r1, r2, r3}
    Config <- Limits
    Window = 2
    SlotQueue = 1
    QueueFloor = 1
    Horizon = 2
    MaxTime = 4
    Jump <- NoJump
    MaxSteps = 0
SYMMETRY Symmetry
INVARIANTS TypeOK SlotsCovered SlotAccounting QueueIsWaiters WindowCountsExchanges
PROPERTIES AccountSpec RateBudget ArrivalOrder NoLostWakeup
