SPECIFICATION Spec
CONSTANTS
    Request = {r1, r2}
    Config <- Impatient
    Window = 2
    SlotQueue = 1
    QueueFloor = 1
    Horizon = 3
    MaxTime = 5
    Jump <- NoJump
    MaxSteps = 0
INVARIANTS IdleLaneEmpty
