SPECIFICATION FairSpec
CONSTANTS
    Request = {r1, r2}
    Config <- Mixed
    Window = 2
    SlotQueue = 1
    QueueFloor = 1
    Horizon = 1
    MaxTime = 3
    Jump <- Jumps
    MaxSteps = 1
PROPERTIES AnswerEventually
