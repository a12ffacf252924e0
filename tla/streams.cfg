SPECIFICATION Spec
CONSTANTS
    Call <- MCCall
    Routes <- MCAll
    MaxFrames <- MCFrames
    MaxAttempts = 2
INVARIANTS
    TypeOK
    WellFormed
    OneReply
    FinishedIsWhole
    CutIsTold
    EmptyTurnIsNoAnswer
CHECK_DEADLOCK FALSE
