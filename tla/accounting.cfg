SPECIFICATION Spec
CONSTANTS
    Request = {r1, r2}
    Buffer = 1
    UsageMax = 2
    LogMax = 2
    TokenLimit = 3
    CostLimit = 1
    Prompt = 1
    Outcome <- Outcomes
    MaxMishaps = 1
    MaxLives = 2
SYMMETRY Symmetry
INVARIANTS TypeOK ReservationsMatch MemoryMatchesDaily NoRowParked
PROPERTIES RefusalJustified UsageLands RowsLand
CHECK_DEADLOCK FALSE
