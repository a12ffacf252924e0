SPECIFICATION FairSpec
CONSTANTS
    Request = {r1, r2}
    MaxMinted = 2
    MintedAges <- LongLived
    Operator <- SignsOut
    Others = TRUE
    Forced = {r2}
INVARIANTS TypeOK
PROPERTIES ReplacedNotSpent OutcomeOwed CallsReturn
CHECK_DEADLOCK FALSE
