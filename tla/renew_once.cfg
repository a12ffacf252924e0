SPECIFICATION Spec
CONSTANTS
    Request = {r1, r2, r3}
    MaxMinted = 3
    MintedAges <- LongLived
    Operator <- SignsInOrOut
    Others = FALSE
    Forced = {}
SYMMETRY Symmetry
INVARIANTS OneExchange
PROPERTIES FailureShared
CHECK_DEADLOCK FALSE
