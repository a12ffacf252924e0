CONSTANTS
    a = a
    b = b
    c1 = c1
    c2 = c2
    s1 = s1
    s2 = s2
    Chain <- TwoAccounts
    Call = {c1, c2}
    Session = {s1, s2}
    Modes <- BothModes
    Threshold = 1
    Qoder <- Both
    Metered <- Nobody
    Ailment <- Either
    MaxTurns = 1
    Switched <- Backup
SPECIFICATION Spec
INVARIANTS TypeOK HealthyNeverRested PinFollowsAnswer
PROPERTIES BlameNeedsAnswer
CHECK_DEADLOCK FALSE
