CONSTANTS
    a = a
    b = b
    c1 = c1
    c2 = c2
    s1 = s1
    s2 = s2
    Chain <- TwoAccounts
    Call = {c1, c2}
    Session = {s1}
    Modes <- Ordered
    Threshold = 2
    Qoder <- Nobody
    Metered <- Primary
    Ailment <- Either
    MaxTurns = 2
    Switched <- Nobody
SPECIFICATION FairSpec
PROPERTIES PreferredComesBack
CHECK_DEADLOCK FALSE
