SPECIFICATION Spec
CONSTANTS
    Alert = {a1}
    Channel = {c1}
    Severity = {2, 3}
    Sustain = 1
    Grace = 1
    Cooldown = 2
    FlapWindow = 5
    Suppression = 1
    Short = 3
    MaxEvents = 3
    MinSeverity <- MCMinSeverity
    DigestMinutes = 2
    Day = 2
    QuietEnd = 1
    RecoveryNotify = TRUE
    MaxMoves = 1
INVARIANT RecordedWasTold
PROPERTY DigestLeaves
