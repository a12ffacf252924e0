SPECIFICATION Spec
CONSTANTS
    Provider = {p1, p2}
    Route = {r1}
    Profile = {a, b}
    None = None
    Console = {c1}
    MaxToken = 0
    MaxRequests = 2
    MaxMoves = 1
    Asked <- Routings
    MaxFaults = 0
SYMMETRY Symmetry
INVARIANT ChangeSurvives
CHECK_DEADLOCK FALSE
