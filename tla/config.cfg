SPECIFICATION Spec
CONSTANTS
    Provider = {p1, p2}
    Route = {r1}
    Profile = {a, b}
    None = None
    Console = {c1, c2}
    MaxToken = 1
    MaxRequests = 2
    MaxMoves = 1
    Asked <- Routings
    MaxFaults = 1
SYMMETRY Symmetry
INVARIANTS RouteHasProvider ConfigDurable TokenDurable KeyDurable
CHECK_DEADLOCK FALSE
