SPECIFICATION Spec
CONSTANTS
    Conns = {c1, c2}
    NoConn = none
    Gets = {g1}
    Recursives = {q1}
    Lists = {l1}
    MaxMoves = 1
    MaxEvents = 1
    MaxActive = 2
    Faults = {"queryFails", "garbled", "unexpected"}
SYMMETRY MCSymmetry
INVARIANTS TypeOK ListIsFresh EventsLoggedOnce
