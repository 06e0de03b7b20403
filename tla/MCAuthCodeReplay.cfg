SPECIFICATION Spec
SYMMETRY MCSymmetry
CHECK_DEADLOCK FALSE
CONSTANTS
    Procs = {p1, p2}
    Codes = {c1}
    Clients = {k1}
    Offline = {c1}
    CodeTTL = 2
    Grace = 1
    Operations = {}
    MaxClock = 2
INVARIANTS
    ReplayRevokesFamily
