SPECIFICATION Spec
SYMMETRY MCSymmetry
CHECK_DEADLOCK FALSE
CONSTANTS
    Procs = {p1, p2, p3}
    Codes = {c1}
    Clients = {k1, k2}
    Offline = {c1}
    CodeTTL = 2
    Grace = 1
    Operations = {"lose", "endFamily", "kvFail", "abort"}
    MaxClock = 4
INVARIANTS
    SingleUse
    KilledStaysKilled
    ExchangeInGoodStanding
