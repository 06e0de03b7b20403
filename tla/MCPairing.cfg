SPECIFICATION Spec
SYMMETRY MCSymmetry
CHECK_DEADLOCK FALSE
CONSTANTS
    Procs = {p1, p2, p3}
    Pairings = {x1}
    Accounts = {a1, a2}
    None = None
    PairingTTL = 2
    Operations = {"kvFail", "toggle", "abort"}
    MaxClock = 2
INVARIANTS
    OneApproval
    OneSession
