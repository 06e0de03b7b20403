SPECIFICATION FairSpec
CHECK_DEADLOCK FALSE
CONSTANTS
    Procs = {p1, p2}
    Clients = {c1, c2}
    Owner = c1
    Mixes <- MCMixes
    InactivityTTL = 2
    AbsoluteTTL = 3
    Window = 1
    MaxClock = 3
    MaxToken = 3
INVARIANTS
    OneSuccessor
    MintsInGoodStanding
    NeverLockedOut
PROPERTIES
    ImplementsChain
    ReplayEndsFamily
