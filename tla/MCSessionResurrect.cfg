SPECIFICATION Spec
SYMMETRY MCSymmetry
CHECK_DEADLOCK FALSE
CONSTANTS
    a1 = a1
    None = None
    Accounts = {a1}
    Tokens = {t1}
    Legacy = {}
    AcctOf <- MCOneAccount
    Procs = {p1, p2}
    Mixes <- MCSingleLife
    Remember = {FALSE}
    SessionTTL = 4
    RememberTTL = 8
    DayCap = 1
    LeaseTTL = 1
    SudoTTL = 2
    BriefClock = 1
    MaxClock = 2
    MaxSid = 1
INVARIANTS
    EndedStaysEnded
